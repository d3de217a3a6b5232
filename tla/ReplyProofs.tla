---------------------------- MODULE ReplyProofs ----------------------------
(***************************************************************************)
(* What the replies promise.  First DeviceList: the pages of a walk and    *)
(* the unpaged list, for a pool of any size, any addresses, any row        *)
(* lengths and any number of joins, leaves and lost replies.  Then         *)
(* JsonText: the bytes of their strings, for every source and every size   *)
(* of the destination.                                                     *)
(***************************************************************************)
EXTENDS DeviceList, JsonText, FiniteSetTheorems, SequenceTheorems, WellFoundedInduction, TLAPS

(***************************************************************************)
(* The inductive invariant                                                 *)
(***************************************************************************)

\* The slots in use are the first ones, and no two live devices share an address.
PoolInv ==
  /\ Count \in 0..PoolSize
  /\ \A s \in Slots : /\ s \in Used <=> s <= Count
                      /\ pool[s].live => s \in Used
  /\ \A s, q \in Slots :
       pool[s].live /\ pool[q].live /\ pool[s].ieee = pool[q].ieee => s = q

\* The walk stands between what was received (up to cursor) and what the page
\* under way adds (up to last), in order.
OrderInv ==
  /\ Increasing(got)
  /\ pc \in {"asked", "rows", "sent"} => \A d \in Elements(got) : d <= cursor
  /\ pc \in {"rows", "sent"} =>
       /\ Increasing(page) /\ cursor <= last
       /\ \A d \in Elements(page) : cursor < d /\ d <= last

\* A steady device below the place of the walk has been listed.
SteadyInv ==
  /\ pc \in {"asked", "rows", "sent", "done"} => steady \subseteq Live
  /\ pc \in {"asked", "rows", "sent"} => \A d \in steady : d <= cursor => d \in Elements(got)
  /\ pc = "rows" \/ (pc = "sent" /\ more) =>
       \A d \in steady : d <= last => d \in Elements(got) \cup Elements(page)
  /\ pc = "sent" /\ ~more => steady \subseteq Elements(got) \cup Elements(page)
  /\ pc = "done" => steady \subseteq Elements(got)

\* What the buffers hold: an unpaged reply has at most a full row per slot passed.
FitInv ==
  /\ pc \in {"rows", "sent"} => pos + TailLen < Cap
  /\ pc \in {"sized", "all_rows", "all_sent"} => cap = BufferFor(counted)
  /\ pc = "all_rows" => ~more /\ pos <= HeadLen + (slot - 1) * RowCap
  /\ pc \in {"all_rows", "all_sent"} => pos + 2 <= cap
  /\ pc = "all_sent" /\ more => Count > counted + Slack

\* The addresses of the live devices in the slots below n.
LiveBelow(n) == {pool[s].ieee : s \in {q \in Slots : q < n /\ pool[q].live}}

\* The unpaged list holds the live devices passed, but for the ones left out.
FullInv ==
  pc = "all_rows" => /\ Elements(page) = LiveBelow(slot) \ skipped
                     /\ skipped \subseteq LiveBelow(slot)

IInv == TypeOK /\ PoolInv /\ OrderInv /\ SteadyInv /\ FitInv /\ FullInv

(***************************************************************************)
(* Sequences of addresses, products                                        *)
(***************************************************************************)

LEMMA ElementsType ==
  ASSUME NEW s \in Seq(Ieees)
  PROVE  Elements(s) \subseteq Ieees /\ Elements(s) \subseteq Nat
<1>1. \A a \in DOMAIN s : s[a] \in Ieees
  OBVIOUS
<1>2. Ieees \subseteq Nat
  BY PageAssumption
<1>3. QED BY <1>1, <1>2 DEF Elements

LEMMA AppendElements ==
  ASSUME NEW s \in Seq(Ieees), NEW d \in Ieees
  PROVE  Append(s, d) \in Seq(Ieees) /\ Elements(Append(s, d)) = Elements(s) \cup {d}
<1>1. /\ Append(s, d) \in Seq(Ieees)
      /\ DOMAIN Append(s, d) = 1..(Len(s) + 1) /\ DOMAIN s = 1..Len(s) /\ Len(s) \in Nat
      /\ Append(s, d)[Len(s) + 1] = d
      /\ \A a \in 1..Len(s) : Append(s, d)[a] = s[a]
  OBVIOUS
<1>2. Elements(Append(s, d)) \subseteq Elements(s) \cup {d}
  BY <1>1 DEF Elements
<1>3. Elements(s) \subseteq Elements(Append(s, d))
  BY <1>1 DEF Elements
<1>4. d \in Elements(Append(s, d))
  BY <1>1 DEF Elements
<1>5. QED BY <1>1, <1>2, <1>3, <1>4

LEMMA AppendIncreasing ==
  ASSUME NEW s \in Seq(Ieees), NEW d \in Ieees, Increasing(s), \A e \in Elements(s) : e < d
  PROVE  Increasing(Append(s, d))
<1>1. /\ DOMAIN Append(s, d) = 1..(Len(s) + 1) /\ DOMAIN s = 1..Len(s) /\ Len(s) \in Nat
      /\ Append(s, d)[Len(s) + 1] = d
      /\ \A a \in 1..Len(s) : Append(s, d)[a] = s[a]
  OBVIOUS
<1>2. \A a \in 1..Len(s) : s[a] < d
  BY <1>1 DEF Elements
<1>3. QED BY <1>1, <1>2 DEF Increasing

LEMMA ConcatShape ==
  ASSUME NEW s \in Seq(Ieees), NEW t \in Seq(Ieees)
  PROVE  /\ s \o t \in Seq(Ieees)
         /\ DOMAIN (s \o t) = 1..(Len(s) + Len(t))
         /\ DOMAIN s = 1..Len(s) /\ Len(s) \in Nat
         /\ DOMAIN t = 1..Len(t) /\ Len(t) \in Nat
         /\ \A a \in 1..Len(s) : (s \o t)[a] = s[a]
         /\ \A a \in 1..Len(t) : (s \o t)[Len(s) + a] = t[a]
OBVIOUS

LEMMA ConcatTail ==
  ASSUME NEW s \in Seq(Ieees), NEW t \in Seq(Ieees),
         NEW a \in DOMAIN (s \o t), a \notin DOMAIN s
  PROVE  a - Len(s) \in DOMAIN t /\ (s \o t)[a] = t[a - Len(s)]
OBVIOUS

LEMMA ConcatElements ==
  ASSUME NEW s \in Seq(Ieees), NEW t \in Seq(Ieees)
  PROVE  Elements(s \o t) = Elements(s) \cup Elements(t)
<1>1. Elements(s \o t) \subseteq Elements(s) \cup Elements(t)
  <2>1. ASSUME NEW a \in DOMAIN (s \o t)
        PROVE  (s \o t)[a] \in Elements(s) \cup Elements(t)
    BY ConcatShape, ConcatTail DEF Elements
  <2>2. QED BY <2>1 DEF Elements
<1>2. Elements(s) \subseteq Elements(s \o t)
  BY ConcatShape DEF Elements
<1>3. Elements(t) \subseteq Elements(s \o t)
  <2>1. ASSUME NEW a \in 1..Len(t)
        PROVE  t[a] \in Elements(s \o t)
    <3>1. Len(s) + a \in DOMAIN (s \o t) /\ (s \o t)[Len(s) + a] = t[a]
      BY ConcatShape
    <3>2. QED BY <3>1 DEF Elements
  <2>2. QED BY <2>1, ConcatShape DEF Elements
<1>4. QED BY <1>1, <1>2, <1>3

\* Every element of the first below every element of the second.
LEMMA ConcatIncreasing ==
  ASSUME NEW s \in Seq(Ieees), NEW t \in Seq(Ieees), NEW c \in Nat,
         Increasing(s), Increasing(t),
         \A d \in Elements(s) : d <= c, \A d \in Elements(t) : c < d
  PROVE  Increasing(s \o t)
<1>1. SUFFICES ASSUME NEW a \in DOMAIN (s \o t), NEW b \in DOMAIN (s \o t), a < b
               PROVE  (s \o t)[a] < (s \o t)[b]
  BY DEF Increasing
<1>2. a \in Nat /\ b \in Nat /\ Len(s) \in Nat
  BY ConcatShape
<1>3. CASE b \in 1..Len(s)
  <2>1. a \in 1..Len(s)
    BY <1>1, <1>2, <1>3, ConcatShape
  <2>2. QED BY <1>1, <1>3, <2>1, ConcatShape DEF Increasing
<1>4. CASE a \notin 1..Len(s)
  <2>1. a \notin DOMAIN s /\ b \notin DOMAIN s
    BY <1>1, <1>2, <1>4, ConcatShape
  <2>2. a - Len(s) \in DOMAIN t /\ (s \o t)[a] = t[a - Len(s)]
    BY <2>1, ConcatTail
  <2>3. b - Len(s) \in DOMAIN t /\ (s \o t)[b] = t[b - Len(s)]
    BY <2>1, ConcatTail
  <2>4. a - Len(s) < b - Len(s)
    BY <1>1, <1>2
  <2>5. t[a - Len(s)] < t[b - Len(s)]
    BY <2>2, <2>3, <2>4 DEF Increasing
  <2>6. QED BY <2>2, <2>3, <2>5
<1>5. CASE a \in 1..Len(s) /\ b \notin 1..Len(s)
  <2>1. (s \o t)[a] \in Elements(s) /\ (s \o t)[b] \in Elements(t)
    BY <1>5, ConcatShape DEF Elements
  <2>2. Elements(s) \subseteq Nat /\ Elements(t) \subseteq Nat
    BY ElementsType
  <2>3. QED BY <2>1, <2>2
<1>6. QED BY <1>3, <1>4, <1>5

LEMMA EmptyElements == Elements(<<>>) = {} /\ Increasing(<<>>)
BY DEF Elements, Increasing

LEMMA NextProduct ==
  ASSUME NEW a \in Nat, NEW r \in Nat
  PROVE  (a + 1) * r = a * r + r /\ a * r \in Nat
OBVIOUS

LEMMA ProductGrows ==
  ASSUME NEW a \in Nat, NEW m \in Nat, NEW r \in Nat, a <= m
  PROVE  a * r <= m * r
<1>1. PICK d \in Nat : m = a + d
  <2>1. m - a \in Nat /\ m = a + (m - a)
    OBVIOUS
  <2>2. QED BY <2>1
<1>2. (a + d) * r = a * r + d * r /\ d * r \in Nat /\ a * r \in Nat
  OBVIOUS
<1>3. QED BY <1>1, <1>2

(***************************************************************************)
(* The pool                                                                *)
(***************************************************************************)

LEMMA UsedFinite ==
  ASSUME pool \in [Slots -> Device]
  PROVE  IsFiniteSet(Used) /\ Count \in 0..PoolSize
<1>1. IsFiniteSet(Slots) /\ Cardinality(Slots) = PoolSize
  BY FS_Interval, PageAssumption DEF Slots
<1>2. Used \subseteq Slots
  BY DEF Used
<1>3. IsFiniteSet(Used) /\ Cardinality(Used) <= PoolSize
  BY <1>1, <1>2, FS_Subset
<1>4. QED BY <1>3, FS_CardinalityType DEF Count

\* A live slot has an address of its own.
LEMMA LiveSlot ==
  ASSUME TypeOK, PoolInv, NEW s \in Slots, pool[s].live
  PROVE  pool[s].ieee \in Ieees /\ pool[s].ieee \in Live /\ pool[s].ieee \in Nat
BY PageAssumption DEF TypeOK, PoolInv, Used, Device, Cursors, Live

\* A device joins: into a tombstone, or into the slot behind those in use.
LEMMA JoinPool ==
  ASSUME TypeOK, PoolInv, NEW s \in Slots, NEW ieee \in Ieees, Join(s, ieee)
  PROVE  /\ pool' \in [Slots -> Device] /\ PoolInv' /\ Live \subseteq Live'
         /\ Count <= Count'
<1>1. /\ ~pool[s].live /\ s <= Count + 1 /\ ieee \notin Live
      /\ pool' = [pool EXCEPT ![s] = [ieee |-> ieee, live |-> TRUE]]
  BY DEF Join
<1>2. /\ pool' \in [Slots -> Device]
      /\ pool'[s].ieee = ieee /\ pool'[s].live
      /\ \A q \in Slots \ {s} : pool'[q] = pool[q]
  BY <1>1 DEF TypeOK, Device, Cursors
<1>3. ieee # 0
  BY PageAssumption
<1>4. Used' = Used \cup {s}
  BY <1>2, <1>3 DEF Used
<1>5. IsFiniteSet(Used) /\ Count \in 0..PoolSize /\ Count' \in 0..PoolSize
  <2>1. IsFiniteSet(Used) /\ Count \in 0..PoolSize
    BY UsedFinite DEF TypeOK
  <2>2. IsFiniteSet(Slots) /\ Cardinality(Slots) = PoolSize /\ Used' \subseteq Slots
    BY FS_Interval, PageAssumption DEF Slots, Used
  <2>3. IsFiniteSet(Used') /\ Cardinality(Used') <= PoolSize
    BY <2>2, FS_Subset
  <2>4. Count' \in 0..PoolSize
    BY <2>3, FS_CardinalityType DEF Count
  <2>5. QED BY <2>1, <2>4
<1>6. Count' = IF s \in Used THEN Count ELSE Count + 1
  BY <1>4, <1>5, FS_AddElement DEF Count
<1>7. \A q \in Slots : q \in Used' <=> q <= Count'
  <2>1. Slots \subseteq Int /\ Count \in Int
    BY <1>5 DEF Slots
  <2>2. CASE s \in Used
    BY <1>4, <1>6, <2>2 DEF PoolInv
  <2>3. CASE s \notin Used
    <3>1. s = Count + 1
      BY <1>1, <2>1, <2>3 DEF PoolInv
    <3>2. QED BY <1>4, <1>6, <2>1, <2>3, <3>1 DEF PoolInv
  <2>4. QED BY <2>2, <2>3
<1>8. \A q \in Slots : pool'[q].live => q \in Used'
  BY <1>2, <1>4 DEF PoolInv
<1>9. ASSUME NEW a \in Slots, NEW b \in Slots,
             pool'[a].live, pool'[b].live, pool'[a].ieee = pool'[b].ieee
      PROVE  a = b
  <2>1. CASE a = s /\ b # s
    <3>1. pool[b].live /\ pool[b].ieee = ieee
      BY <1>2, <1>9, <2>1
    <3>2. QED BY <1>1, <3>1 DEF Live
  <2>2. CASE b = s /\ a # s
    <3>1. pool[a].live /\ pool[a].ieee = ieee
      BY <1>2, <1>9, <2>2
    <3>2. QED BY <1>1, <3>1 DEF Live
  <2>3. CASE a # s /\ b # s
    BY <1>2, <1>9, <2>3 DEF PoolInv
  <2>4. QED BY <2>1, <2>2, <2>3
<1>10. Live \subseteq Live'
  BY <1>1, <1>2 DEF Live
<1>11. Count <= Count'
  BY <1>5, <1>6
<1>12. QED BY <1>2, <1>5, <1>7, <1>8, <1>9, <1>10, <1>11 DEF PoolInv

\* A device leaves: its slot stays in use.
LEMMA LeavePool ==
  ASSUME TypeOK, PoolInv, NEW s \in Slots, Leave(s)
  PROVE  /\ pool' \in [Slots -> Device] /\ PoolInv' /\ Live \ {pool[s].ieee} \subseteq Live'
         /\ Count' = Count
<1>1. /\ pool' \in [Slots -> Device]
      /\ pool'[s].ieee = pool[s].ieee /\ ~pool'[s].live
      /\ \A q \in Slots \ {s} : pool'[q] = pool[q]
  BY DEF Leave, TypeOK, Device
<1>2. Used' = Used
  BY <1>1 DEF Used
<1>3. Count' = Count
  BY <1>2 DEF Count
<1>4. Live \ {pool[s].ieee} \subseteq Live'
  BY <1>1 DEF Live
<1>5. PoolInv'
  BY <1>1, <1>2, <1>3 DEF PoolInv
<1>6. QED BY <1>1, <1>3, <1>4, <1>5

\* No step but those two touches the pool.
LEMMA SamePool ==
  ASSUME PoolInv, UNCHANGED pool
  PROVE  PoolInv' /\ Live' = Live /\ Count' = Count
BY DEF PoolInv, Live, Count, Used

LEMMA PoolChangeStep ==
  ASSUME IInv, PoolChange
  PROVE  IInv'
<1> USE DEF IInv
<1>1. Unlocked /\ pc' = pc
  BY DEF PoolChange, Join, Leave
<1>2. UNCHANGED <<walkVars, pageVars, fullVars, losses>>
  BY DEF PoolChange, Join, Leave
<1>3. /\ pool' \in [Slots -> Device] /\ PoolInv' /\ Count <= Count' /\ Count' \in Nat
      /\ steady' \subseteq steady /\ (steady \subseteq Live => steady' \subseteq Live')
      /\ changes' \in Nat
  <2>1. CASE \E s \in Slots, ieee \in Ieees : Join(s, ieee)
    <3>1. PICK s \in Slots, ieee \in Ieees : Join(s, ieee)
      BY <2>1
    <3>2. /\ pool' \in [Slots -> Device] /\ PoolInv' /\ Live \subseteq Live' /\ Count <= Count'
      BY <3>1, JoinPool
    <3>3. steady' = steady /\ changes' \in Nat
      BY <3>1 DEF Join, TypeOK
    <3>4. Count' \in Nat
      BY <3>2 DEF PoolInv
    <3>5. QED BY <3>2, <3>3, <3>4
  <2>2. CASE \E s \in Slots : Leave(s)
    <3>1. PICK s \in Slots : Leave(s)
      BY <2>2
    <3>2. /\ pool' \in [Slots -> Device] /\ PoolInv' /\ Live \ {pool[s].ieee} \subseteq Live'
          /\ Count' = Count
      BY <3>1, LeavePool
    <3>3. steady' = steady \ {pool[s].ieee} /\ changes' \in Nat
      BY <3>1 DEF Leave, TypeOK
    <3>4. Count \in Nat
      BY DEF PoolInv
    <3>5. QED BY <3>2, <3>3, <3>4
  <2>3. QED BY <2>1, <2>2 DEF PoolChange
<1>4. TypeOK'
  BY <1>1, <1>2, <1>3 DEF TypeOK, walkVars, pageVars, fullVars
<1>5. OrderInv'
  BY <1>1, <1>2 DEF OrderInv, walkVars, pageVars
<1>6. SteadyInv'
  BY <1>1, <1>2, <1>3 DEF SteadyInv, walkVars, pageVars
<1>7. FitInv'
  <2>1. Count \in Nat /\ counted + Slack \in Nat
    BY PageAssumption DEF PoolInv, TypeOK
  <2>2. QED BY <1>1, <1>2, <1>3, <2>1 DEF FitInv, Unlocked, pageVars, fullVars
<1>8. FullInv'
  BY <1>1 DEF FullInv, Unlocked
<1>9. QED BY <1>3, <1>4, <1>5, <1>6, <1>7, <1>8

(***************************************************************************)
(* One page                                                                *)
(***************************************************************************)

\* Addresses, cursors and their order.
LEMMA Numbers ==
  ASSUME TypeOK
  PROVE  /\ Ieees \subseteq Nat /\ Cursors \subseteq Nat
         /\ cursor \in Nat /\ last \in Nat /\ steady \subseteq Nat /\ pos \in Nat
         /\ \A d \in Ieees : 0 < d
BY PageAssumption DEF TypeOK, Cursors

\* A walk starts behind every address.
LEMMA StartWalkStep == ASSUME IInv, StartWalk PROVE IInv'
<1> USE DEF IInv
<1>1. /\ pc' = "asked" /\ cursor' = 0 /\ got' = <<>> /\ steady' = Live
      /\ UNCHANGED <<pool, last, pos, page, more, cap, counted, slot, skipped, changes, losses>>
  BY DEF StartWalk, pageVars, fullVars
<1>2. PoolInv' /\ Live' = Live
  BY <1>1, SamePool
<1>3. Live \subseteq Ieees
  BY LiveSlot DEF Live
<1>4. TypeOK'
  BY <1>1, <1>3 DEF TypeOK, Cursors
<1>5. OrderInv'
  BY <1>1, EmptyElements DEF OrderInv
<1>6. SteadyInv'
  BY <1>1, <1>2, <1>3, Numbers DEF SteadyInv
<1>7. FitInv' /\ FullInv'
  BY <1>1 DEF FitInv, FullInv
<1>8. QED BY <1>2, <1>4, <1>5, <1>6, <1>7

\* The page starts where the cursor is.
LEMMA BeginPageStep == ASSUME IInv, BeginPage PROVE IInv'
<1> USE DEF IInv
<1>1. /\ pc = "asked" /\ pc' = "rows" /\ last' = cursor /\ pos' = HeadLen
      /\ page' = <<>> /\ more' = FALSE
      /\ UNCHANGED <<pool, cursor, got, steady, cap, counted, slot, skipped, changes, losses>>
  BY DEF BeginPage, walkVars, fullVars
<1>2. PoolInv' /\ Live' = Live
  BY <1>1, SamePool
<1>3. TypeOK'
  <2>1. HeadLen \in Nat /\ <<>> \in Seq(Ieees)
    BY PageAssumption
  <2>2. QED BY <1>1, <2>1 DEF TypeOK
<1>4. OrderInv'
  BY <1>1, EmptyElements, Numbers DEF OrderInv
<1>5. SteadyInv'
  BY <1>1, <1>2 DEF SteadyInv
<1>6. HeadLen + TailLen < Cap
  BY PageAssumption
<1>7. FitInv' /\ FullInv'
  BY <1>1, <1>6 DEF FitInv, FullInv
<1>8. QED BY <1>2, <1>3, <1>4, <1>5, <1>7

\* Every steady device up to the next row is listed or in that row.
LEMMA NextRowCovers ==
  ASSUME IInv, pc = "rows", NEW s \in Slots, IsNext(s, last)
  PROVE  /\ pool[s].ieee \in Ieees /\ last < pool[s].ieee
         /\ \A d \in steady : d <= pool[s].ieee =>
              d \in Elements(got) \cup Elements(page) \cup {pool[s].ieee}
<1> USE DEF IInv
<1>1. pool[s].live /\ last < pool[s].ieee
  <2>1. pool[s].live /\ pool[s].ieee > last
    BY DEF IsNext, Candidates, After
  <2>2. pool[s].ieee \in Nat /\ last \in Nat
    BY <2>1, LiveSlot, Numbers
  <2>3. QED BY <2>1, <2>2
<1>2. pool[s].ieee \in Ieees /\ pool[s].ieee \in Nat
  BY <1>1, LiveSlot
<1>3. ASSUME NEW d \in steady, d <= pool[s].ieee, ~(d <= last)
      PROVE  d = pool[s].ieee
  <2>1. d \in Live /\ d \in Nat /\ last \in Nat
    BY Numbers DEF SteadyInv
  <2>2. PICK q \in Slots : pool[q].live /\ pool[q].ieee = d
    BY <2>1 DEF Live
  <2>3. q \in Candidates(last)
    BY <1>3, <2>1, <2>2 DEF Candidates, After
  <2>4. pool[s].ieee <= d
    BY <2>2, <2>3 DEF IsNext
  <2>5. QED BY <1>2, <1>3, <2>1, <2>4
<1>4. QED BY <1>1, <1>2, <1>3 DEF SteadyInv

\* A row is added behind the last one.
LEMMA AddRowStep == ASSUME IInv, NEW s \in Slots, NEW n \in RowLens, AddRow(s, n) PROVE IInv'
<1> USE DEF IInv
<1>1. /\ pc = "rows" /\ IsNext(s, last) /\ Fits(pos, n)
      /\ page' = Append(page, pool[s].ieee) /\ pos' = pos + n /\ last' = pool[s].ieee
      /\ UNCHANGED <<pool, pc, cursor, got, more, steady, cap, counted, slot, skipped, changes, losses>>
  BY DEF AddRow, walkVars, fullVars
<1>2. PoolInv' /\ Live' = Live
  BY <1>1, SamePool
<1> DEFINE d == pool[s].ieee
<1>3. /\ d \in Ieees /\ last < d
      /\ \A e \in steady : e <= d => e \in Elements(got) \cup Elements(page) \cup {d}
  BY <1>1, NextRowCovers
<1> HIDE DEF d
<1>4. page' \in Seq(Ieees) /\ Elements(page') = Elements(page) \cup {d}
  BY <1>1, <1>3, AppendElements DEF TypeOK, d
<1>5. n \in Nat
  BY PageAssumption
<1>6. TypeOK'
  BY <1>1, <1>3, <1>4, <1>5 DEF TypeOK, d, Cursors
<1>7. OrderInv'
  <2>1. d \in Nat /\ last \in Nat /\ cursor \in Nat /\ Elements(page) \subseteq Nat
    BY <1>3, Numbers, ElementsType DEF TypeOK
  <2>2. /\ Increasing(page) /\ cursor <= last
        /\ \A e \in Elements(page) : cursor < e /\ e <= last
    BY <1>1 DEF OrderInv
  <2>3. \A e \in Elements(page) : e < d
    BY <1>3, <2>1, <2>2
  <2>4. Increasing(page')
    BY <1>1, <1>3, <2>2, <2>3, AppendIncreasing DEF TypeOK, d
  <2>5. cursor < d /\ \A e \in Elements(page) : e <= d
    BY <1>3, <2>1, <2>2, <2>3
  <2>6. last' = d
    BY <1>1 DEF d
  <2>7. QED BY <1>1, <1>4, <2>1, <2>2, <2>4, <2>5, <2>6 DEF OrderInv
<1>8. SteadyInv'
  <2>1. \A e \in steady : e <= last' => e \in Elements(got) \cup Elements(page')
    BY <1>1, <1>3, <1>4 DEF d
  <2>2. QED BY <1>1, <1>2, <2>1 DEF SteadyInv
<1>9. FitInv' /\ FullInv'
  BY <1>1 DEF FitInv, FullInv, Fits
<1>10. QED BY <1>2, <1>6, <1>7, <1>8, <1>9

\* A row that is left out is no longer asked for.
LEMMA SkipRowStep == ASSUME IInv, NEW s \in Slots, NEW n \in RowLens, SkipRow(s, n) PROVE IInv'
<1> USE DEF IInv
<1>1. /\ pc = "rows" /\ IsNext(s, last)
      /\ last' = pool[s].ieee /\ steady' = steady \ {pool[s].ieee}
      /\ UNCHANGED <<pool, pc, cursor, got, pos, page, more, cap, counted, slot, skipped, changes, losses>>
  BY DEF SkipRow, walkVars, fullVars
<1>2. PoolInv' /\ Live' = Live
  BY <1>1, SamePool
<1>3. /\ pool[s].ieee \in Ieees /\ last < pool[s].ieee
      /\ \A e \in steady : e <= pool[s].ieee =>
           e \in Elements(got) \cup Elements(page) \cup {pool[s].ieee}
  BY <1>1, NextRowCovers
<1>4. TypeOK'
  BY <1>1, <1>3 DEF TypeOK, Cursors
<1>5. OrderInv'
  <2>1. /\ last' \in Nat /\ last \in Nat /\ cursor \in Nat /\ last < last'
        /\ Elements(page) \subseteq Nat
    BY <1>1, <1>3, Numbers, ElementsType DEF TypeOK
  <2>2. QED BY <1>1, <2>1 DEF OrderInv
<1>6. SteadyInv'
  BY <1>1, <1>2, <1>3 DEF SteadyInv
<1>7. FitInv' /\ FullInv'
  BY <1>1 DEF FitInv, FullInv
<1>8. QED BY <1>2, <1>4, <1>5, <1>6, <1>7

\* A page ends, full or with no device left.
LEMMA EndPageStep ==
  ASSUME IInv, LastPage \/ \E s \in Slots, n \in RowLens : FullPage(s, n)
  PROVE  IInv'
<1> USE DEF IInv
<1>1. /\ pc = "rows" /\ pc' = "sent" /\ last' = last
      /\ UNCHANGED <<pool, cursor, got, pos, page, steady, cap, counted, slot, skipped, changes, losses>>
      /\ more' = TRUE \/ (more' = more /\ Candidates(last) = {})
  BY DEF LastPage, FullPage, CursorWhenFull, walkVars, pageVars, fullVars
<1>2. PoolInv' /\ Live' = Live
  BY <1>1, SamePool
<1>3. TypeOK'
  BY <1>1 DEF TypeOK
<1>4. OrderInv'
  BY <1>1 DEF OrderInv
<1>5. SteadyInv'
  <2>1. ASSUME NEW d \in steady, Candidates(last) = {}
        PROVE  d <= last
    <3>1. d \in Live /\ d \in Nat /\ last \in Nat
      BY <1>1, Numbers DEF SteadyInv
    <3>2. PICK q \in Slots : pool[q].live /\ pool[q].ieee = d
      BY <3>1 DEF Live
    <3>3. ~(d > last)
      BY <2>1, <3>2 DEF Candidates, After
    <3>4. QED BY <3>1, <3>3
  <2>2. QED BY <1>1, <1>2, <2>1 DEF SteadyInv
<1>6. FitInv' /\ FullInv'
  BY <1>1 DEF FitInv, FullInv
<1>7. QED BY <1>2, <1>3, <1>4, <1>5, <1>6

\* The page arrives, in order behind what has arrived.
LEMMA DeliverStep == ASSUME IInv, Deliver PROVE IInv'
<1> USE DEF IInv
<1>1. /\ pc = "sent" /\ got' = got \o page
      /\ \/ more /\ pc' = "asked" /\ cursor' = last
         \/ ~more /\ pc' = "done" /\ cursor' = cursor
      /\ UNCHANGED <<pool, last, pos, page, more, steady, cap, counted, slot, skipped, changes, losses>>
  BY DEF Deliver, TypeOK, pageVars, fullVars
<1>2. PoolInv' /\ Live' = Live
  BY <1>1, SamePool
<1>3. /\ got \in Seq(Ieees) /\ page \in Seq(Ieees)
      /\ got' \in Seq(Ieees) /\ Elements(got') = Elements(got) \cup Elements(page)
  BY <1>1, ConcatShape, ConcatElements DEF TypeOK
<1>4. TypeOK'
  BY <1>1, <1>3 DEF TypeOK
<1>5. OrderInv'
  <2>1. /\ Increasing(got) /\ Increasing(page) /\ cursor <= last
        /\ \A d \in Elements(got) : d <= cursor
        /\ \A d \in Elements(page) : cursor < d /\ d <= last
    BY <1>1 DEF OrderInv
  <2>2. cursor \in Nat /\ last \in Nat /\ Elements(got) \subseteq Nat
    BY <1>3, Numbers, ElementsType
  <2>3. Increasing(got')
    BY <1>1, <1>3, <2>1, <2>2, ConcatIncreasing
  <2>4. \A d \in Elements(got') : d <= last
    BY <1>3, <2>1, <2>2
  <2>5. QED BY <1>1, <2>3, <2>4 DEF OrderInv
<1>6. SteadyInv'
  BY <1>1, <1>2, <1>3 DEF SteadyInv
<1>7. FitInv' /\ FullInv'
  BY <1>1 DEF FitInv, FullInv
<1>8. QED BY <1>2, <1>4, <1>5, <1>6, <1>7

\* A lost page is asked for again; the result of a walk is used.
LEMMA LoseStep == ASSUME IInv, Lose PROVE IInv'
<1> USE DEF IInv
<1>1. /\ pc = "sent" /\ pc' = "asked" /\ losses' \in Nat
      /\ UNCHANGED <<pool, cursor, got, last, pos, page, more, steady, cap, counted, slot, skipped, changes>>
  BY DEF Lose, TypeOK, walkVars, pageVars, fullVars
<1>2. PoolInv' /\ Live' = Live
  BY <1>1, SamePool
<1>3. TypeOK'
  BY <1>1 DEF TypeOK
<1>4. OrderInv'
  BY <1>1 DEF OrderInv
<1>5. SteadyInv'
  <2>1. ASSUME NEW d \in steady, d <= cursor
        PROVE  d \in Elements(got)
    BY <1>1, <2>1 DEF SteadyInv
  <2>2. QED BY <1>1, <1>2, <2>1 DEF SteadyInv
<1>6. FitInv' /\ FullInv'
  BY <1>1 DEF FitInv, FullInv
<1>7. QED BY <1>2, <1>3, <1>4, <1>5, <1>6

LEMMA ForgetStep == ASSUME IInv, Forget PROVE IInv'
<1> USE DEF IInv
<1>1. /\ pc' = "idle" /\ cursor' = 0 /\ got' = <<>> /\ steady' = {}
      /\ last' = 0 /\ pos' = 0 /\ page' = <<>> /\ more' = FALSE
      /\ UNCHANGED <<pool, cap, counted, slot, skipped, changes, losses>>
  BY DEF Forget, fullVars
<1>2. PoolInv' /\ Live' = Live
  BY <1>1, SamePool
<1>3. TypeOK'
  <2>1. 0 \in Cursors /\ <<>> \in Seq(Ieees)
    BY DEF Cursors
  <2>2. QED BY <1>1, <2>1 DEF TypeOK
<1>4. OrderInv' /\ SteadyInv'
  BY <1>1, EmptyElements DEF OrderInv, SteadyInv
<1>5. FitInv' /\ FullInv'
  BY <1>1 DEF FitInv, FullInv
<1>6. QED BY <1>2, <1>3, <1>4, <1>5

(***************************************************************************)
(* The unpaged list                                                        *)
(***************************************************************************)

\* No step of the unpaged list touches what a walk has received.
LEMMA NoWalk ==
  ASSUME IInv, UNCHANGED <<cursor, got>>, pc' \in {"idle", "sized", "all_rows", "all_sent"}
  PROVE  OrderInv' /\ SteadyInv'
BY DEF IInv, OrderInv, SteadyInv

LEMMA BufferType ==
  ASSUME NEW n \in Nat
  PROVE  /\ BufferFor(n) \in Nat /\ (n + Slack) * RowCap \in Nat
         /\ BaseLen <= BufferFor(n)
<1>1. n + Slack \in Nat /\ RowCap \in Nat /\ BaseLen \in Nat
  BY PageAssumption
<1>2. (n + Slack) * RowCap \in Nat
  BY <1>1, NextProduct
<1>3. QED BY <1>1, <1>2 DEF BufferFor

LEMMA AllocateStep == ASSUME IInv, Allocate PROVE IInv'
<1> USE DEF IInv
<1>1. /\ pc' = "sized" /\ cap' = BufferFor(Count) /\ counted' = Count
      /\ UNCHANGED <<pool, cursor, got, last, pos, page, more, steady, slot, skipped, changes, losses>>
  BY DEF Allocate, walkVars, pageVars
<1>2. PoolInv' /\ Count \in 0..PoolSize
  BY <1>1, SamePool DEF PoolInv
<1>3. TypeOK'
  <2>1. Count \in Nat
    BY <1>2, PageAssumption
  <2>2. BufferFor(Count) \in Nat
    BY <2>1, BufferType
  <2>3. QED BY <1>1, <1>2, <2>2 DEF TypeOK
<1>4. OrderInv' /\ SteadyInv'
  BY <1>1, NoWalk
<1>5. FitInv' /\ FullInv'
  BY <1>1 DEF FitInv, FullInv, BufferFor
<1>6. QED BY <1>2, <1>3, <1>4, <1>5

LEMMA LockPoolStep == ASSUME IInv, LockPool PROVE IInv'
<1> USE DEF IInv
<1>1. /\ pc = "sized" /\ pc' = "all_rows"
      /\ pos' = HeadLen /\ page' = <<>> /\ more' = FALSE /\ slot' = 1 /\ skipped' = {}
      /\ UNCHANGED <<pool, cursor, got, last, steady, cap, counted, changes, losses>>
  BY DEF LockPool, walkVars
<1>2. PoolInv'
  BY <1>1, SamePool
<1>3. TypeOK'
  <2>1. HeadLen \in Nat /\ <<>> \in Seq(Ieees) /\ 1 \in 1..(PoolSize + 1)
    BY PageAssumption
  <2>2. QED BY <1>1, <2>1 DEF TypeOK
<1>4. OrderInv' /\ SteadyInv'
  BY <1>1, NoWalk
<1>5. FitInv'
  <2>1. cap = BufferFor(counted) /\ counted \in Nat
    BY <1>1, PageAssumption DEF FitInv, TypeOK
  <2>2. HeadLen + 2 <= cap
    BY <2>1, BufferType, PageAssumption
  <2>3. HeadLen <= HeadLen + (1 - 1) * RowCap
    BY PageAssumption
  <2>4. QED BY <1>1, <2>1, <2>2, <2>3 DEF FitInv, BufferFor
<1>6. FullInv'
  <2>1. LiveBelow(1) = {}
    BY DEF LiveBelow, Slots
  <2>2. LiveBelow(1)' = LiveBelow(1)
    BY <1>1 DEF LiveBelow
  <2>3. QED BY <1>1, <2>1, <2>2, EmptyElements DEF FullInv, LiveBelow
<1>7. QED BY <1>2, <1>3, <1>4, <1>5, <1>6

\* The next slot: a tombstone adds no address, a live device one that is new.
LEMMA BelowNext ==
  ASSUME TypeOK, PoolInv, slot \in Slots
  PROVE  /\ ~pool[slot].live => LiveBelow(slot + 1) = LiveBelow(slot)
         /\ pool[slot].live => /\ LiveBelow(slot + 1) = LiveBelow(slot) \cup {pool[slot].ieee}
                            /\ pool[slot].ieee \notin LiveBelow(slot)
<1>1. \A q \in Slots : q < slot + 1 <=> q < slot \/ q = slot
  BY DEF Slots
<1>2. {q \in Slots : q < slot + 1 /\ pool[q].live} =
      {q \in Slots : q < slot /\ pool[q].live} \cup (IF pool[slot].live THEN {slot} ELSE {})
  BY <1>1
<1>3. pool[slot].live => pool[slot].ieee \notin LiveBelow(slot)
  BY DEF LiveBelow, PoolInv, Slots
<1>4. QED BY <1>2, <1>3 DEF LiveBelow

\* One slot further.
LEMMA NextRowStep == ASSUME IInv, NEW n \in RowLens, NextRow(n) PROVE IInv'
<1> USE DEF IInv
<1>1. /\ pc = "all_rows" /\ slot <= Count
      /\ UNCHANGED <<pool, cursor, got, last, steady, cap, counted, changes, losses>>
  BY DEF NextRow, walkVars
<1>2. /\ n \in Nat /\ RowCap \in Nat /\ pos \in Nat /\ cap \in Nat /\ HeadLen \in Nat
      /\ Guard \in Nat /\ Guard >= 2 /\ BaseLen \in Nat /\ HeadLen + Guard <= BaseLen
  BY PageAssumption DEF TypeOK
<1>3. Count \in 0..PoolSize /\ PoolSize \in Nat /\ slot \in 1..(PoolSize + 1)
  BY PageAssumption DEF PoolInv, TypeOK
<1>4. slot \in Slots /\ slot \in Nat /\ slot - 1 \in Nat /\ slot + 1 \in 1..(PoolSize + 1)
  BY <1>1, <1>3 DEF Slots
<1>5. PoolInv' /\ Live' = Live /\ Count' = Count
  BY <1>1, SamePool
<1>6. /\ ~more /\ pos <= HeadLen + (slot - 1) * RowCap /\ pos + 2 <= cap
      /\ cap = BufferFor(counted) /\ counted \in Nat
  BY <1>1, PageAssumption DEF FitInv, TypeOK
<1>7. slot * RowCap = (slot - 1) * RowCap + RowCap /\ (slot - 1) * RowCap \in Nat
  <2>1. (slot - 1) + 1 = slot
    BY <1>4
  <2>2. ((slot - 1) + 1) * RowCap = (slot - 1) * RowCap + RowCap /\ (slot - 1) * RowCap \in Nat
    BY <1>2, <1>4, NextProduct
  <2>3. QED BY <2>1, <2>2
<1>8. /\ Elements(page) = LiveBelow(slot) \ skipped /\ skipped \subseteq LiveBelow(slot)
      /\ page \in Seq(Ieees) /\ skipped \subseteq Ieees
  BY <1>1 DEF FullInv, TypeOK
<1>9. pc' \in {"all_rows", "all_sent"}
  BY <1>1 DEF NextRow
<1>10. OrderInv' /\ SteadyInv'
  BY <1>1, <1>9, NoWalk
<1>11. slot' = slot + 1 => LiveBelow(slot)' = LiveBelow(slot + 1)
  BY <1>1 DEF LiveBelow
<1>12. (slot + 1) - 1 = slot /\ slot + 1 \in Nat
  BY <1>4
<1>13. CASE Removed(slot) /\ slot' = slot + 1 /\ UNCHANGED <<pos, page, more, skipped, pc>>
  <2>1. TypeOK'
    BY <1>1, <1>4, <1>13 DEF TypeOK
  <2>2. pos <= HeadLen + slot * RowCap
    BY <1>2, <1>6, <1>7
  <2>3. FitInv'
    BY <1>1, <1>6, <1>12, <1>13, <2>2 DEF FitInv
  <2>4. LiveBelow(slot)' = LiveBelow(slot)
    BY <1>4, <1>11, <1>13, BelowNext DEF Removed
  <2>5. FullInv'
    BY <1>8, <1>13, <2>4 DEF FullInv
  <2>6. QED BY <1>5, <1>10, <2>1, <2>3, <2>5
<1>14. CASE /\ ~Removed(slot) /\ slot' = slot + 1 /\ skipped' = skipped \cup {pool[slot].ieee}
            /\ UNCHANGED <<pos, page, more, pc>>
  <2>1. pool[slot].live /\ pool[slot].ieee \in Ieees
    BY <1>4, <1>14, LiveSlot DEF Removed
  <2>2. TypeOK'
    BY <1>1, <1>4, <1>14, <2>1 DEF TypeOK
  <2>3. pos <= HeadLen + slot * RowCap
    BY <1>2, <1>6, <1>7
  <2>4. FitInv'
    BY <1>1, <1>6, <1>12, <1>14, <2>3 DEF FitInv
  <2>5. /\ LiveBelow(slot)' = LiveBelow(slot) \cup {pool[slot].ieee}
        /\ pool[slot].ieee \notin LiveBelow(slot)
    BY <1>4, <1>11, <1>14, <2>1, BelowNext
  <2>6. FullInv'
    BY <1>8, <1>14, <2>5 DEF FullInv
  <2>7. QED BY <1>5, <1>10, <2>2, <2>4, <2>6
<1>15. CASE /\ ~Overlong(n) /\ NoRoom(pos, n) /\ more' = TRUE /\ pc' = "all_sent"
            /\ UNCHANGED <<slot, pos, page, skipped>>
  <2>1. TypeOK'
    BY <1>1, <1>15 DEF TypeOK
  <2>2. n < RowCap /\ pos + n + Guard >= cap
    BY <1>2, <1>15 DEF Overlong, NoRoom
  <2>3. counted + Slack \in Nat /\ (counted + Slack) * RowCap \in Nat
        /\ cap = BaseLen + (counted + Slack) * RowCap
    BY <1>6, BufferType, PageAssumption DEF BufferFor
  <2>4. (counted + Slack) * RowCap < slot * RowCap
    BY <1>2, <1>6, <1>7, <2>2, <2>3
  <2>5. ~(slot <= counted + Slack)
    <3>1. slot <= counted + Slack => slot * RowCap <= (counted + Slack) * RowCap
      BY <1>2, <1>4, <2>3, ProductGrows
    <3>2. slot * RowCap \in Int
      BY <1>2, <1>7
    <3>3. QED BY <2>3, <2>4, <3>1, <3>2
  <2>6. Count > counted + Slack
    BY <1>1, <1>3, <1>4, <2>3, <2>5
  <2>7. FitInv'
    BY <1>1, <1>5, <1>6, <1>15, <2>6 DEF FitInv
  <2>8. FullInv'
    BY <1>15 DEF FullInv
  <2>9. QED BY <1>5, <1>10, <2>1, <2>7, <2>8
<1>16. CASE /\ ~Removed(slot) /\ ~Overlong(n) /\ ~NoRoom(pos, n)
            /\ pos' = pos + n /\ page' = Append(page, pool[slot].ieee) /\ slot' = slot + 1
            /\ UNCHANGED <<skipped, more, pc>>
  <2>1. pool[slot].live /\ pool[slot].ieee \in Ieees
    BY <1>4, <1>16, LiveSlot DEF Removed
  <2>2. page' \in Seq(Ieees) /\ Elements(page') = Elements(page) \cup {pool[slot].ieee}
    BY <1>8, <1>16, <2>1, AppendElements
  <2>3. TypeOK'
    BY <1>1, <1>2, <1>4, <1>16, <2>2 DEF TypeOK
  <2>4. n < RowCap /\ pos + n + Guard < cap
    BY <1>2, <1>16 DEF Overlong, NoRoom
  <2>5. pos + n <= HeadLen + slot * RowCap /\ (pos + n) + 2 <= cap
    BY <1>2, <1>6, <1>7, <2>4
  <2>6. FitInv'
    BY <1>1, <1>6, <1>12, <1>16, <2>5 DEF FitInv
  <2>7. /\ LiveBelow(slot)' = LiveBelow(slot) \cup {pool[slot].ieee}
        /\ pool[slot].ieee \notin LiveBelow(slot)
    BY <1>4, <1>11, <1>16, <2>1, BelowNext
  <2>8. FullInv'
    BY <1>8, <1>16, <2>2, <2>7 DEF FullInv
  <2>9. QED BY <1>5, <1>10, <2>3, <2>6, <2>8
<1>17. QED BY <1>13, <1>14, <1>15, <1>16 DEF NextRow

LEMMA EndAllStep == ASSUME IInv, EndOfPool \/ SendAll PROVE IInv'
<1> USE DEF IInv
<1>1. UNCHANGED <<pool, cursor, got, last, steady, changes, losses>>
  BY DEF EndOfPool, SendAll, walkVars, pageVars
<1>2. PoolInv' /\ Count' = Count
  BY <1>1, SamePool
<1>3. CASE EndOfPool
  <2>1. /\ pc = "all_rows" /\ pc' = "all_sent"
        /\ UNCHANGED <<pos, page, more, cap, counted, slot, skipped>>
    BY <1>3 DEF EndOfPool, pageVars, fullVars
  <2>2. TypeOK'
    BY <1>1, <2>1 DEF TypeOK
  <2>3. OrderInv' /\ SteadyInv'
    BY <1>1, <2>1, NoWalk
  <2>4. FitInv' /\ FullInv'
    BY <1>2, <2>1 DEF FitInv, FullInv
  <2>5. QED BY <1>2, <2>2, <2>3, <2>4
<1>4. CASE SendAll
  <2>1. /\ pc' = "idle" /\ pos' = 0 /\ page' = <<>> /\ more' = FALSE
        /\ cap' = 0 /\ counted' = 0 /\ slot' = 1 /\ skipped' = {}
    BY <1>4 DEF SendAll
  <2>2. <<>> \in Seq(Ieees) /\ 0 \in 0..PoolSize /\ 1 \in 1..(PoolSize + 1)
    BY PageAssumption
  <2>3. TypeOK'
    BY <1>1, <2>1, <2>2 DEF TypeOK
  <2>4. OrderInv' /\ SteadyInv'
    BY <1>1, <2>1, NoWalk
  <2>5. FitInv' /\ FullInv'
    BY <2>1 DEF FitInv, FullInv
  <2>6. QED BY <1>2, <2>3, <2>4, <2>5
<1>5. QED BY <1>3, <1>4

(***************************************************************************)
(* The theorems                                                            *)
(***************************************************************************)

LEMMA IInit == Init => IInv
<1> SUFFICES ASSUME Init
             PROVE  IInv
  OBVIOUS
<1>1. /\ pool \in [Slots -> Device]
      /\ \A s \in Slots : /\ pool[s].live = (s \in Used)
                          /\ (s \in Used) = (s <= Count)
      /\ \A s, q \in Slots : pool[s].live /\ pool[s].ieee = pool[q].ieee => s = q
  BY DEF Init
<1>2. /\ pc = "idle" /\ cursor = 0 /\ last = 0 /\ pos = 0
      /\ page = <<>> /\ more = FALSE /\ got = <<>> /\ steady = {}
      /\ cap = 0 /\ counted = 0 /\ slot = 1 /\ skipped = {} /\ changes = 0 /\ losses = 0
  BY DEF Init
<1>3. Count \in 0..PoolSize
  BY <1>1, UsedFinite
<1>4. PoolInv
  BY <1>1, <1>3 DEF PoolInv
<1>5. /\ <<>> \in Seq(Ieees) /\ 0 \in 0..PoolSize /\ 1 \in 1..(PoolSize + 1)
      /\ 0 \in Cursors
  BY PageAssumption DEF Cursors
<1>6. TypeOK
  BY <1>1, <1>2, <1>5 DEF TypeOK
<1>7. OrderInv /\ SteadyInv /\ FitInv /\ FullInv
  BY <1>2, EmptyElements DEF OrderInv, SteadyInv, FitInv, FullInv
<1>8. QED BY <1>4, <1>6, <1>7 DEF IInv

LEMMA IStep == IInv /\ [Next]_vars => IInv'
<1> SUFFICES ASSUME IInv, [Next]_vars
             PROVE  IInv'
  OBVIOUS
<1>1. CASE PoolChange
  BY <1>1, PoolChangeStep
<1>2. CASE StartWalk \/ BeginPage \/ Deliver \/ Lose \/ Forget
  BY <1>2, StartWalkStep, BeginPageStep, DeliverStep, LoseStep, ForgetStep
<1>3. CASE BuildRow \/ LastPage
  BY <1>3, AddRowStep, SkipRowStep, EndPageStep DEF BuildRow
<1>4. CASE Allocate \/ LockPool \/ EndOfPool \/ SendAll
  BY <1>4, AllocateStep, LockPoolStep, EndAllStep
<1>5. CASE \E n \in RowLens : NextRow(n)
  BY <1>5, NextRowStep
<1>6. CASE UNCHANGED vars
  <2>1. UNCHANGED <<pool, pc, cursor, last, pos, page, more, got, steady, cap, counted,
                    slot, skipped, changes, losses>>
    BY <1>6 DEF vars
  <2>2. PoolInv' /\ Live' = Live /\ Count' = Count
    BY <2>1, SamePool DEF IInv
  <2>3. TypeOK'
    BY <2>1 DEF IInv, TypeOK
  <2>4. OrderInv' /\ SteadyInv'
    BY <2>1, <2>2 DEF IInv, OrderInv, SteadyInv
  <2>5. FitInv' /\ FullInv'
    BY <2>1, <2>2 DEF IInv, FitInv, FullInv, LiveBelow
  <2>6. QED BY <2>2, <2>3, <2>4, <2>5 DEF IInv
<1>7. QED BY <1>1, <1>2, <1>3, <1>4, <1>5, <1>6 DEF Next

\* Every reachable state satisfies the inductive invariant.
THEOREM ListInvariance == Spec => []IInv
BY IInit, IStep, PTL DEF Spec

\* Types, for a pool of any size (cmd_device_list_page, cmd_device_list).
THEOREM ListTyping == Spec => []TypeOK
<1>1. IInv => TypeOK
  BY DEF IInv
<1>2. QED BY <1>1, ListInvariance, PTL

\* No device twice, and the pages in IEEE order over the whole walk
\* (devlist_next, devlist_page.h).
THEOREM NoDeviceTwice == Spec => []EachDeviceOnce
<1>1. IInv => EachDeviceOnce
  BY DEF IInv, OrderInv, EachDeviceOnce
<1>2. QED BY <1>1, ListInvariance, PTL

\* What was live from the start to the end of a walk has arrived
\* (devlist_page.h:6-10).
THEOREM NobodySkipped == Spec => []NoLiveDeviceSkipped
<1>1. IInv => NoLiveDeviceSkipped
  BY DEF IInv, SteadyInv, NoLiveDeviceSkipped
<1>2. QED BY <1>1, ListInvariance, PTL

\* No reply outgrows its buffer (kTail and kCap; the slack of the unpaged list,
\* ws_bridge.cpp:484-485).
THEOREM EveryReplyFits == Spec => []ReplyFits
<1>1. IInv => ReplyFits
  BY DEF IInv, FitInv, ReplyFits
<1>2. QED BY <1>1, ListInvariance, PTL

\* The unpaged list is whole, or cut only after more joins than there are spare
\* rows (cmd_device_list).
THEOREM WholeListOrManyJoins == Spec => []FullListIsComplete
<1>1. ASSUME IInv, pc = "all_rows", slot > Count
      PROVE  Live = LiveBelow(slot)
  <2>1. Count \in Int /\ slot \in Int /\ Slots \subseteq Int
    BY <1>1, PageAssumption DEF IInv, PoolInv, TypeOK, Slots
  <2>2. \A s \in Slots : pool[s].live => s < slot
    BY <1>1, <2>1 DEF IInv, PoolInv
  <2>3. QED BY <2>2 DEF Live, LiveBelow
<1>2. IInv => FullListIsComplete
  BY <1>1 DEF IInv, FullInv, FitInv, FullListIsComplete
<1>3. QED BY <1>2, ListInvariance, PTL

(***************************************************************************)
(* Bytes                                                                   *)
(***************************************************************************)

Byte == 0..255

LEMMA ByteIsNat == Byte \subseteq Nat
  BY DEF Byte

LEMMA ByteAt ==
  ASSUME NEW s \in Seq(Byte \ {0}), NEW i \in Nat
  PROVE  /\ At(s, i) \in Byte
         /\ i < Len(s) => At(s, i) = s[i + 1]
         /\ At(s, i) # 0 <=> i < Len(s)
  <1>1. CASE i < Len(s)
    <2>1. s[i + 1] \in Byte \ {0}
      BY <1>1
    <2> QED
      BY <1>1, <2>1 DEF At
  <1>2. CASE ~(i < Len(s))
    BY <1>2 DEF At, Byte
  <1> QED
    BY <1>1, <1>2

LEMMA Seconds ==
  ASSUME NEW c \in Byte
  PROVE  SecondBytes(c) \subseteq Continuation
  BY DEF SecondBytes, Continuation

\* A length utf8_seq_len returns stays within the string, whatever the bound.
LEMMA SeqLenBound ==
  ASSUME NEW s \in Seq(Byte \ {0}), NEW i \in Nat, i < Len(s), NEW avail \in Int
  PROVE  /\ SeqLen(s, i, avail) \in 0..4
         /\ i + SeqLen(s, i, avail) <= Len(s)
  <1> DEFINE c == At(s, i)
             n == SeqNeed(c)
  <1>1. c \in Byte
    BY ByteAt
  <1>2. n \in 0..4
    BY <1>1 DEF SeqNeed, Byte
  <1>3. SeqLen(s, i, avail) \in {0, n}
    BY DEF SeqLen
  <1>4. SeqLen(s, i, avail) # 0 => i + n <= Len(s)
    <2> SUFFICES ASSUME SeqLen(s, i, avail) # 0, n > 1 PROVE i + n <= Len(s)
      BY <1>2
    <2>1. At(s, i + 1) \in SecondBytes(c) /\ \A k \in 2..n - 1 : At(s, i + k) \in Continuation
      BY DEF SeqLen
    <2>2. At(s, i + 1) # 0 /\ \A k \in 2..n - 1 : At(s, i + k) # 0
      <3> HIDE DEF c, n
      <3>1. SecondBytes(c) \subseteq Continuation
        BY <1>1, Seconds DEF Continuation
      <3>2. At(s, i + 1) \in Continuation /\ \A k \in 2..n - 1 : At(s, i + k) \in Continuation
        BY <2>1, <3>1, Zenon
      <3>3. \A d \in Continuation : d # 0
        BY DEF Continuation
      <3> QED
        BY <3>2, <3>3, Zenon
    <2>3. At(s, i + (n - 1)) # 0
      <3>1. CASE n = 2
        <4>1. i + (n - 1) = i + 1
          BY <3>1
        <4> QED
          BY <2>2, <4>1
      <3>2. CASE n > 2
        <4>1. n - 1 \in 2..n - 1
          BY <1>2, <3>2
        <4> QED
          BY <2>2, <4>1
      <3> QED
        BY <1>2, <3>1, <3>2
    <2>4. i + (n - 1) < Len(s)
      BY <1>2, <2>3, ByteAt
    <2> QED
      BY <1>2, <2>4
  <1> QED
    BY <1>2, <1>3, <1>4

(***************************************************************************)
(* utf8_seq_len and the definition of UTF-8                                *)
(***************************************************************************)

\* The j bytes of s from the (i + 1)-st on.
Bite(s, i, j) == SubSeq(s, i + 1, i + j)

LEMMA BiteIs ==
  ASSUME NEW s \in Seq(Byte \ {0}), NEW i \in Nat, NEW j \in Nat \ {0}, i + j <= Len(s)
  PROVE  /\ Bite(s, i, j) \in Seq(Byte \ {0}) /\ Len(Bite(s, i, j)) = j
         /\ \A k \in 1..j : Bite(s, i, j)[k] = At(s, i + k - 1)
  <1>1. \A k \in i + 1..i + j : s[k] \in Byte \ {0}
    OBVIOUS
  <1>2. /\ Bite(s, i, j) \in Seq(Byte \ {0}) /\ Len(Bite(s, i, j)) = j
        /\ \A k \in 1..j : Bite(s, i, j)[k] = s[i + k]
    <2>1. i + 1 \in Int /\ i + j \in Int /\ i + 1 <= i + j /\ (i + j) - (i + 1) + 1 = j
      OBVIOUS
    <2>2. /\ Bite(s, i, j) \in Seq(Byte \ {0}) /\ Len(Bite(s, i, j)) = (i + j) - (i + 1) + 1
          /\ \A k \in 1..(i + j) - (i + 1) + 1 : Bite(s, i, j)[k] = s[(i + 1) + k - 1]
      BY <1>1, <2>1, SubSeqProperties DEF Bite
    <2> QED
      BY <2>1, <2>2
  <1>3. \A k \in 1..j : At(s, i + k - 1) = s[i + k]
    BY DEF At
  <1> QED
    BY <1>2, <1>3

\* The table of main/json_buf.h is the definition of UTF-8, for every byte: no
\* overlong form, no surrogate, nothing past U+10FFFF.
LEMMA Table ==
  ASSUME NEW c \in Byte
  PROVE  /\ SeqNeed(c) = 1 <=> c < 128
         /\ SeqNeed(c) = 2 <=> 194 <= c /\ c <= 223
         /\ SeqNeed(c) = 3 <=> 224 <= c /\ c <= 239
         /\ SeqNeed(c) = 4 <=> 240 <= c /\ c <= 244
  BY SMT DEF SeqNeed, Byte

LEMMA SecondTable ==
  ASSUME NEW c \in Byte, NEW d \in Continuation
  PROVE  d \in SecondBytes(c) <=>
           /\ c = 224 => 160 <= d
           /\ c = 237 => d <= 159
           /\ c = 240 => 144 <= d
           /\ c = 244 => d <= 143
  BY SMT DEF SecondBytes, Continuation, Byte

\* The code points of each length, as the bits of their bytes.
LEMMA Inside ==
  ASSUME NEW v \in Int, NEW a \in Int, NEW b \in Int
  PROVE  v \in a..b <=> a <= v /\ v <= b
  OBVIOUS

LEMMA Scalars ==
  ASSUME NEW v \in Int
  PROVE  IsScalar(v) <=> v <= 1114111 /\ ~(55296 <= v /\ v <= 57343)
  <1> DEFINE S == 55296..57343
  <1> HIDE DEF S
  <1>1. v \in S <=> 55296 <= v /\ v <= 57343
    BY Inside DEF S
  <1>2. IsScalar(v) <=> v <= 1114111 /\ v \notin S
    BY DEF IsScalar, S
  <1> QED
    BY <1>1, <1>2

LEMMA Lengths ==
  ASSUME NEW v \in Int
  PROVE  /\ Shortest(v) = 1 <=> v < 128
         /\ Shortest(v) = 2 <=> 128 <= v /\ v < 2048
         /\ Shortest(v) = 3 <=> 2048 <= v /\ v < 65536
         /\ Shortest(v) = 4 <=> 65536 <= v
  BY SMT DEF Shortest

LEMMA Ranges ==
  ASSUME NEW v \in Int
  PROVE  /\ IsScalar(v) /\ Shortest(v) = 1 <=> v < 128
         /\ IsScalar(v) /\ Shortest(v) = 2 <=> 128 <= v /\ v < 2048
         /\ IsScalar(v) /\ Shortest(v) = 3 <=>
              2048 <= v /\ v < 65536 /\ ~(55296 <= v /\ v <= 57343)
         /\ IsScalar(v) /\ Shortest(v) = 4 <=> 65536 <= v /\ v <= 1114111
  BY Scalars, Lengths, SMT

LEMMA OneByteChar ==
  ASSUME NEW v \in 0..255
  PROVE  IsScalar(v) /\ Shortest(v) = 1 <=> v < 128
  BY Ranges

LEMMA CodePointOf ==
  ASSUME NEW b
  PROVE  /\ Len(b) = 1 => CodePoint(b) = b[1]
         /\ Len(b) = 2 => CodePoint(b) = (b[1] - 192) * 64 + (b[2] - 128)
         /\ Len(b) = 3 =>
              CodePoint(b) = ((b[1] - 224) * 64 + (b[2] - 128)) * 64 + (b[3] - 128)
         /\ Len(b) = 4 =>
              CodePoint(b) = (((b[1] - 240) * 64 + (b[2] - 128)) * 64 + (b[3] - 128)) * 64
                               + (b[4] - 128)
  BY SMT DEF CodePoint

LEMMA CharOfOne ==
  ASSUME NEW b, Len(b) = 1, b[1] \in Byte
  PROVE  IsChar(b) <=> SeqNeed(b[1]) = 1
  <1>0. PICK b1 \in Byte :
          b[1] = b1
    OBVIOUS
  <1> SUFFICES IsChar(b) <=> SeqNeed(b1) = 1
    BY <1>0
  <1>1. CodePoint(b) = b1
    BY <1>0, CodePointOf
  <1>2. IsChar(b) <=> IsScalar(b1) /\ Shortest(b1) = 1
    BY <1>1 DEF IsChar
  <1>3. IsScalar(b1) /\ Shortest(b1) = 1 <=> b1 < 128
    BY OneByteChar DEF Byte
  <1> QED
    BY <1>0, <1>2, <1>3, Table

LEMMA CharOfTwo ==
  ASSUME NEW b, Len(b) = 2, b[1] \in Byte, b[2] \in Byte
  PROVE  IsChar(b) <=> SeqNeed(b[1]) = 2 /\ b[2] \in SecondBytes(b[1])
  <1>0. PICK b1 \in Byte, b2 \in Byte :
          b[1] = b1 /\ b[2] = b2
    OBVIOUS
  <1> SUFFICES IsChar(b) <=> SeqNeed(b1) = 2 /\ b2 \in SecondBytes(b1)
    BY <1>0
  <1>1. CodePoint(b) = (b1 - 192) * 64 + (b2 - 128)
    BY <1>0, CodePointOf
  <1>2. IsChar(b) <=>
          b2 \in Continuation /\ IsScalar(CodePoint(b)) /\ Shortest(CodePoint(b)) = 2
    <2>1. (\A k \in 2..Len(b) : b[k] \in Continuation) <=> b2 \in Continuation
      BY <1>0
    <2>2. IsChar(b) <=>
            /\ \A k \in 2..Len(b) : b[k] \in Continuation
            /\ IsScalar(CodePoint(b)) /\ Shortest(CodePoint(b)) = Len(b)
      BY Zenon DEF IsChar
    <2> QED
      BY <2>1, <2>2
  <1>3. CASE b2 \in Continuation
    <2>1. b1 - 192 \in Int /\ b2 - 128 \in 0..63 /\ CodePoint(b) \in Int
      BY <1>1, <1>3 DEF Byte, Continuation
    <2>2. IsScalar(CodePoint(b)) /\ Shortest(CodePoint(b)) = 2 <=>
            2 <= b1 - 192 /\ b1 - 192 <= 31
      <3>1. PICK v \in Int : v = CodePoint(b)
        BY <2>1
      <3>2. PICK x \in Int, y \in 0..63 : x = b1 - 192 /\ y = b2 - 128
        BY <2>1
      <3>3. v = x * 64 + y
        BY <1>1, <3>1, <3>2
      <3>4. IsScalar(v) /\ Shortest(v) = 2 <=> 2 <= x /\ x <= 31
        <4>1. 128 <= v /\ v < 2048 <=>
                2 <= x /\ x <= 31
          BY <3>3, SMT
        <4> QED
          BY <4>1, Ranges
      <3> QED
        BY <3>1, <3>2, <3>4
    <2>3. SeqNeed(b1) = 2 <=> 2 <= b1 - 192 /\ b1 - 192 <= 31
      BY Table, SMT DEF Byte
    <2>4. SeqNeed(b1) = 2 => b2 \in SecondBytes(b1)
      BY <1>3, Table, SecondTable DEF Byte
    <2> QED
      BY <1>2, <1>3, <2>2, <2>3, <2>4
  <1>4. CASE b2 \notin Continuation
    <2>1. SecondBytes(b1) \subseteq Continuation
      BY Seconds DEF Continuation
    <2> QED
      BY <1>2, <1>4, <2>1
  <1> QED
    BY <1>0, <1>3, <1>4

LEMMA CharOfThree ==
  ASSUME NEW b, Len(b) = 3, b[1] \in Byte, b[2] \in Byte, b[3] \in Byte
  PROVE  IsChar(b) <=>
           /\ SeqNeed(b[1]) = 3 /\ b[2] \in SecondBytes(b[1])
           /\ b[3] \in Continuation
  <1>0. PICK b1 \in Byte, b2 \in Byte, b3 \in Byte :
          b[1] = b1 /\ b[2] = b2 /\ b[3] = b3
    OBVIOUS
  <1> SUFFICES IsChar(b) <=> SeqNeed(b1) = 3 /\ b2 \in SecondBytes(b1) /\ b3 \in Continuation
    BY <1>0
  <1>1. CodePoint(b) = ((b1 - 224) * 64 + (b2 - 128)) * 64 + (b3 - 128)
    BY <1>0, CodePointOf
  <1>2. IsChar(b) <=>
          /\ b2 \in Continuation /\ b3 \in Continuation
          /\ IsScalar(CodePoint(b)) /\ Shortest(CodePoint(b)) = 3
    <2>1. (\A k \in 2..Len(b) : b[k] \in Continuation) <=>
            b2 \in Continuation /\ b3 \in Continuation
      BY <1>0
    <2>2. IsChar(b) <=>
            /\ \A k \in 2..Len(b) : b[k] \in Continuation
            /\ IsScalar(CodePoint(b)) /\ Shortest(CodePoint(b)) = Len(b)
      BY Zenon DEF IsChar
    <2> QED
      BY <2>1, <2>2
  <1>3. CASE b2 \in Continuation /\ b3 \in Continuation
    <2>1. /\ b1 - 224 \in Int /\ b2 - 128 \in 0..63 /\ b3 - 128 \in 0..63
          /\ CodePoint(b) \in Int
      BY <1>1, <1>3 DEF Byte, Continuation
    <2>2. IsScalar(CodePoint(b)) /\ Shortest(CodePoint(b)) = 3 <=>
            /\ 0 <= b1 - 224 /\ b1 - 224 <= 15
            /\ b1 - 224 = 0 => 32 <= b2 - 128
            /\ b1 - 224 = 13 => b2 - 128 <= 31
      <3>1. PICK v \in Int : v = CodePoint(b)
        BY <2>1
      <3>2. PICK x \in Int, y \in 0..63, z \in 0..63 :
              x = b1 - 224 /\ y = b2 - 128 /\ z = b3 - 128
        BY <2>1
      <3>3. v = (x * 64 + y) * 64 + z
        BY <1>1, <3>1, <3>2
      <3>4. IsScalar(v) /\ Shortest(v) = 3 <=>
              0 <= x /\ x <= 15 /\ (x = 0 => 32 <= y) /\ (x = 13 => y <= 31)
        <4>1. 2048 <= v /\ v < 65536 /\ ~(55296 <= v /\ v <= 57343) <=>
                0 <= x /\ x <= 15 /\ (x = 0 => 32 <= y) /\ (x = 13 => y <= 31)
          BY <3>3, SMT
        <4> QED
          BY <4>1, Ranges
      <3> QED
        BY <3>1, <3>2, <3>4
    <2>3. SeqNeed(b1) = 3 /\ b2 \in SecondBytes(b1) <=>
            /\ 0 <= b1 - 224 /\ b1 - 224 <= 15
            /\ b1 - 224 = 0 => 32 <= b2 - 128
            /\ b1 - 224 = 13 => b2 - 128 <= 31
      <3>1. b1 \in Int /\ b2 \in Int
        BY <1>3 DEF Byte, Continuation
      <3>2. SeqNeed(b1) = 3 <=> 224 <= b1 /\ b1 <= 239
        BY Table
      <3>3. b2 \in SecondBytes(b1) <=>
              /\ b1 = 224 => 160 <= b2
              /\ b1 = 237 => b2 <= 159
              /\ b1 = 240 => 144 <= b2
              /\ b1 = 244 => b2 <= 143
        BY <1>3, SecondTable
      <3> QED
        BY <3>1, <3>2, <3>3
    <2> QED
      BY <1>2, <1>3, <2>2, <2>3
  <1>4. CASE ~(b2 \in Continuation /\ b3 \in Continuation)
    <2>1. SecondBytes(b1) \subseteq Continuation
      BY Seconds DEF Continuation
    <2> QED
      BY <1>2, <1>4, <2>1
  <1> QED
    BY <1>0, <1>3, <1>4

LEMMA CharOfFour ==
  ASSUME NEW b, Len(b) = 4, b[1] \in Byte, b[2] \in Byte, b[3] \in Byte, b[4] \in Byte
  PROVE  IsChar(b) <=>
           /\ SeqNeed(b[1]) = 4 /\ b[2] \in SecondBytes(b[1])
           /\ b[3] \in Continuation /\ b[4] \in Continuation
  <1>0. PICK b1 \in Byte, b2 \in Byte, b3 \in Byte, b4 \in Byte :
          b[1] = b1 /\ b[2] = b2 /\ b[3] = b3 /\ b[4] = b4
    OBVIOUS
  <1> SUFFICES IsChar(b) <=> /\ SeqNeed(b1) = 4 /\ b2 \in SecondBytes(b1)
                            /\ b3 \in Continuation /\ b4 \in Continuation
    BY <1>0
  <1>1. CodePoint(b) = (((b1 - 240) * 64 + (b2 - 128)) * 64 + (b3 - 128)) * 64 + (b4 - 128)
    BY <1>0, CodePointOf
  <1>2. IsChar(b) <=>
          /\ b2 \in Continuation /\ b3 \in Continuation /\ b4 \in Continuation
          /\ IsScalar(CodePoint(b)) /\ Shortest(CodePoint(b)) = 4
    <2>1. (\A k \in 2..Len(b) : b[k] \in Continuation) <=>
            b2 \in Continuation /\ b3 \in Continuation /\ b4 \in Continuation
      BY <1>0
    <2>2. IsChar(b) <=>
            /\ \A k \in 2..Len(b) : b[k] \in Continuation
            /\ IsScalar(CodePoint(b)) /\ Shortest(CodePoint(b)) = Len(b)
      BY Zenon DEF IsChar
    <2> QED
      BY <2>1, <2>2
  <1>3. CASE b2 \in Continuation /\ b3 \in Continuation /\ b4 \in Continuation
    <2>1. /\ b1 - 240 \in Int /\ b2 - 128 \in 0..63 /\ b3 - 128 \in 0..63
          /\ b4 - 128 \in 0..63 /\ CodePoint(b) \in Int
      BY <1>1, <1>3 DEF Byte, Continuation
    <2>2. IsScalar(CodePoint(b)) /\ Shortest(CodePoint(b)) = 4 <=>
            /\ 0 <= b1 - 240 /\ b1 - 240 <= 4
            /\ b1 - 240 = 0 => 16 <= b2 - 128
            /\ b1 - 240 = 4 => b2 - 128 <= 15
      <3>1. PICK v \in Int : v = CodePoint(b)
        BY <2>1
      <3>2. PICK x \in Int, y \in 0..63, z \in 0..63, w \in 0..63 :
              x = b1 - 240 /\ y = b2 - 128 /\ z = b3 - 128 /\ w = b4 - 128
        BY <2>1
      <3>3. v = ((x * 64 + y) * 64 + z) * 64 + w
        BY <1>1, <3>1, <3>2
      <3>4. IsScalar(v) /\ Shortest(v) = 4 <=>
              0 <= x /\ x <= 4 /\ (x = 0 => 16 <= y) /\ (x = 4 => y <= 15)
        <4>1. 65536 <= v /\ v <= 1114111 <=>
                0 <= x /\ x <= 4 /\ (x = 0 => 16 <= y) /\ (x = 4 => y <= 15)
          BY <3>3, SMT
        <4> QED
          BY <4>1, Ranges
      <3> QED
        BY <3>1, <3>2, <3>4
    <2>3. SeqNeed(b1) = 4 /\ b2 \in SecondBytes(b1) <=>
            /\ 0 <= b1 - 240 /\ b1 - 240 <= 4
            /\ b1 - 240 = 0 => 16 <= b2 - 128
            /\ b1 - 240 = 4 => b2 - 128 <= 15
      <3>1. b1 \in Int /\ b2 \in Int
        BY <1>3 DEF Byte, Continuation
      <3>2. SeqNeed(b1) = 4 <=> 240 <= b1 /\ b1 <= 244
        BY Table
      <3>3. b2 \in SecondBytes(b1) <=>
              /\ b1 = 224 => 160 <= b2
              /\ b1 = 237 => b2 <= 159
              /\ b1 = 240 => 144 <= b2
              /\ b1 = 244 => b2 <= 143
        BY <1>3, SecondTable
      <3> QED
        BY <3>1, <3>2, <3>3
    <2> QED
      BY <1>2, <1>3, <2>2, <2>3
  <1>4. CASE ~(b2 \in Continuation /\ b3 \in Continuation /\ b4 \in Continuation)
    <2>1. SecondBytes(b1) \subseteq Continuation
      BY Seconds DEF Continuation
    <2> QED
      BY <1>2, <1>4, <2>1
  <1> QED
    BY <1>0, <1>3, <1>4

\* utf8_seq_len finds a character exactly where there is one: the table of
\* json_buf.h accepts no overlong form, no surrogate and nothing past U+10FFFF,
\* and refuses nothing else.
THEOREM SeqLenIsUtf8 ==
  ASSUME NEW s \in Seq(Byte \ {0}), NEW i \in Nat, i < Len(s),
         NEW avail \in Int, NEW j \in 1..4
  PROVE  SeqLen(s, i, avail) = j <=>
           j <= avail /\ i + j <= Len(s) /\ IsChar(Bite(s, i, j))
  <1> DEFINE c == At(s, i)
             n == SeqNeed(c)
             Follows == /\ j > 1 => At(s, i + 1) \in SecondBytes(c)
                        /\ \A k \in 2..j - 1 : At(s, i + k) \in Continuation
  <1>1. c \in Byte /\ \A k \in Nat : At(s, i + k) \in Byte
    BY ByteAt
  <1>2. n \in 0..4
    BY <1>1 DEF SeqNeed, Byte
  <1>3. SeqLen(s, i, avail) = j <=> n = j /\ j <= avail /\ Follows
    <2> HIDE DEF c, n
    <2>1. SeqLen(s, i, avail) = IF /\ n <= avail
                                   /\ n > 1 => At(s, i + 1) \in SecondBytes(c)
                                   /\ \A k \in 2..n - 1 : At(s, i + k) \in Continuation
                                THEN n ELSE 0
      BY DEF SeqLen, n, c
    <2>2. CASE n = j
      BY <2>1, <2>2
    <2>3. CASE n # j
      BY <2>1, <2>3
    <2> QED
      BY <2>2, <2>3
  <1>4. SeqLen(s, i, avail) = j => i + j <= Len(s)
    BY SeqLenBound
  <1>5. ASSUME i + j <= Len(s) PROVE IsChar(Bite(s, i, j)) <=> n = j /\ Follows
    <2> DEFINE b == Bite(s, i, j)
    <2>1. Len(b) = j /\ \A k \in 1..j : b[k] = At(s, i + k - 1)
      BY <1>5, BiteIs
    <2>2. b[1] = c
      BY <2>1
    <2>3. \A k \in 2..j : b[k] = At(s, i + (k - 1)) /\ b[k] \in Byte
      BY <1>1, <2>1
    <2> HIDE DEF b, c, n
    <2>4. CASE j = 1
      <3>1. IsChar(b) <=> SeqNeed(c) = 1
        BY <1>1, <2>1, <2>2, <2>4, CharOfOne, Zenon
      <3> QED
        BY <3>1, <2>4 DEF n, b
    <2>5. CASE j = 2
      <3>1. b[2] = At(s, i + 1) /\ b[2] \in Byte
        BY <2>3, <2>5
      <3>2. IsChar(b) <=> SeqNeed(c) = 2 /\ b[2] \in SecondBytes(c)
        BY <1>1, <2>1, <2>2, <2>5, <3>1, CharOfTwo, Zenon
      <3> QED
        BY <3>1, <3>2, <2>5 DEF n, b
    <2>6. CASE j = 3
      <3>1. b[2] = At(s, i + 1) /\ b[2] \in Byte /\ b[3] = At(s, i + 2) /\ b[3] \in Byte
        BY <2>3, <2>6
      <3>2. IsChar(b) <=> SeqNeed(c) = 3 /\ b[2] \in SecondBytes(c) /\ b[3] \in Continuation
        BY <1>1, <2>1, <2>2, <2>6, <3>1, CharOfThree, Zenon
      <3> QED
        BY <3>1, <3>2, <2>6 DEF n, b
    <2>7. CASE j = 4
      <3>1. /\ b[2] = At(s, i + 1) /\ b[2] \in Byte /\ b[3] = At(s, i + 2) /\ b[3] \in Byte
            /\ b[4] = At(s, i + 3) /\ b[4] \in Byte
        BY <2>3, <2>7
      <3>2. IsChar(b) <=> /\ SeqNeed(c) = 4 /\ b[2] \in SecondBytes(c)
                          /\ b[3] \in Continuation /\ b[4] \in Continuation
        BY <1>1, <2>1, <2>2, <2>7, <3>1, CharOfFour, Zenon
      <3> QED
        BY <3>1, <3>2, <2>7 DEF n, b
    <2> QED
      BY <2>4, <2>5, <2>6, <2>7 DEF b
  <1> HIDE DEF Follows, n
  <1> QED
    BY <1>3, <1>4, <1>5
(***************************************************************************)
(* Typing                                                                  *)
(***************************************************************************)

LEMMA SourceBytes ==
  ASSUME NEW s \in Seq(Bytes)
  PROVE  s \in Seq(Byte \ {0})
  <1>1. Bytes \subseteq Byte \ {0}
    BY TextAssumption DEF Byte
  <1> QED
    BY <1>1, SeqMonotonic

LEMMA HexTyped ==
  ASSUME NEW d \in Int
  PROVE  Hex(d) \in Int
  BY DEF Hex

LEMMA UnicodeTyped ==
  ASSUME NEW cp \in Nat
  PROVE  UnicodeEscape(cp) \in Seq(Int) /\ Len(UnicodeEscape(cp)) = 6
  <1> DEFINE a == Hex(cp \div 4096)
             b == Hex((cp \div 256) % 16)
             c == Hex((cp \div 16) % 16)
             d == Hex(cp % 16)
  <1>1. a \in Int /\ b \in Int /\ c \in Int /\ d \in Int
    <2>1. /\ cp \div 4096 \in Int /\ (cp \div 256) % 16 \in Int
          /\ (cp \div 16) % 16 \in Int /\ cp % 16 \in Int
      OBVIOUS
    <2> QED
      BY <2>1, HexTyped
  <1>2. UnicodeEscape(cp) = <<Backslash, LowerU, a, b, c, d>>
    BY DEF UnicodeEscape
  <1>3. Backslash \in Int /\ LowerU \in Int
    BY DEF Backslash, LowerU
  <1> HIDE DEF a, b, c, d
  <1>4. <<Backslash, LowerU, a, b, c, d>> \in Seq(Int) /\ Len(<<Backslash, LowerU, a, b, c, d>>) = 6
    BY <1>1, <1>3
  <1> QED
    BY <1>2, <1>4

LEMMA EscapeTyped ==
  ASSUME NEW c \in Byte
  PROVE  /\ StrEscape(c) \in Seq(Int) /\ Len(StrEscape(c)) \in 1..6
         /\ BodyEscape(c) \in Seq(Int) /\ Len(BodyEscape(c)) \in 1..6
  <1> DEFINE Good(t) == t \in Seq(Int) /\ Len(t) \in 1..6
             self == <<Backslash, c>>
             lf == <<Backslash, 110>>
             cr == <<Backslash, 114>>
             tab == <<Backslash, 116>>
             hex == UnicodeEscape(c)
             raw == <<c>>
  <1>1. Backslash \in Int /\ Quote \in Int /\ c \in Int /\ c \in Nat
    BY DEF Backslash, Quote, Byte
  <1>2. Good(self) /\ Good(lf) /\ Good(cr) /\ Good(tab) /\ Good(raw)
    BY <1>1
  <1>3. Good(hex)
    BY <1>1, UnicodeTyped
  <1> HIDE DEF Good, self, lf, cr, tab, hex, raw
  <1>4. BodyEscape(c) \in {self, hex, raw}
    BY <1>1, SMT DEF BodyEscape, self, hex, raw
  <1>5. StrEscape(c) \in {self, lf, cr, tab, hex, raw}
    BY <1>1, SMT DEF StrEscape, Quote, Backslash, self, lf, cr, tab, hex, raw
  <1>6. Good(BodyEscape(c)) /\ Good(StrEscape(c))
    BY <1>2, <1>3, <1>4, <1>5, Zenon
  <1> QED
    BY <1>6 DEF Good

\* The piece json_escape takes exists: the NUL behind the string ends it at the latest.
LEMMA PieceEnds ==
  ASSUME NEW s \in Seq(Byte \ {0}), NEW i \in Nat, i < Len(s)
  PROVE  \E n \in 1..Len(s) - i :
           /\ \A k \in 1..n - 1 : At(s, i + k) \in Continuation
           /\ At(s, i + n) \notin Continuation
  <1> DEFINE T == {n \in Nat : n >= 1 /\ At(s, i + n) \notin Continuation}
  <1>1. Len(s) - i \in T
    <2>1. i + (Len(s) - i) = Len(s) /\ Len(s) - i \in Nat /\ Len(s) - i >= 1
      OBVIOUS
    <2>2. At(s, Len(s)) = 0
      BY DEF At
    <2> QED
      BY <2>1, <2>2 DEF Continuation
  <1>2. PICK n \in T : \A m \in T : ~(<<m, n>> \in OpToRel(<, Nat))
    <2>1. IsWellFoundedOn(OpToRel(<, Nat), Nat)
      BY NatLessThanWellFounded
    <2> HIDE DEF T
    <2>2. T \subseteq Nat /\ T # {}
      BY <1>1 DEF T
    <2> QED
      BY <2>1, <2>2, WFMin
  <1>3. \A m \in T : ~(m < n)
    BY <1>2 DEF OpToRel
  <1>4. n \in Nat /\ n >= 1 /\ At(s, i + n) \notin Continuation
    OBVIOUS
  <1>5. ASSUME NEW k \in 1..n - 1 PROVE At(s, i + k) \in Continuation
    <2>1. k \in Nat /\ k >= 1 /\ k < n
      BY <1>4
    <2> QED
      BY <1>3, <2>1
  <1>6. n \in 1..Len(s) - i
    BY <1>1, <1>3, <1>4
  <1> QED
    BY <1>4, <1>5, <1>6

LEMMA PieceLenIs ==
  ASSUME NEW s \in Seq(Byte \ {0}), NEW i \in Nat, i < Len(s)
  PROVE  /\ PieceLen(s, i) \in 1..Len(s) - i
         /\ At(s, i) \notin {Quote, Backslash} \cup 0..31 =>
              /\ \A k \in 1..PieceLen(s, i) - 1 : At(s, i + k) \in Continuation
              /\ At(s, i + PieceLen(s, i)) \notin Continuation
  <1>1. CASE At(s, i) \in {Quote, Backslash} \cup 0..31
    BY <1>1 DEF PieceLen
  <1>2. CASE At(s, i) \notin {Quote, Backslash} \cup 0..31
    <2>1. PieceLen(s, i) = CHOOSE n \in 1..Len(s) - i :
                             /\ \A k \in 1..n - 1 : At(s, i + k) \in Continuation
                             /\ At(s, i + n) \notin Continuation
      BY <1>2 DEF PieceLen
    <2> QED
      BY <2>1, PieceEnds, Zenon
  <1> QED
    BY <1>1, <1>2

LEMMA BiteTyped ==
  ASSUME NEW s \in Seq(Byte \ {0}), NEW i \in Nat, NEW j \in Nat, i + j <= Len(s)
  PROVE  SubSeq(s, i + 1, i + j) \in Seq(Int) /\ Len(SubSeq(s, i + 1, i + j)) = j
  <1>1. \A k \in i + 1..i + j : s[k] \in Int
    <2> SUFFICES ASSUME NEW k \in i + 1..i + j PROVE s[k] \in Int
      OBVIOUS
    <2>1. k \in 1..Len(s)
      OBVIOUS
    <2>2. s[k] \in Byte \ {0}
      BY <2>1, ElementOfSeq
    <2>3. s[k] \in Byte
      BY <2>2
    <2>4. s[k] \in Nat
      BY <2>3, ByteIsNat, Zenon
    <2> QED
      BY <2>4
  <1>2. PICK a \in Int, b \in Int : a = i + 1 /\ b = i + j
    OBVIOUS
  <1>3. SubSeq(s, a, b) \in Seq(Int) /\ Len(SubSeq(s, a, b)) = IF a <= b THEN b - a + 1 ELSE 0
    BY <1>1, <1>2, SubSeqProperties
  <1> QED
    BY <1>2, <1>3

LEMMA PieceTyped ==
  ASSUME NEW s \in Seq(Byte \ {0}), NEW i \in Nat, i < Len(s)
  PROVE  Piece(s, i) \in Seq(Int)
  <1> DEFINE c == At(s, i)
  <1>1. c \in Byte /\ c \in Nat
    <2>1. c \in Byte
      BY ByteAt
    <2> QED
      BY <2>1, ByteIsNat
  <1>2. PICK n \in 1..Len(s) - i : n = PieceLen(s, i)
    BY PieceLenIs
  <1>3. SubSeq(s, i + 1, i + PieceLen(s, i)) \in Seq(Int)
    <2>1. i + n <= Len(s) /\ n \in Nat
      OBVIOUS
    <2>2. SubSeq(s, i + 1, i + n) \in Seq(Int)
      BY <2>1, BiteTyped
    <2> QED
      BY <1>2, <2>2
  <1>4. UnicodeEscape(c) \in Seq(Int)
    BY <1>1, UnicodeTyped
  <1>5. <<Backslash, c>> \in Seq(Int)
    BY <1>1 DEF Backslash
  <1>6. Piece(s, i) \in {<<Backslash, c>>, UnicodeEscape(c), SubSeq(s, i + 1, i + PieceLen(s, i))}
    <2> HIDE DEF c
    <2> QED
      BY <1>1, SMT DEF Piece, c
  <1> QED
    BY <1>3, <1>4, <1>5, <1>6

LEMMA Grow ==
  ASSUME NEW o \in Seq(Int), NEW t \in Seq(Int)
  PROVE  o \o t \in Seq(Int) /\ Len(o \o t) = Len(o) + Len(t)
  BY ConcatProperties

\* What a turn of str() puts.
StrPiece(s, i, n) ==
  LET c == At(s, i)
  IN  CASE c < 128 -> StrEscape(c)
        [] c >= 128 /\ n > 0 -> SubSeq(s, i + 1, i + n)
        [] OTHER -> UnicodeEscape(Replaced)

LEMMA StrPieceTyped ==
  ASSUME NEW s \in Seq(Byte \ {0}), NEW i \in Nat, NEW n \in Nat, i + n <= Len(s)
  PROVE  StrPiece(s, i, n) \in Seq(Int)
  <1>1. At(s, i) \in Byte /\ At(s, i) \in Nat
    BY ByteAt, ByteIsNat
  <1>2. StrEscape(At(s, i)) \in Seq(Int)
    BY <1>1, EscapeTyped
  <1>3. SubSeq(s, i + 1, i + n) \in Seq(Int)
    BY BiteTyped
  <1>4. UnicodeEscape(Replaced) \in Seq(Int)
    BY UnicodeTyped, SMT DEF Replaced
  <1>5. StrPiece(s, i, n) \in
          {StrEscape(At(s, i)), SubSeq(s, i + 1, i + n), UnicodeEscape(Replaced)}
    BY <1>1, SMT DEF StrPiece
  <1> QED
    BY <1>2, <1>3, <1>4, <1>5

\* What put() leaves in the buffer.
LEMMA PutTyped ==
  ASSUME NEW o \in Seq(Int), NEW t \in Seq(Int), NEW room \in Nat
  PROVE  LET put == SubSeq(t, 1, IF Len(t) < room THEN Len(t) ELSE room)
         IN  o \o put \in Seq(Int) /\ Len(o \o put) <= Len(o) + room
  <1> DEFINE m == IF Len(t) < room THEN Len(t) ELSE room
  <1>1. m \in Nat /\ m <= room /\ m <= Len(t)
    OBVIOUS
  <1> HIDE DEF m
  <1>2. \A k \in 1..m : t[k] \in Int
    BY <1>1
  <1>3. SubSeq(t, 1, m) \in Seq(Int) /\ Len(SubSeq(t, 1, m)) = IF 1 <= m THEN m - 1 + 1 ELSE 0
    BY <1>1, <1>2, SubSeqProperties
  <1>4. Len(SubSeq(t, 1, m)) <= room
    BY <1>1, <1>3
  <1>5. o \o SubSeq(t, 1, m) \in Seq(Int) /\ Len(o \o SubSeq(t, 1, m)) <= Len(o) + room
    BY <1>3, <1>4, Grow
  <1> QED
    BY <1>5 DEF m

TextInv ==
  /\ TextTypeOK
  /\ out \in Seq(Int)
  /\ stage \in {"store", "open", "close"} => job = "group"
  /\ stage = "store" => read = 0

LEMMA TextInvInit == TextInit => TextInv
  <1> SUFFICES ASSUME TextInit PROVE TextInv
    OBVIOUS
  <1>1. PICK m \in 0..MaxLen : src \in [1..m -> Bytes]
    BY DEF TextInit, Sources, BoundedSeq, SeqOf
  <1>2. src \in Seq(Bytes) /\ Len(src) \in Nat
    BY <1>1, TextAssumption
  <1>3. out \in Seq(Int) /\ Len(out) = IF job = "log" THEN 1 ELSE 0
    BY DEF TextInit, Quote
  <1>4. size \in Nat \ {0}
    BY TextAssumption DEF TextInit
  <1>5. name = src /\ width \in NameSizes \cup {0}
    BY DEF TextInit
  <1> QED
    BY <1>2, <1>3, <1>4, <1>5 DEF TextInit, TextInv, TextTypeOK

LEMMA Sizes ==
  ASSUME TextInv
  PROVE  /\ src \in Seq(Byte \ {0}) /\ Len(src) \in Nat
         /\ size \in Nat /\ read \in Nat /\ Len(out) \in Nat /\ out \in Seq(Int)
         /\ Len(out) <= size /\ (job # "group" => Len(out) < size)
         /\ width \in Nat
  <1>1. src \in Seq(Byte \ {0})
    BY SourceBytes DEF TextInv, TextTypeOK
  <1>2. size \in Nat /\ width \in Nat
    BY TextAssumption DEF TextInv, TextTypeOK
  <1>3. out \in Seq(Int)
    BY DEF TextInv
  <1> QED
    BY <1>1, <1>2, <1>3 DEF TextInv, TextTypeOK

LEMMA TextInvStep == TextInv /\ [TextNext]_textVars => TextInv'
  <1> SUFFICES ASSUME TextInv, [TextNext]_textVars PROVE TextInv'
    OBVIOUS
  <1> USE DEF TextInv, TextTypeOK
  <1>0. /\ src \in Seq(Byte \ {0}) /\ Len(src) \in Nat
        /\ size \in Nat /\ read \in Nat /\ Len(out) \in Nat /\ out \in Seq(Int)
        /\ Len(out) <= size /\ (job # "group" => Len(out) < size) /\ width \in Nat
    BY Sizes
  <1>1. CASE StoreName
    <2> DEFINE m == IF Len(name) < width THEN Len(name) ELSE width - 1
    <2>1. /\ stage = "store" /\ stage' = "open" /\ src' = SubSeq(name, 1, m)
          /\ UNCHANGED <<job, name, width, size, read, out, ok>>
      BY <1>1 DEF StoreName, Kept, given
    <2>2. name \in Seq(Bytes) /\ Len(name) \in Nat
      OBVIOUS
    <2>3. m \in Int /\ m <= Len(name)
      BY <1>0, <2>2
    <2> HIDE DEF m
    <2>4. \A k \in 1..m : name[k] \in Bytes
      BY <2>2, <2>3
    <2>5. SubSeq(name, 1, m) \in Seq(Bytes)
      BY <2>2, <2>3, <2>4, SubSeqProperties
    <2>6. src' \in Seq(Bytes) /\ Len(src') \in Nat /\ read' = 0
      BY <2>1, <2>5
    <2> QED
      BY <1>0, <2>1, <2>6
  <1>3. CASE EscapeOne
    <2>1. /\ job = "device" /\ stage = "run" /\ read < Len(src)
          /\ HasRoom(Len(Piece(src, read)))
          /\ out' = out \o Piece(src, read) /\ read' = read + PieceLen(src, read)
          /\ UNCHANGED <<job, name, width, src, size, ok, stage>>
      BY <1>3 DEF EscapeOne, given
    <2>2. PICK n \in 1..Len(src) - read : n = PieceLen(src, read)
      BY <1>0, <2>1, PieceLenIs
    <2>3. PICK t \in Seq(Int) : t = Piece(src, read)
      BY <1>0, <2>1, PieceTyped
    <2>4. out' \in Seq(Int) /\ Len(out') = Len(out) + Len(t)
      BY <1>0, <2>1, <2>3, Grow
    <2>5. Len(out') < size
      BY <2>1, <2>3, <2>4 DEF HasRoom
    <2>6. read' = read + n
      BY <2>1, <2>2
    <2> QED
      BY <1>0, <2>1, <2>2, <2>4, <2>5, <2>6
  <1>4. CASE EscapeEnd
    BY <1>0, <1>4 DEF EscapeEnd, given
  <1>5. CASE Open
    <2>1. /\ stage = "open" /\ stage' = "run" /\ UNCHANGED <<job, name, width, src, size, read>>
          /\ IF Len(out) + 1 < size THEN out' = out \o <<Quote>> /\ ok' = ok
             ELSE ok' = FALSE /\ out' = out
      BY <1>5 DEF Open, given
    <2>2. <<Quote>> \in Seq(Int) /\ Len(<<Quote>>) = 1
      BY DEF Quote
    <2>3. out \o <<Quote>> \in Seq(Int) /\ Len(out \o <<Quote>>) = Len(out) + 1
      BY <1>0, <2>2, Grow
    <2>4. out' \in Seq(Int) /\ Len(out') <= size /\ ok' \in BOOLEAN
      <3>1. CASE Len(out) + 1 < size
        <4>1. out' = out \o <<Quote>> /\ ok' = ok
          BY <2>1, <3>1
        <4>2. out' \in Seq(Int) /\ Len(out') <= size
          BY <1>0, <2>3, <3>1, <4>1
        <4> QED
          BY <4>1, <4>2
      <3>2. CASE ~(Len(out) + 1 < size)
        BY <1>0, <2>1, <3>2
      <3> QED
        BY <3>1, <3>2
    <2> QED
      BY <1>0, <2>1, <2>4
  <1>6. CASE StrOne
    <2> DEFINE n == SeqLen(src, read, width - read)
    <2>1. /\ job = "group" /\ stage = "run" /\ read < Len(src)
          /\ PutAll(StrPiece(src, read, n))
          /\ read' = IF n > 0 THEN read + n ELSE read + 1
          /\ UNCHANGED <<job, name, width, src, size, stage>>
      BY <1>6 DEF StrOne, StrPiece, given
    <2>2. n \in Nat /\ read + n <= Len(src)
      <3>1. width - read \in Int
        BY <1>0
      <3>2. PICK a \in Int : a = width - read
        BY <3>1
      <3>3. SeqLen(src, read, a) \in 0..4 /\ read + SeqLen(src, read, a) <= Len(src)
        BY <1>0, <2>1, SeqLenBound
      <3> QED
        BY <3>2, <3>3
    <2> HIDE DEF n
    <2>3. PICK t \in Seq(Int) : t = StrPiece(src, read, n)
      BY <1>0, <2>2, StrPieceTyped
    <2>4. PICK room \in Nat : room = size - Len(out)
      <3>1. size - Len(out) \in Nat
        BY <1>0
      <3> QED
        BY <3>1
    <2>5. /\ out' = out \o SubSeq(t, 1, IF Len(t) < room THEN Len(t) ELSE room)
          /\ ok' \in BOOLEAN
      BY <2>1, <2>3, <2>4 DEF PutAll, Latched
    <2>6. out' \in Seq(Int) /\ Len(out') <= Len(out) + room
      BY <1>0, <2>5, PutTyped
    <2>7. Len(out') < size + 1
      BY <1>0, <2>4, <2>6
    <2>8. read' \in 0..Len(src)
      BY <1>0, <2>1, <2>2
    <2> QED
      BY <2>1, <2>5, <2>6, <2>7, <2>8
  <1>7. CASE StrEnd
    BY <1>0, <1>7 DEF StrEnd, given
  <1>8. CASE Close
    <2>1. /\ stage = "close" /\ stage' = "done" /\ UNCHANGED <<job, name, width, src, size, read>>
          /\ IF ok THEN PutAll(<<Quote>>) ELSE UNCHANGED <<out, ok>>
      BY <1>8 DEF Close, given
    <2>2. job = "group"
      BY <2>1
    <2>3. PICK room \in Nat : room = size - Len(out)
      <3>1. size - Len(out) \in Nat
        BY <1>0
      <3> QED
        BY <3>1
    <2>4. PICK t \in Seq(Int) : t = <<Quote>>
      <3>1. <<Quote>> \in Seq(Int)
        BY DEF Quote
      <3> QED
        BY <3>1
    <2>5. CASE ok
      <3>1. /\ out' = out \o SubSeq(t, 1, IF Len(t) < room THEN Len(t) ELSE room)
            /\ ok' \in BOOLEAN
        BY <2>1, <2>3, <2>4, <2>5 DEF PutAll, Latched
      <3>2. out' \in Seq(Int) /\ Len(out') <= Len(out) + room
        BY <1>0, <3>1, PutTyped
      <3> QED
        BY <1>0, <2>1, <2>2, <2>3, <3>1, <3>2
    <2>6. CASE ~ok
      BY <1>0, <2>1, <2>2, <2>6
    <2> QED
      BY <2>5, <2>6
  <1>9. CASE BodyOne
    <2>1. /\ job = "log" /\ stage = "run" /\ read < Len(src)
          /\ IF BodyFits THEN out' = out \o BodyEscape(At(src, read)) /\ ok' = ok
             ELSE ok' = FALSE /\ out' = out
          /\ read' = read + 1 /\ UNCHANGED <<job, name, width, src, size, stage>>
      BY <1>9 DEF BodyOne, given
    <2>2. At(src, read) \in Byte
      BY <1>0, ByteAt
    <2> DEFINE t == BodyEscape(At(src, read))
    <2> HIDE DEF t
    <2>3. t \in Seq(Int) /\ Len(t) <= 6 /\ Len(t) \in Nat
      <3>1. t \in Seq(Int) /\ Len(t) \in 1..6
        BY <2>2, EscapeTyped DEF t
      <3>2. PICK m \in 1..6 : m = Len(t)
        BY <3>1
      <3>3. m <= 6 /\ m \in Nat
        OBVIOUS
      <3> QED
        BY <3>1, <3>2, <3>3, Zenon
    <2>4. IF BodyFits THEN out' = out \o t /\ ok' = ok ELSE ok' = FALSE /\ out' = out
      BY <2>1 DEF t
    <2>5. out \o t \in Seq(Int) /\ Len(out \o t) = Len(out) + Len(t)
      BY <1>0, <2>3, Grow
    <2>6. out' \in Seq(Int) /\ Len(out') < size /\ ok' \in BOOLEAN
      <3>1. CASE BodyFits
        <4>1. out' \in Seq(Int) /\ Len(out') = Len(out) + Len(t) /\ ok' = ok
          BY <2>4, <2>5, <3>1
        <4>2. Len(out) + 6 < size
          BY <3>1 DEF BodyFits
        <4> QED
          BY <1>0, <2>3, <4>1, <4>2
      <3>2. CASE ~BodyFits
        BY <1>0, <2>1, <2>4, <3>2
      <3> QED
        BY <3>1, <3>2
    <2> QED
      BY <1>0, <2>1, <2>6
  <1>10. CASE BodyEnd
    <2>1. /\ job = "log" /\ stage = "run" /\ stage' = "done"
          /\ IF ok /\ Len(out) + 3 < size THEN out' = out \o <<Quote>> /\ ok' = ok
             ELSE ok' = FALSE /\ out' = out
          /\ UNCHANGED <<job, name, width, src, size, read>>
      BY <1>10 DEF BodyEnd, given
    <2>2. <<Quote>> \in Seq(Int) /\ Len(<<Quote>>) = 1
      BY DEF Quote
    <2>3. out \o <<Quote>> \in Seq(Int) /\ Len(out \o <<Quote>>) = Len(out) + 1
      BY <1>0, <2>2, Grow
    <2>4. CASE ok /\ Len(out) + 3 < size
      <3>1. out' = out \o <<Quote>> /\ ok' = ok
        BY <2>1, <2>4
      <3>2. out' \in Seq(Int) /\ Len(out') = Len(out) + 1
        BY <2>3, <3>1
      <3>3. Len(out') < size /\ Len(out') + 1 < size
        BY <1>0, <2>4, <3>2
      <3> QED
        BY <1>0, <2>1, <3>1, <3>2, <3>3
    <2>5. CASE ~(ok /\ Len(out) + 3 < size)
      BY <1>0, <2>1, <2>5
    <2> QED
      BY <2>4, <2>5
  <1>11. CASE UNCHANGED textVars
    BY <1>11 DEF textVars, given
  <1> QED
    BY <1>1, <1>3, <1>4, <1>5, <1>6, <1>7, <1>8, <1>9, <1>10, <1>11 DEF TextNext

\* Whatever the routine, the source and the size of the destination, nothing is
\* written past the destination.
THEOREM TextTyping == TextSpec => []TextTypeOK
  <1>1. TextInv => TextTypeOK
    BY DEF TextInv
  <1> QED
    BY <1>1, TextInvInit, TextInvStep, PTL DEF TextSpec
(***************************************************************************)
(* Characters of a string do not overlap                                   *)
(***************************************************************************)

\* A character on the bytes i + 1 to i + j of s.
CharAt(s, i, j) ==
  i \in Nat /\ j \in 1..4 /\ i + j <= Len(s) /\ IsChar(Bite(s, i, j))

LEMMA CharIsSeqLen ==
  ASSUME NEW s \in Seq(Byte \ {0}), NEW i, NEW j, CharAt(s, i, j)
  PROVE  i < Len(s) /\ SeqLen(s, i, 4) = j
  <1>1. i \in Nat /\ j \in 1..4 /\ i + j <= Len(s) /\ IsChar(Bite(s, i, j))
    BY DEF CharAt
  <1>2. i < Len(s) /\ j <= 4 /\ 4 \in Int
    BY <1>1
  <1> QED
    BY <1>1, <1>2, SeqLenIsUtf8

LEMMA CharBytes ==
  ASSUME NEW s \in Seq(Byte \ {0}), NEW i, NEW j, CharAt(s, i, j)
  PROVE  /\ At(s, i) \notin Continuation
         /\ \A k \in 1..j - 1 : At(s, i + k) \in Continuation
  <1>1. i \in Nat /\ j \in 1..4 /\ i + j <= Len(s) /\ IsChar(Bite(s, i, j))
    BY DEF CharAt
  <1>2. i < Len(s) /\ SeqLen(s, i, 4) = j
    BY CharIsSeqLen
  <1>3. At(s, i) \notin Continuation
    <2>1. SeqNeed(At(s, i)) = j
      <3>1. SeqLen(s, i, 4) \in {0, SeqNeed(At(s, i))}
        BY DEF SeqLen
      <3> QED
        BY <1>1, <1>2, <3>1
    <2>2. At(s, i) \in Byte
      BY <1>1, ByteAt
    <2>3. PICK c \in Byte : c = At(s, i)
      BY <2>2
    <2>4. SeqNeed(c) = 1 \/ SeqNeed(c) = 2 \/ SeqNeed(c) = 3 \/ SeqNeed(c) = 4
      BY <1>1, <2>1, <2>3
    <2>5. c < 128 \/ 194 <= c \/ 224 <= c \/ 240 <= c
      BY <2>4, Table
    <2>6. c \notin Continuation
      <3>1. c \in Int
        BY DEF Byte
      <3> QED
        BY <2>5, <3>1, SMT DEF Continuation
    <2> QED
      BY <2>3, <2>6
  <1>4. ASSUME NEW k \in 1..j - 1 PROVE At(s, i + k) \in Continuation
    <2>1. /\ Len(Bite(s, i, j)) = j
          /\ \A m \in 1..j : Bite(s, i, j)[m] = At(s, i + m - 1)
      BY <1>1, BiteIs
    <2>2. k + 1 \in 2..j /\ k + 1 \in 1..j /\ i + (k + 1) - 1 = i + k
      BY <1>1
    <2>3. Bite(s, i, j)[k + 1] \in Continuation
      BY <1>1, <2>1, <2>2 DEF IsChar
    <2> QED
      BY <2>1, <2>2, <2>3
  <1> QED
    BY <1>3, <1>4

LEMMA LeadInside ==
  ASSUME NEW s \in Seq(Byte \ {0}), NEW i, NEW j, NEW a, NEW m,
         CharAt(s, i, j), CharAt(s, a, m), i < a
  PROVE  i + j <= a
  <1>1. i \in Nat /\ j \in 1..4 /\ a \in Nat
    BY DEF CharAt
  <1> SUFFICES ASSUME a < i + j PROVE FALSE
    BY <1>1
  <1>2. PICK k \in 1..j - 1 : a = i + k
    <2>1. a - i \in 1..j - 1 /\ a = i + (a - i)
      BY <1>1
    <2> QED
      BY <2>1
  <1>3. At(s, a) \in Continuation
    BY <1>2, CharBytes
  <1>4. At(s, a) \notin Continuation
    BY CharBytes
  <1> QED
    BY <1>3, <1>4

\* Two characters that share a byte are one.
LEMMA CharsApart ==
  ASSUME NEW s \in Seq(Byte \ {0}), NEW i, NEW j, NEW a, NEW m, NEW k \in Nat,
         CharAt(s, i, j), CharAt(s, a, m),
         i < k, k <= i + j, a < k, k <= a + m
  PROVE  i = a /\ j = m
  <1>1. i \in Nat /\ j \in Nat /\ a \in Nat /\ m \in Nat
    BY DEF CharAt
  <1>2. ~(i < a)
    <2> SUFFICES ASSUME i < a PROVE FALSE
      OBVIOUS
    <2>1. i + j <= a
      BY LeadInside
    <2> QED
      BY <1>1, <2>1
  <1>3. ~(a < i)
    <2> SUFFICES ASSUME a < i PROVE FALSE
      OBVIOUS
    <2>1. a + m <= i
      BY LeadInside
    <2> QED
      BY <1>1, <2>1
  <1>4. i = a
    BY <1>1, <1>2, <1>3
  <1>5. SeqLen(s, i, 4) = j /\ SeqLen(s, a, 4) = m
    BY CharIsSeqLen
  <1> QED
    BY <1>4, <1>5

\* The first n bytes of s are whole characters.
Whole(s, n) ==
  \A k \in 1..n : \E i \in 0..n : \E j \in 1..4 :
    i < k /\ k <= i + j /\ i + j <= n /\ CharAt(s, i, j)

LEMMA TextIsWhole ==
  ASSUME NEW s \in Seq(Byte \ {0})
  PROVE  IsText(s) <=> Whole(s, Len(s))
  <1>0. Len(s) \in Nat
    OBVIOUS
  <1>1. ASSUME IsText(s) PROVE Whole(s, Len(s))
    <2> SUFFICES ASSUME NEW k \in 1..Len(s)
                 PROVE  \E i \in 0..Len(s) : \E j \in 1..4 :
                          i < k /\ k <= i + j /\ i + j <= Len(s) /\ CharAt(s, i, j)
      BY DEF Whole
    <2>1. PICK p \in k - 3..k : \E q \in k..p + 3 :
                 1 <= p /\ q <= Len(s) /\ IsChar(SubSeq(s, p, q))
      BY <1>1 DEF IsText
    <2>2. PICK q \in k..p + 3 : 1 <= p /\ q <= Len(s) /\ IsChar(SubSeq(s, p, q))
      BY <2>1
    <2> DEFINE i == p - 1
               j == q - p + 1
    <2>3. /\ i \in 0..Len(s) /\ j \in 1..4 /\ i \in Nat /\ i < k /\ k <= i + j
          /\ i + j <= Len(s) /\ i + 1 = p /\ i + j = q
      BY <1>0, <2>1, <2>2
    <2>4. CharAt(s, i, j)
      BY <2>2, <2>3 DEF CharAt, Bite
    <2> HIDE DEF i, j
    <2> QED
      BY <2>3, <2>4
  <1>2. ASSUME Whole(s, Len(s)) PROVE IsText(s)
    <2> SUFFICES ASSUME NEW k \in 1..Len(s)
                 PROVE  \E p \in k - 3..k : \E q \in k..p + 3 :
                          1 <= p /\ q <= Len(s) /\ IsChar(SubSeq(s, p, q))
      BY DEF IsText
    <2>1. PICK i \in 0..Len(s) : \E j \in 1..4 :
                 i < k /\ k <= i + j /\ i + j <= Len(s) /\ CharAt(s, i, j)
      BY <1>2 DEF Whole
    <2>2. PICK j \in 1..4 : i < k /\ k <= i + j /\ i + j <= Len(s) /\ CharAt(s, i, j)
      BY <2>1
    <2> DEFINE p == i + 1
               q == i + j
    <2>3. p \in k - 3..k /\ q \in k..p + 3 /\ 1 <= p /\ q <= Len(s)
      BY <1>0, <2>2
    <2>4. IsChar(SubSeq(s, p, q))
      BY <2>2 DEF CharAt, Bite
    <2> HIDE DEF p, q
    <2> QED
      BY <2>3, <2>4
  <1> QED
    BY <1>1, <1>2

\* What is whole in a start of s is whole in s.
LEMMA PrefixWhole ==
  ASSUME NEW s \in Seq(Byte \ {0}), NEW n \in 0..Len(s)
  PROVE  /\ SubSeq(s, 1, n) \in Seq(Byte \ {0}) /\ Len(SubSeq(s, 1, n)) = n
         /\ IsText(SubSeq(s, 1, n)) <=> Whole(s, n)
  <1> DEFINE p == SubSeq(s, 1, n)
  <1>1. p \in Seq(Byte \ {0}) /\ Len(p) = n
    <2>1. \A k \in 1..n : s[k] \in Byte \ {0}
      OBVIOUS
    <2>2. p \in Seq(Byte \ {0}) /\ Len(p) = IF 1 <= n THEN n - 1 + 1 ELSE 0
      BY <2>1, SubSeqProperties
    <2> QED
      BY <2>2
  <1> HIDE DEF p
  <1>2. ASSUME NEW i \in Nat, NEW j \in 1..4, i + j <= n
        PROVE  CharAt(p, i, j) <=> CharAt(s, i, j)
    <2>1. /\ n \in 1..Len(s) /\ 1 \in 1..Len(s)
          /\ i + 1 \in 1..n - 1 + 1 /\ i + j \in 1..n - 1 + 1
          /\ 1 + (i + 1) - 1 = i + 1 /\ 1 + (i + j) - 1 = i + j /\ i + j <= Len(s)
      BY <1>2
    <2>2. SubSeq(SubSeq(s, 1, n), i + 1, i + j) = SubSeq(s, 1 + (i + 1) - 1, 1 + (i + j) - 1)
      BY <2>1, SubSeqOfSubSeq
    <2>3. SubSeq(p, i + 1, i + j) = SubSeq(s, i + 1, i + j)
      BY <2>1, <2>2 DEF p
    <2> QED
      BY <1>1, <1>2, <2>1, <2>3 DEF CharAt, Bite
  <1>3. Whole(p, n) <=> Whole(s, n)
    <2>1. ASSUME NEW i \in 0..n, NEW j \in 1..4, NEW k \in 1..n
          PROVE  i < k /\ k <= i + j /\ i + j <= n /\ CharAt(p, i, j)
                   <=> i < k /\ k <= i + j /\ i + j <= n /\ CharAt(s, i, j)
      BY <1>2
    <2> QED
      BY <2>1, Zenon DEF Whole
  <1>4. IsText(p) <=> Whole(p, n)
    BY <1>1, TextIsWhole
  <1> QED
    BY <1>1, <1>3, <1>4 DEF p

LEMMA WholeGrows ==
  ASSUME NEW s \in Seq(Byte \ {0}), NEW n \in Nat, NEW j, Whole(s, n), CharAt(s, n, j)
  PROVE  Whole(s, n + j)
  <1>1. j \in 1..4
    BY DEF CharAt
  <1> SUFFICES ASSUME NEW k \in 1..n + j
               PROVE  \E i \in 0..n + j : \E m \in 1..4 :
                        i < k /\ k <= i + m /\ i + m <= n + j /\ CharAt(s, i, m)
    BY DEF Whole
  <1>2. CASE k <= n
    <2>1. PICK i \in 0..n : \E m \in 1..4 :
                 i < k /\ k <= i + m /\ i + m <= n /\ CharAt(s, i, m)
      <3>1. k \in 1..n
        BY <1>1, <1>2
      <3> QED
        BY <3>1 DEF Whole
    <2> QED
      BY <1>1, <2>1
  <1>3. CASE k > n
    BY <1>1, <1>3
  <1> QED
    BY <1>2, <1>3

\* Whole characters go on where they ended.
LEMMA WholeGoesOn ==
  ASSUME NEW s \in Seq(Byte \ {0}), NEW n \in Nat, NEW k \in Nat,
         n < k, k <= Len(s), Whole(s, n), Whole(s, k)
  PROVE  SeqLen(s, n, 4) \in 1..4 /\ n + SeqLen(s, n, 4) <= k
  <1>1. PICK i \in 0..k : \E j \in 1..4 :
               i < n + 1 /\ n + 1 <= i + j /\ i + j <= k /\ CharAt(s, i, j)
    <2>1. n + 1 \in 1..k
      OBVIOUS
    <2> QED
      BY <2>1 DEF Whole
  <1>2. PICK j \in 1..4 : i < n + 1 /\ n + 1 <= i + j /\ i + j <= k /\ CharAt(s, i, j)
    BY <1>1
  <1>3. i = n
    <2> SUFFICES ASSUME i < n PROVE FALSE
      BY <1>2
    <2>1. n \in 1..n
      BY <1>2
    <2>2. PICK a \in 0..n : \E m \in 1..4 :
                 a < n /\ n <= a + m /\ a + m <= n /\ CharAt(s, a, m)
      BY <2>1 DEF Whole
    <2>3. PICK m \in 1..4 : a < n /\ n <= a + m /\ a + m <= n /\ CharAt(s, a, m)
      BY <2>2
    <2>4. n <= i + j
      BY <1>2
    <2>5. i = a /\ j = m
      BY <1>2, <2>3, <2>4, CharsApart
    <2> QED
      BY <1>2, <2>3, <2>5
  <1>4. SeqLen(s, n, 4) = j
    BY <1>2, <1>3, CharIsSeqLen
  <1> QED
    BY <1>2, <1>3, <1>4

(***************************************************************************)
(* The name of a group in its field                                        *)
(***************************************************************************)

\* What comes before a character of a string of whole characters is whole.
LEMMA WholeBefore ==
  ASSUME NEW s \in Seq(Byte \ {0}), NEW n \in Nat, Whole(s, n),
         NEW i \in Nat, NEW j \in 1..4, CharAt(s, i, j), i + j <= n
  PROVE  Whole(s, i)
  <1> SUFFICES ASSUME NEW k \in 1..i
               PROVE  \E a \in 0..i : \E m \in 1..4 :
                        a < k /\ k <= a + m /\ a + m <= i /\ CharAt(s, a, m)
    BY DEF Whole
  <1>1. PICK a \in 0..n : \E m \in 1..4 :
               a < k /\ k <= a + m /\ a + m <= n /\ CharAt(s, a, m)
    <2>1. k \in 1..n
      OBVIOUS
    <2> QED
      BY <2>1 DEF Whole
  <1>2. PICK m \in 1..4 : a < k /\ k <= a + m /\ a + m <= n /\ CharAt(s, a, m)
    BY <1>1
  <1>3. a + m <= i
    <2> SUFFICES ASSUME i < a + m PROVE FALSE
      BY <1>2
    <2>1. i = a
      <3>1. PICK b \in Nat : b = i + 1
        OBVIOUS
      <3>2. a < b /\ b <= a + m /\ i < b /\ b <= i + j /\ a \in Nat
        BY <1>2, <3>1
      <3> QED
        BY <1>2, <3>2, CharsApart
    <2> QED
      BY <1>2, <2>1
  <1> QED
    BY <1>2, <1>3

\* A string of whole characters, cut anywhere, has at most three bytes after the
\* last whole character before the cut.
LEMMA CutLeavesThree ==
  ASSUME NEW s \in Seq(Byte \ {0}), IsText(s), NEW n \in 0..Len(s)
  PROVE  \E k \in 0..3 : k <= n /\ IsText(SubSeq(s, 1, n - k))
  <1>1. Whole(s, Len(s))
    BY TextIsWhole
  <1>2. CASE n = 0
    <2>1. Whole(s, 0)
      BY DEF Whole
    <2>2. 0 \in 0..Len(s)
      OBVIOUS
    <2>3. IsText(SubSeq(s, 1, 0))
      BY <2>1, <2>2, PrefixWhole
    <2> QED
      BY <1>2, <2>3
  <1>3. CASE n > 0
    <2>1. PICK i \in 0..Len(s) : \E j \in 1..4 :
                 i < n /\ n <= i + j /\ i + j <= Len(s) /\ CharAt(s, i, j)
      <3>1. n \in 1..Len(s)
        BY <1>3
      <3> QED
        BY <1>1, <3>1 DEF Whole
    <2>2. PICK j \in 1..4 : i < n /\ n <= i + j /\ i + j <= Len(s) /\ CharAt(s, i, j)
      BY <2>1
    <2>3. Whole(s, i)
      <3>1. i \in Nat /\ Len(s) \in Nat
        OBVIOUS
      <3> QED
        BY <1>1, <2>2, <3>1, WholeBefore
    <2>4. CASE n = i + j
      <3>1. Whole(s, n)
        <4>1. i \in Nat
          OBVIOUS
        <4> QED
          BY <2>2, <2>3, <2>4, <4>1, WholeGrows
      <3>2. IsText(SubSeq(s, 1, n))
        BY <3>1, PrefixWhole
      <3>3. n - 0 = n
        OBVIOUS
      <3> QED
        BY <3>2, <3>3
    <2>5. CASE n < i + j
      <3>1. IsText(SubSeq(s, 1, i))
        BY <2>3, PrefixWhole
      <3>2. n - i \in 0..3 /\ n - i <= n /\ n - (n - i) = i
        BY <2>2, <2>5
      <3> QED
        BY <3>1, <3>2
    <2> QED
      BY <2>2, <2>4, <2>5
  <1> QED
    BY <1>2, <1>3

\* What the field holds of the name.
NameInv ==
  /\ name \in Seq(Byte \ {0})
  /\ job = "group" => width \in Nat \ {0}
  /\ job = "group" /\ stage # "store" => src = Kept(name, width)

LEMMA NameInit == TextInit => NameInv
  <1> SUFFICES ASSUME TextInit PROVE NameInv
    OBVIOUS
  <1>1. TextInv /\ src = name
    BY TextInvInit DEF TextInit
  <1>2. name \in Seq(Byte \ {0})
    BY <1>1, Sizes
  <1>3. job = "group" => width \in Nat \ {0} /\ stage = "store"
    BY TextAssumption DEF TextInit
  <1> QED
    BY <1>2, <1>3 DEF NameInv

LEMMA NameStep == TextInv /\ NameInv /\ [TextNext]_textVars => NameInv'
  <1> SUFFICES ASSUME TextInv, NameInv, [TextNext]_textVars PROVE NameInv'
    OBVIOUS
  <1>1. job' = job /\ name' = name /\ width' = width
    BY DEF TextNext, EscapeOne, EscapeEnd, StoreName, Open, StrOne, StrEnd, Close,
           BodyOne, BodyEnd, textVars, given
  <1>2. CASE StoreName
    BY <1>1, <1>2 DEF StoreName, NameInv, Kept
  <1>3. CASE ~StoreName
    <2>1. src' = src /\ (stage' # "store" => stage # "store")
      BY <1>3 DEF TextNext, EscapeOne, EscapeEnd, Open, StrOne, StrEnd, Close,
                  BodyOne, BodyEnd, textVars, given
    <2> QED
      BY <1>1, <2>1 DEF NameInv, Kept
  <1> QED
    BY <1>2, <1>3

\* A stored name is a start of the name that was given, the whole of it when it fits
\* the field with its NUL, and what strncpy cut is one character at most.
OneCharacterCut ==
  job = "group" /\ stage # "store" /\ IsText(name) =>
    /\ src = SubSeq(name, 1, Len(src))
    /\ Len(name) < width => src = name
    /\ \E k \in 0..3 : k <= Len(src) /\ IsText(SubSeq(name, 1, Len(src) - k))

\* Whatever the name and the size of its field, the part of CutNameShown about the
\* field: at most three bytes of the stored name belong to no character.  That the
\* row shows one U+FFFD for each of them is left to the run.
THEOREM CutSpoilsOneCharacter == TextSpec => []OneCharacterCut
  <1>1. NameInv => OneCharacterCut
    <2> SUFFICES ASSUME NameInv, job = "group", stage # "store", IsText(name)
                 PROVE  /\ src = SubSeq(name, 1, Len(src))
                        /\ Len(name) < width => src = name
                        /\ \E k \in 0..3 : k <= Len(src) /\ IsText(SubSeq(name, 1, Len(src) - k))
      BY DEF OneCharacterCut
    <2> DEFINE n == IF Len(name) < width THEN Len(name) ELSE width - 1
    <2>1. name \in Seq(Byte \ {0}) /\ width \in Nat \ {0} /\ src = SubSeq(name, 1, n)
      BY DEF NameInv, Kept
    <2>2. n \in 0..Len(name) /\ (Len(name) < width => n = Len(name))
      BY <2>1
    <2> HIDE DEF n
    <2>3. Len(src) = n
      BY <2>1, <2>2, PrefixWhole
    <2>4. Len(name) < width => src = name
      <3>1. SubSeq(name, 1, Len(name)) = name
        BY <2>1, SubSeqFull
      <3> QED
        BY <2>1, <2>2, <3>1
    <2>5. \E k \in 0..3 : k <= n /\ IsText(SubSeq(name, 1, n - k))
      BY <2>1, <2>2, CutLeavesThree
    <2> QED
      BY <2>1, <2>3, <2>4, <2>5
  <1> QED
    BY <1>1, TextInvInit, TextInvStep, NameInit, NameStep, PTL DEF TextSpec

(***************************************************************************)
(* The rows of the cloud and of the browser                                *)
(***************************************************************************)

Ascii == 32..127
Shown == 32..255                       \* what a JSON parser takes between two quotes

LEMMA ShownBytes ==
  /\ Ascii \subseteq Shown /\ Shown \subseteq Byte \ {0} /\ Shown \subseteq Int
  /\ Ascii \subseteq Byte \ {0}
  /\ Quote \in Ascii /\ Backslash \in Ascii /\ Continuation \subseteq Shown
  BY SMT DEF Ascii, Shown, Byte, Quote, Backslash, Continuation

LEMMA AsciiIsText ==
  ASSUME NEW t \in Seq(Ascii)
  PROVE  t \in Seq(Shown) /\ t \in Seq(Byte \ {0}) /\ IsText(t)
  <1>1. t \in Seq(Shown) /\ t \in Seq(Byte \ {0})
    BY ShownBytes, SeqMonotonic
  <1>2. Whole(t, Len(t))
    <2> SUFFICES ASSUME NEW k \in 1..Len(t)
                 PROVE  \E i \in 0..Len(t) : \E j \in 1..4 :
                          i < k /\ k <= i + j /\ i + j <= Len(t) /\ CharAt(t, i, j)
      BY DEF Whole
    <2> DEFINE i == k - 1
    <2>1. i \in 0..Len(t) /\ i \in Nat /\ i < k /\ k <= i + 1 /\ i + 1 <= Len(t) /\ i + 1 = k
      OBVIOUS
    <2> HIDE DEF i
    <2>2. Len(Bite(t, i, 1)) = 1 /\ Bite(t, i, 1)[1] = At(t, i)
      <3>1. 1 \in Nat \ {0} /\ 1 \in 1..1 /\ i + 1 - 1 = i
        BY <2>1
      <3>2. Len(Bite(t, i, 1)) = 1 /\ \A m \in 1..1 : Bite(t, i, 1)[m] = At(t, i + m - 1)
        BY <1>1, <2>1, <3>1, BiteIs
      <3>3. Bite(t, i, 1)[1] = At(t, i + 1 - 1)
        BY <3>1, <3>2
      <3> QED
        BY <3>1, <3>2, <3>3
    <2>3. At(t, i) = t[k]
      BY <2>1 DEF At
    <2>4. PICK c \in Byte : c = At(t, i) /\ c < 128
      <3>1. t[k] \in Ascii
        BY ElementOfSeq
      <3>2. PICK a \in Ascii : a = t[k]
        BY <3>1
      <3>3. a \in Byte /\ a < 128
        BY SMT DEF Ascii, Byte
      <3> QED
        BY <2>3, <3>2, <3>3
    <2>5. IsChar(Bite(t, i, 1))
      <3>1. SeqNeed(c) = 1
        BY <2>4, Table
      <3> QED
        BY <2>2, <2>4, <3>1, CharOfOne
    <2>6. CharAt(t, i, 1)
      BY <2>1, <2>5 DEF CharAt
    <2> QED
      BY <2>1, <2>6
  <1> QED
    BY <1>1, <1>2, TextIsWhole

LEMMA CharIsText ==
  ASSUME NEW s \in Seq(Byte \ {0}), NEW i, NEW j, CharAt(s, i, j)
  PROVE  Bite(s, i, j) \in Seq(Byte \ {0}) /\ Len(Bite(s, i, j)) = j /\ IsText(Bite(s, i, j))
  <1> DEFINE b == Bite(s, i, j)
  <1> HIDE DEF b
  <1>1. i \in Nat /\ j \in 1..4 /\ i + j <= Len(s) /\ IsChar(b)
    BY DEF CharAt, b
  <1>2. b \in Seq(Byte \ {0}) /\ Len(b) = j
    BY <1>1, BiteIs DEF b
  <1>3. CharAt(b, 0, j)
    <2>1. SubSeq(b, 1, j) = b
      BY <1>2, SubSeqFull
    <2>2. Bite(b, 0, j) = b
      BY <1>1, <2>1 DEF Bite
    <2> QED
      BY <1>1, <1>2, <2>2 DEF CharAt
  <1>4. Whole(b, 0)
    BY DEF Whole
  <1>5. Whole(b, 0 + j)
    BY <1>2, <1>3, <1>4, WholeGrows
  <1>6. 0 + j = Len(b)
    BY <1>1, <1>2
  <1>7. IsText(b)
    BY <1>2, <1>5, <1>6, TextIsWhole
  <1> QED
    BY <1>2, <1>7 DEF b

LEMMA TextConcat ==
  ASSUME NEW o \in Seq(Byte \ {0}), NEW t \in Seq(Byte \ {0}), IsText(o), IsText(t)
  PROVE  IsText(o \o t)
  <1> DEFINE s == o \o t
  <1>1. /\ s \in Seq(Byte \ {0}) /\ Len(s) = Len(o) + Len(t)
        /\ Len(o) \in Nat /\ Len(t) \in Nat
    BY ConcatProperties
  <1> HIDE DEF s
  <1>2. ASSUME NEW i, NEW j, CharAt(o, i, j) PROVE CharAt(s, i, j)
    <2>1. i \in Nat /\ j \in 1..4 /\ i + j <= Len(o) /\ IsChar(SubSeq(o, i + 1, i + j))
      BY <1>2 DEF CharAt, Bite
    <2>2. i + 1 \in 1..Len(o) /\ i + j \in 1..Len(o)
      BY <1>1, <2>1
    <2>3. SubSeq(s, i + 1, i + j) = SubSeq(o, i + 1, i + j)
      BY <2>2, SubSeqOfConcat1 DEF s
    <2>4. IsChar(Bite(s, i, j))
      BY <2>1, <2>3 DEF Bite
    <2>5. i + j <= Len(s)
      BY <1>1, <2>1
    <2> QED
      BY <2>1, <2>4, <2>5 DEF CharAt
  <1>3. ASSUME NEW i, NEW j, CharAt(t, i, j) PROVE CharAt(s, Len(o) + i, j)
    <2>1. i \in Nat /\ j \in 1..4 /\ i + j <= Len(t) /\ IsChar(SubSeq(t, i + 1, i + j))
      BY <1>3 DEF CharAt, Bite
    <2>2. PICK p \in Nat, q \in Nat : p = (Len(o) + i) + 1 /\ q = (Len(o) + i) + j
      <3>1. (Len(o) + i) + 1 \in Nat /\ (Len(o) + i) + j \in Nat
        BY <1>1, <2>1
      <3> QED
        BY <3>1
    <2>3. /\ p \in Len(o) + 1..Len(o) + Len(t) /\ q \in Len(o) + 1..Len(o) + Len(t)
          /\ p - Len(o) = i + 1 /\ q - Len(o) = i + j
      BY <1>1, <2>1, <2>2
    <2>4. SubSeq(o \o t, p, q) = SubSeq(t, p - Len(o), q - Len(o))
      BY <2>3, SubSeqOfConcat2
    <2>5. SubSeq(s, (Len(o) + i) + 1, (Len(o) + i) + j) = SubSeq(t, i + 1, i + j)
      BY <2>2, <2>3, <2>4 DEF s
    <2>6. IsChar(Bite(s, Len(o) + i, j))
      BY <2>1, <2>5 DEF Bite
    <2>7. Len(o) + i \in Nat /\ (Len(o) + i) + j <= Len(s)
      BY <1>1, <2>1
    <2> QED
      BY <2>1, <2>6, <2>7 DEF CharAt
  <1>4. Whole(o, Len(o)) /\ Whole(t, Len(t))
    BY TextIsWhole
  <1>5. Whole(s, Len(s))
    <2> SUFFICES ASSUME NEW k \in 1..Len(s)
                 PROVE  \E i \in 0..Len(s) : \E j \in 1..4 :
                          i < k /\ k <= i + j /\ i + j <= Len(s) /\ CharAt(s, i, j)
      BY DEF Whole
    <2>1. CASE k <= Len(o)
      <3>1. k \in 1..Len(o)
        BY <1>1, <2>1
      <3>2. PICK i \in 0..Len(o) : \E j \in 1..4 :
                   i < k /\ k <= i + j /\ i + j <= Len(o) /\ CharAt(o, i, j)
        BY <1>4, <3>1 DEF Whole
      <3>3. PICK j \in 1..4 : i < k /\ k <= i + j /\ i + j <= Len(o) /\ CharAt(o, i, j)
        BY <3>2
      <3>4. CharAt(s, i, j)
        BY <1>2, <3>3
      <3>5. i \in 0..Len(s) /\ i + j <= Len(s)
        BY <1>1, <3>3
      <3> WITNESS i \in 0..Len(s)
      <3> WITNESS j \in 1..4
      <3> QED
        BY <3>3, <3>4, <3>5
    <2>2. CASE k > Len(o)
      <3>1. PICK m \in 1..Len(t) : k = Len(o) + m
        <4>1. k - Len(o) \in 1..Len(t) /\ k = Len(o) + (k - Len(o))
          BY <1>1, <2>2
        <4> QED
          BY <4>1
      <3>2. PICK i \in 0..Len(t) : \E j \in 1..4 :
                   i < m /\ m <= i + j /\ i + j <= Len(t) /\ CharAt(t, i, j)
        BY <1>4 DEF Whole
      <3>3. PICK j \in 1..4 : i < m /\ m <= i + j /\ i + j <= Len(t) /\ CharAt(t, i, j)
        BY <3>2
      <3>4. CharAt(s, Len(o) + i, j)
        BY <1>3, <3>3
      <3>5. /\ Len(o) + i \in 0..Len(s) /\ Len(o) + i < k /\ k <= (Len(o) + i) + j
            /\ (Len(o) + i) + j <= Len(s)
        BY <1>1, <3>1, <3>3
      <3> QED
        BY <3>4, <3>5
    <2> QED
      BY <1>1, <2>1, <2>2
  <1> QED
    BY <1>1, <1>5, TextIsWhole DEF s

LEMMA HexShown ==
  ASSUME NEW d \in 0..15
  PROVE  Hex(d) \in Ascii
  BY SMT DEF Hex, Ascii

LEMMA UnicodeShown ==
  ASSUME NEW cp \in Nat, cp < 65536
  PROVE  UnicodeEscape(cp) \in Seq(Ascii)
  <1> DEFINE a == Hex(cp \div 4096)
             b == Hex((cp \div 256) % 16)
             c == Hex((cp \div 16) % 16)
             d == Hex(cp % 16)
  <1>1. a \in Ascii /\ b \in Ascii /\ c \in Ascii /\ d \in Ascii
    <2>1. cp \div 4096 \in 0..15
      BY SMT
    <2>2. (cp \div 256) % 16 \in 0..15
      BY SMT
    <2>3. (cp \div 16) % 16 \in 0..15
      BY SMT
    <2>4. cp % 16 \in 0..15
      BY SMT
    <2> QED
      BY <2>1, <2>2, <2>3, <2>4, HexShown
  <1>2. UnicodeEscape(cp) = <<Backslash, LowerU, a, b, c, d>>
    BY DEF UnicodeEscape
  <1>3. Backslash \in Ascii /\ LowerU \in Ascii
    BY SMT DEF Backslash, LowerU, Ascii
  <1> HIDE DEF a, b, c, d
  <1> QED
    BY <1>1, <1>2, <1>3

\* What stands for a byte below 0x80 is ASCII a JSON parser takes.
LEMMA EscapeShown ==
  ASSUME NEW c \in Byte, c < 128
  PROVE  StrEscape(c) \in Seq(Ascii)
  <1> DEFINE self == <<Backslash, c>>
             lf == <<Backslash, 110>>
             cr == <<Backslash, 114>>
             tab == <<Backslash, 116>>
             hex == UnicodeEscape(c)
             raw == <<c>>
  <1>1. c \in 0..127 /\ c \in Nat /\ c < 65536
    BY SMT DEF Byte
  <1>2. /\ 110 \in Ascii /\ 114 \in Ascii /\ 116 \in Ascii /\ Backslash \in Ascii
        /\ Quote \in Ascii
    BY SMT DEF Ascii, Backslash, Quote
  <1>3. lf \in Seq(Ascii) /\ cr \in Seq(Ascii) /\ tab \in Seq(Ascii) /\ hex \in Seq(Ascii)
    <2>1. hex \in Seq(Ascii)
      BY <1>1, UnicodeShown
    <2> HIDE DEF hex
    <2> QED
      BY <1>2, <2>1 DEF hex
  <1>4. c \in Ascii => self \in Seq(Ascii) /\ raw \in Seq(Ascii)
    BY <1>2
  <1> HIDE DEF self, lf, cr, tab, hex, raw
  <1>5. CASE c < 32
    <2>1. StrEscape(c) \in {lf, cr, tab, hex}
      BY <1>1, <1>5, SMT DEF StrEscape, Quote, Backslash, lf, cr, tab, hex
    <2> QED
      BY <1>3, <2>1
  <1>6. CASE c >= 32
    <2>1. StrEscape(c) \in {self, raw}
      <3>1. CASE c = 34 \/ c = 92
        BY <3>1, SMT DEF StrEscape, Quote, Backslash, self
      <3>2. CASE c # 34 /\ c # 92
        <4>1. c # 10 /\ c # 13 /\ c # 9 /\ ~(c < 32)
          BY <1>1, <1>6, SMT
        <4> QED
          BY <3>2, <4>1, SMT DEF StrEscape, Quote, Backslash, raw
      <3> QED
        BY <3>1, <3>2
    <2>2. c \in Ascii
      BY <1>1, <1>6, SMT DEF Ascii
    <2> QED
      BY <1>4, <2>1, <2>2
  <1> QED
    BY <1>1, <1>5, <1>6

\* A character of more than one byte is text a JSON parser takes.
LEMMA CharShown ==
  ASSUME NEW s \in Seq(Byte \ {0}), NEW i, NEW j, CharAt(s, i, j), At(s, i) >= 32
  PROVE  Bite(s, i, j) \in Seq(Shown) /\ IsText(Bite(s, i, j))
  <1> DEFINE b == Bite(s, i, j)
  <1>1. i \in Nat /\ j \in 1..4 /\ i + j <= Len(s)
    BY DEF CharAt
  <1>2. At(s, i) \in Shown
    <2>1. PICK c \in Byte : c = At(s, i)
      BY <1>1, ByteAt
    <2>2. c \in Shown
      <3>1. \A d \in Byte : d >= 32 => d \in Shown
        BY SMT DEF Byte, Shown
      <3> QED
        BY <2>1, <3>1
    <2> QED
      BY <2>1, <2>2
  <1>3. \A k \in 1..j - 1 : At(s, i + k) \in Shown
    BY CharBytes, ShownBytes
  <1>4. \A k \in i + 1..i + j : s[k] \in Shown
    <2> SUFFICES ASSUME NEW k \in i + 1..i + j PROVE s[k] \in Shown
      OBVIOUS
    <2>1. k - 1 \in Nat /\ k - 1 < Len(s) /\ k - 1 + 1 = k
      BY <1>1
    <2>2. s[k] = At(s, k - 1)
      BY <2>1 DEF At
    <2>3. CASE k = i + 1
      BY <1>1, <1>2, <2>2, <2>3
    <2>4. CASE k # i + 1
      <3>1. k - 1 - i \in 1..j - 1 /\ i + (k - 1 - i) = k - 1
        BY <1>1, <2>4
      <3> QED
        BY <1>3, <2>2, <3>1
    <2> QED
      BY <2>3, <2>4
  <1>5. b \in Seq(Shown)
    <2>1. PICK p \in Int, q \in Int : p = i + 1 /\ q = i + j
      BY <1>1
    <2>2. SubSeq(s, p, q) \in Seq(Shown)
      BY <1>4, <2>1, SubSeqProperties
    <2> QED
      BY <2>1, <2>2 DEF Bite
  <1> QED
    BY <1>5, CharIsText
\* What a turn of str() puts is text a JSON parser takes, also for a byte that
\* belongs to no character.
LEMMA StrPieceShown ==
  ASSUME NEW s \in Seq(Byte \ {0}), NEW i \in Nat, i < Len(s), NEW avail \in Int
  PROVE  LET t == StrPiece(s, i, SeqLen(s, i, avail)) IN t \in Seq(Shown) /\ IsText(t)
  <1> DEFINE n == SeqLen(s, i, avail)
             t == StrPiece(s, i, n)
  <1>1. n \in 0..4
    BY SeqLenBound
  <1>2. PICK c \in Byte : c = At(s, i)
    BY ByteAt
  <1> HIDE DEF n
  <1>0. c \in Int
    BY ByteIsNat
  <1>3. CASE c < 128
    <2>1. t = StrEscape(c)
      BY <1>0, <1>2, <1>3, SMT DEF StrPiece
    <2> HIDE DEF t
    <2>2. t \in Seq(Ascii)
      BY <1>3, <2>1, EscapeShown
    <2> QED
      BY <2>2, AsciiIsText DEF t, n
  <1>4. CASE c >= 128 /\ n > 0
    <2>1. t = Bite(s, i, n)
      <3>1. ~(c < 128) /\ c >= 128 /\ n > 0
        BY <1>0, <1>4
      <3>2. t = SubSeq(s, i + 1, i + n)
        BY <1>2, <3>1 DEF StrPiece
      <3> QED
        BY <3>2 DEF Bite
    <2>2. PICK m \in 1..4 : m = n
      BY <1>1, <1>4
    <2>3. CharAt(s, i, m)
      <3>1. SeqLen(s, i, avail) = m
        BY <2>2 DEF n
      <3>2. i + m <= Len(s) /\ IsChar(Bite(s, i, m))
        BY <3>1, SeqLenIsUtf8
      <3> QED
        BY <3>2 DEF CharAt
    <2>4. At(s, i) >= 32
      BY <1>2, <1>4, ByteIsNat
    <2>5. Bite(s, i, m) \in Seq(Shown) /\ IsText(Bite(s, i, m))
      BY <2>3, <2>4, CharShown
    <2> HIDE DEF t
    <2> QED
      BY <2>1, <2>2, <2>5 DEF t, n
  <1>5. CASE c >= 128 /\ ~(n > 0)
    <2>1. t = UnicodeEscape(Replaced)
      BY <1>0, <1>2, <1>5, SMT DEF StrPiece
    <2>2. Replaced \in Nat /\ Replaced < 65536
      BY SMT DEF Replaced
    <2> HIDE DEF t
    <2>3. t \in Seq(Ascii)
      BY <2>1, <2>2, UnicodeShown
    <2> QED
      BY <2>3, AsciiIsText DEF t, n
  <1>6. c < 128 \/ c >= 128
    BY ByteIsNat
  <1> QED
    BY <1>3, <1>4, <1>5, <1>6

\* put() of a whole piece either puts all of it or fills the buffer.
LEMMA PutShown ==
  ASSUME NEW o \in Seq(Shown), NEW t \in Seq(Shown), NEW room \in Nat
  PROVE  LET put == SubSeq(t, 1, IF Len(t) < room THEN Len(t) ELSE room)
         IN  /\ o \o put \in Seq(Shown)
             /\ Len(t) <= room => o \o put = o \o t
             /\ Len(t) > room => Len(o \o put) = Len(o) + room
  <1> DEFINE m == IF Len(t) < room THEN Len(t) ELSE room
  <1>1. /\ m \in Nat /\ m <= room /\ m <= Len(t)
        /\ Len(t) <= room => m = Len(t)
        /\ Len(t) > room => m = room
    OBVIOUS
  <1> HIDE DEF m
  <1>2. \A k \in 1..m : t[k] \in Shown
    BY <1>1
  <1>3. SubSeq(t, 1, m) \in Seq(Shown) /\ Len(SubSeq(t, 1, m)) = IF 1 <= m THEN m - 1 + 1 ELSE 0
    BY <1>1, <1>2, SubSeqProperties
  <1>4. Len(SubSeq(t, 1, m)) = m
    BY <1>1, <1>3
  <1>5. /\ o \o SubSeq(t, 1, m) \in Seq(Shown)
        /\ Len(o \o SubSeq(t, 1, m)) = Len(o) + Len(SubSeq(t, 1, m))
    BY <1>3, ConcatProperties
  <1>6. Len(t) <= room => SubSeq(t, 1, m) = t
    BY <1>1, SubSeqFull
  <1>7. Len(t) > room => Len(o \o SubSeq(t, 1, m)) = Len(o) + room
    BY <1>1, <1>4, <1>5
  <1>8. Len(t) <= room => o \o SubSeq(t, 1, m) = o \o t
    BY <1>6
  <1> QED
    BY <1>5, <1>7, <1>8 DEF m

\* One more piece on a row that is text so far.
LEMMA RowGrows ==
  ASSUME NEW o \in Seq(Shown), NEW t \in Seq(Shown), IsText(o), IsText(t), Len(o) > 0
  PROVE  /\ o \o t \in Seq(Shown) /\ IsText(o \o t)
         /\ Len(o \o t) = Len(o) + Len(t) /\ (o \o t)[1] = o[1]
  <1>1. o \in Seq(Byte \ {0}) /\ t \in Seq(Byte \ {0})
    BY ShownBytes, SeqMonotonic
  <1>2. IsText(o \o t)
    BY <1>1, TextConcat
  <1>3. /\ o \o t \in Seq(Shown) /\ Len(o \o t) = Len(o) + Len(t)
        /\ \A i \in 1..Len(o) + Len(t) :
             (o \o t)[i] = IF i <= Len(o) THEN o[i] ELSE t[i - Len(o)]
    BY ConcatProperties
  <1>4. 1 \in 1..Len(o) + Len(t) /\ 1 <= Len(o)
    OBVIOUS
  <1> QED
    BY <1>2, <1>3, <1>4

LEMMA LastAppended ==
  ASSUME NEW S, NEW a \in Seq(S), NEW b \in Seq(S), Len(b) = 1
  PROVE  (a \o b)[Len(a) + 1] = b[1]
  <1>1. Len(a) \in Nat /\ Len(a) + 1 \in 1..Len(a) + Len(b)
    OBVIOUS
  <1>2. (a \o b)[Len(a) + 1] =
          IF Len(a) + 1 <= Len(a) THEN a[Len(a) + 1] ELSE b[Len(a) + 1 - Len(a)]
    BY <1>1, ConcatProperties
  <1> QED
    BY <1>1, <1>2

LEMMA QuoteShown ==
  <<Quote>> \in Seq(Shown) /\ Len(<<Quote>>) = 1 /\ IsText(<<Quote>>) /\ <<Quote>>[1] = Quote
  <1>1. <<Quote>> \in Seq(Ascii)
    BY ShownBytes
  <1> QED
    BY <1>1, AsciiIsText

GroupInv ==
  job = "group" =>
    /\ out \in Seq(Shown)
    /\ stage \in {"store", "open"} => ok /\ out = <<>>
    /\ ok /\ stage \notin {"store", "open"} => IsText(out) /\ Len(out) > 0 /\ out[1] = Quote
    /\ ok /\ stage = "done" => Len(out) > 1 /\ out[Len(out)] = Quote
    /\ ~ok => Len(out) = size \/ size <= 1

LEMMA GroupInit == TextInit => GroupInv
  BY DEF TextInit, GroupInv

LEMMA GroupStep == TextInv /\ GroupInv /\ [TextNext]_textVars => GroupInv'
  <1> SUFFICES ASSUME TextInv, GroupInv, [TextNext]_textVars, job' = "group" PROVE GroupInv'
    BY DEF GroupInv
  <1>1. /\ src \in Seq(Byte \ {0}) /\ size \in Nat /\ read \in Nat
        /\ Len(out) \in Nat /\ Len(out) <= size /\ width \in Nat
    BY Sizes
  <1>2. job = "group"
    BY DEF TextNext, EscapeOne, EscapeEnd, StoreName, Open, StrOne, StrEnd, Close,
           BodyOne, BodyEnd, textVars, given
  <1>3. /\ out \in Seq(Shown)
        /\ stage \in {"store", "open"} => ok /\ out = <<>>
        /\ ok /\ stage \notin {"store", "open"} => IsText(out) /\ Len(out) > 0 /\ out[1] = Quote
        /\ ok /\ stage = "done" => Len(out) > 1 /\ out[Len(out)] = Quote
        /\ ~ok => Len(out) = size \/ size <= 1
    BY <1>2 DEF GroupInv
  <1>4. PICK room \in Nat : room = size - Len(out)
    <2>1. size - Len(out) \in Nat
      BY <1>1
    <2> QED
      BY <2>1
  <1>5. CASE Open
    <2>1. /\ stage = "open" /\ stage' = "run" /\ size' = size /\ job' = job
          /\ IF Len(out) + 1 < size THEN out' = out \o <<Quote>> /\ ok' = ok
             ELSE ok' = FALSE /\ out' = out
      BY <1>5 DEF Open, given
    <2>2. out = <<>> /\ ok /\ Len(out) = 0
      BY <1>3, <2>1
    <2>3. CASE Len(out) + 1 < size
      <3>1. out \o <<Quote>> = <<Quote>>
        BY <2>2, QuoteShown, ConcatEmptySeq
      <3>2. out' = <<Quote>> /\ ok' = ok
        BY <2>1, <2>3, <3>1
      <3> QED
        BY <2>1, <2>2, <3>2, QuoteShown DEF GroupInv
    <2>4. CASE ~(Len(out) + 1 < size)
      BY <1>1, <1>3, <2>1, <2>2, <2>4 DEF GroupInv
    <2> QED
      BY <2>3, <2>4
  <1>6. CASE StrOne
    <2> DEFINE n == SeqLen(src, read, width - read)
               t == StrPiece(src, read, n)
    <2>1. /\ stage = "run" /\ read < Len(src) /\ ok /\ PutAll(t)
          /\ UNCHANGED <<job, src, size, stage>>
      BY <1>6 DEF StrOne, StrPiece, given
    <2>2. t \in Seq(Shown) /\ IsText(t)
      <3>1. width - read \in Int
        BY <1>1
      <3> QED
        BY <1>1, <2>1, <3>1, StrPieceShown
    <2> HIDE DEF t
    <2>3. /\ out' = out \o SubSeq(t, 1, IF Len(t) < room THEN Len(t) ELSE room)
          /\ ok' = (Len(out) + Len(t) <= size)
      BY <1>4, <2>1 DEF PutAll, Latched
    <2>4. Len(t) \in Nat
      BY <2>2
    <2>5. CASE Len(t) <= room
      <3>1. out' = out \o t /\ ok'
        <4>1. out' = out \o t
          BY <1>3, <2>2, <2>3, <2>5, PutShown
        <4>2. Len(out) + Len(t) <= size
          BY <1>1, <1>4, <2>4, <2>5
        <4> QED
          BY <2>3, <4>1, <4>2, Zenon
      <3>2. IsText(out) /\ Len(out) > 0 /\ out[1] = Quote
        BY <1>3, <2>1
      <3>3. /\ out' \in Seq(Shown) /\ IsText(out') /\ Len(out') > 0 /\ out'[1] = Quote
        BY <1>1, <1>3, <2>2, <2>4, <3>1, <3>2, RowGrows
      <3> QED
        BY <2>1, <3>1, <3>3 DEF GroupInv
    <2>6. CASE Len(t) > room
      <3>1. out' \in Seq(Shown) /\ Len(out') = Len(out) + room
        BY <1>3, <2>2, <2>3, <2>6, PutShown
      <3>2. ~ok' /\ Len(out') = size
        <4>1. Len(out') = size /\ ~(Len(out) + Len(t) <= size)
          BY <1>1, <1>4, <2>4, <2>6, <3>1
        <4> QED
          BY <2>3, <4>1, Zenon
      <3> QED
        BY <2>1, <3>1, <3>2 DEF GroupInv
    <2> QED
      BY <2>4, <2>5, <2>6
  <1>7. CASE StrEnd
    BY <1>3, <1>7 DEF StrEnd, given, GroupInv
  <1>8. CASE Close
    <2> DEFINE t == <<Quote>>
    <2>1. /\ stage = "close" /\ stage' = "done" /\ UNCHANGED <<job, src, size, read>>
          /\ IF ok THEN PutAll(t) ELSE out' = out /\ ok' = ok
      BY <1>8 DEF Close, given
    <2>2. t \in Seq(Shown) /\ IsText(t) /\ Len(t) = 1 /\ t[1] = Quote
      BY QuoteShown
    <2> HIDE DEF t
    <2>3. CASE ~ok
      BY <1>3, <2>1, <2>3 DEF GroupInv
    <2>4. CASE ok
      <3>1. /\ out' = out \o SubSeq(t, 1, IF Len(t) < room THEN Len(t) ELSE room)
            /\ ok' = (Len(out) + Len(t) <= size)
        BY <1>4, <2>1, <2>4 DEF PutAll, Latched
      <3>2. CASE Len(t) <= room
        <4>1. out' = out \o t /\ ok'
          <5>1. out' = out \o t
            BY <1>3, <2>2, <3>1, <3>2, PutShown
          <5>2. Len(out) + Len(t) <= size
            BY <1>1, <1>4, <2>2, <3>2
          <5> QED
            BY <3>1, <5>1, <5>2, Zenon
        <4>2. IsText(out) /\ Len(out) > 0 /\ out[1] = Quote
          BY <1>3, <2>1, <2>4
        <4>3. /\ out' \in Seq(Shown) /\ IsText(out') /\ Len(out') = Len(out) + 1
              /\ out'[1] = Quote
          BY <1>3, <2>2, <4>1, <4>2, RowGrows
        <4>4. out'[Len(out')] = Quote
          BY <1>3, <2>2, <4>1, <4>3, LastAppended
        <4> QED
          BY <1>1, <2>1, <4>1, <4>2, <4>3, <4>4 DEF GroupInv
      <3>3. CASE Len(t) > room
        <4>1. out' \in Seq(Shown) /\ Len(out') = Len(out) + room
          BY <1>3, <2>2, <3>1, <3>3, PutShown
        <4>2. ~ok' /\ Len(out') = size
          <5>1. Len(out') = size /\ ~(Len(out) + Len(t) <= size)
            BY <1>1, <1>4, <2>2, <3>3, <4>1
          <5> QED
            BY <3>1, <5>1, Zenon
        <4> QED
          BY <2>1, <4>1, <4>2 DEF GroupInv
      <3> QED
        BY <2>2, <3>2, <3>3
    <2> QED
      BY <2>3, <2>4
  <1>9. CASE UNCHANGED textVars
    BY <1>9 DEF textVars, given, GroupInv
  <1>10. ~EscapeOne /\ ~EscapeEnd /\ ~BodyOne /\ ~BodyEnd
    BY <1>2 DEF EscapeOne, EscapeEnd, BodyOne, BodyEnd
  <1>11. CASE StoreName
    BY <1>3, <1>11 DEF StoreName, given, GroupInv
  <1> QED
    BY <1>5, <1>6, <1>7, <1>8, <1>9, <1>10, <1>11 DEF TextNext

\* A group row is sent whole or not at all, and what is sent is UTF-8 without a
\* control character between two quotes; nothing is sent only when the buffer is full.
RowIsText ==
  job = "group" /\ stage = "done" =>
    IF Finish = <<>> THEN Len(out) = size \/ size <= 1
    ELSE /\ out \in Seq(Shown) /\ IsText(out)
         /\ Len(out) > 1 /\ out[1] = Quote /\ out[Len(out)] = Quote

\* Whatever bytes strncpy left of a name, also ones that belong to no character, leave
\* the JSON writer as RowOrNothing says of its row; that the row reads as the name is
\* left to the run.
THEOREM GroupRowIsText == TextSpec => []RowIsText
  <1>1. TextInv /\ GroupInv => RowIsText
    <2> SUFFICES ASSUME TextInv, GroupInv, job = "group", stage = "done"
                 PROVE  IF Finish = <<>> THEN Len(out) = size \/ size <= 1
                        ELSE /\ out \in Seq(Shown) /\ IsText(out)
                             /\ Len(out) > 1 /\ out[1] = Quote /\ out[Len(out)] = Quote
      BY DEF RowIsText
    <2>1. CASE ok
      <3>1. Finish = out
        BY <2>1 DEF Finish
      <3>2. Len(out) > 1
        BY <2>1 DEF GroupInv
      <3>3. out # <<>>
        BY <3>2
      <3> QED
        BY <2>1, <3>1, <3>2, <3>3 DEF GroupInv
    <2>2. CASE ~ok
      BY <2>2 DEF GroupInv, Finish
    <2> QED
      BY <2>1, <2>2
  <1> QED
    BY <1>1, TextInvInit, TextInvStep, GroupInit, GroupStep, PTL DEF TextSpec

(***************************************************************************)
(* The field of a device row                                               *)
(***************************************************************************)

\* On text, a piece of json_escape is a whole character.
LEMMA PieceIsChar ==
  ASSUME NEW s \in Seq(Byte \ {0}), NEW i \in Nat, i < Len(s),
         Whole(s, i), Whole(s, Len(s))
  PROVE  CharAt(s, i, PieceLen(s, i))
  <1> DEFINE n == PieceLen(s, i)
             j == SeqLen(s, i, 4)
  <1>0. Len(s) \in Nat
    OBVIOUS
  <1>1. j \in 1..4 /\ i + j <= Len(s)
    BY <1>0, WholeGoesOn
  <1>2. CharAt(s, i, j)
    <2>1. PICK m \in 1..4 : m = SeqLen(s, i, 4)
      BY <1>1
    <2>2. IsChar(Bite(s, i, m)) /\ i + m <= Len(s)
      BY <2>1, SeqLenIsUtf8
    <2> QED
      BY <2>1, <2>2 DEF CharAt
  <1> SUFFICES n = j
    BY <1>2
  <1>3. n \in 1..Len(s) - i
    BY PieceLenIs
  <1>4. CASE At(s, i) \in {Quote, Backslash} \cup 0..31
    <2>1. n = 1
      BY <1>4 DEF PieceLen
    <2>2. PICK c \in Byte : c = At(s, i) /\ c < 128
      <3>1. PICK c \in Byte : c = At(s, i)
        BY ByteAt
      <3>2. c \in {Quote, Backslash} \cup 0..31 => c < 128
        BY SMT DEF Quote, Backslash, Byte
      <3> QED
        BY <1>4, <3>1, <3>2
    <2>3. SeqNeed(At(s, i)) = 1
      BY <2>2, Table
    <2>4. j \in {0, SeqNeed(At(s, i))}
      BY DEF SeqLen
    <2> HIDE DEF j, n
    <2> QED
      BY <1>1, <2>1, <2>3, <2>4 DEF j, n
  <1>5. CASE At(s, i) \notin {Quote, Backslash} \cup 0..31
    <2>1. /\ \A k \in 1..n - 1 : At(s, i + k) \in Continuation
          /\ At(s, i + n) \notin Continuation
      BY <1>5, PieceLenIs
    <2>2. \A k \in 1..j - 1 : At(s, i + k) \in Continuation
      BY <1>2, CharBytes
    <2>3. At(s, i + j) \notin Continuation
      <3> HIDE DEF j
      <3>1. CASE i + j < Len(s)
        <4>1. i + j \in Nat
          BY <1>1
        <4>2. Whole(s, i + j)
          BY <1>2, WholeGrows
        <4>3. PICK q \in 1..4 : q = SeqLen(s, i + j, 4)
          BY <1>0, <3>1, <4>1, <4>2, WholeGoesOn
        <4>4. IsChar(Bite(s, i + j, q)) /\ (i + j) + q <= Len(s)
          BY <3>1, <4>1, <4>3, SeqLenIsUtf8
        <4>5. CharAt(s, i + j, q)
          BY <4>1, <4>4 DEF CharAt
        <4> QED
          BY <4>5, CharBytes
      <3>2. CASE ~(i + j < Len(s))
        <4>1. At(s, i + j) = 0
          BY <3>2 DEF At
        <4> QED
          <5>1. 0 \notin Continuation
            BY DEF Continuation
          <5> QED
            BY <4>1, <5>1
      <3> QED
        BY <3>1, <3>2
    <2>4. ~(n < j)
      <3> HIDE DEF n, j
      <3> SUFFICES ASSUME n < j PROVE FALSE
        OBVIOUS
      <3>1. n \in 1..j - 1
        BY <1>1, <1>3
      <3> QED
        BY <2>1, <2>2, <3>1
    <2>5. ~(j < n)
      <3> HIDE DEF n, j
      <3> SUFFICES ASSUME j < n PROVE FALSE
        OBVIOUS
      <3>1. j \in 1..n - 1
        BY <1>1, <1>3
      <3> QED
        BY <2>1, <2>3, <3>1
    <2> HIDE DEF n, j
    <2> QED
      BY <1>1, <1>3, <2>4, <2>5 DEF n, j
  <1> QED
    BY <1>4, <1>5

LEMMA PieceShown ==
  ASSUME NEW s \in Seq(Byte \ {0}), NEW i \in Nat, i < Len(s),
         CharAt(s, i, PieceLen(s, i))
  PROVE  Piece(s, i) \in Seq(Shown) /\ IsText(Piece(s, i))
  <1> DEFINE t == Piece(s, i)
  <1>1. PICK c \in Byte : c = At(s, i)
    BY ByteAt
  <1>2. c \in Int /\ c \in Nat
    BY ByteIsNat
  <1>3. CASE c \in {Quote, Backslash}
    <2>0. ~(c < 32)
      BY <1>3, SMT DEF Quote, Backslash
    <2>1. t = <<Backslash, c>>
      BY <1>1, <1>3, <2>0, Zenon DEF Piece
    <2>2. <<Backslash, c>> \in Seq(Ascii)
      BY <1>3, ShownBytes
    <2> QED
      BY <2>1, <2>2, AsciiIsText
  <1>4. CASE c \notin {Quote, Backslash} /\ c < 32
    <2>1. t = UnicodeEscape(c)
      BY <1>1, <1>4 DEF Piece
    <2>2. c < 65536
      BY <1>2, <1>4, SMT
    <2>3. UnicodeEscape(c) \in Seq(Ascii)
      BY <1>2, <2>2, UnicodeShown
    <2> QED
      BY <2>1, <2>3, AsciiIsText
  <1>5. CASE c \notin {Quote, Backslash} /\ ~(c < 32)
    <2>1. t = Bite(s, i, PieceLen(s, i))
      BY <1>1, <1>5, Zenon DEF Piece, Bite
    <2>2. At(s, i) >= 32
      BY <1>1, <1>2, <1>5
    <2> QED
      BY <2>1, <2>2, CharShown
  <1> QED
    BY <1>3, <1>4, <1>5

DeviceInv ==
  job = "device" =>
    /\ stage \in {"run", "done"}
    /\ IsText(src) => Whole(src, read) /\ out \in Seq(Shown) /\ IsText(out)

LEMMA NothingIsText == <<>> \in Seq(Shown) /\ IsText(<<>>)
  <1>1. <<>> \in Seq(Ascii)
    OBVIOUS
  <1> QED
    BY <1>1, AsciiIsText

LEMMA DeviceInit == TextInit => DeviceInv
  <1> SUFFICES ASSUME TextInit, job = "device" PROVE DeviceInv
    BY DEF DeviceInv
  <1>1. stage = "run" /\ read = 0 /\ out = <<>>
    BY DEF TextInit
  <1>2. Whole(src, 0)
    BY DEF Whole
  <1> QED
    BY <1>1, <1>2, NothingIsText DEF DeviceInv

LEMMA DeviceStep == TextInv /\ DeviceInv /\ [TextNext]_textVars => DeviceInv'
  <1> SUFFICES ASSUME TextInv, DeviceInv, [TextNext]_textVars, job' = "device" PROVE DeviceInv'
    BY DEF DeviceInv
  <1>1. src \in Seq(Byte \ {0}) /\ Len(src) \in Nat /\ read \in Nat
    BY Sizes
  <1>2. job = "device"
    BY DEF TextNext, EscapeOne, EscapeEnd, StoreName, Open, StrOne, StrEnd, Close,
           BodyOne, BodyEnd, textVars, given
  <1>3. /\ stage \in {"run", "done"}
        /\ IsText(src) => Whole(src, read) /\ out \in Seq(Shown) /\ IsText(out)
    BY <1>2 DEF DeviceInv
  <1>4. CASE EscapeOne
    <2> DEFINE t == Piece(src, read)
               n == PieceLen(src, read)
    <2>1. /\ read < Len(src) /\ out' = out \o t /\ read' = read + n
          /\ job' = job /\ src' = src /\ stage' = stage
      BY <1>4 DEF EscapeOne, given
    <2>2. ASSUME IsText(src)
          PROVE  Whole(src, read + n) /\ out \o t \in Seq(Shown) /\ IsText(out \o t)
      <3>1. Whole(src, read) /\ out \in Seq(Shown) /\ IsText(out) /\ Whole(src, Len(src))
        BY <1>1, <1>3, <2>2, TextIsWhole
      <3>2. CharAt(src, read, n)
        BY <1>1, <2>1, <3>1, PieceIsChar
      <3>3. t \in Seq(Shown) /\ IsText(t)
        BY <1>1, <2>1, <3>2, PieceShown
      <3> HIDE DEF n, t
      <3>4. Whole(src, read + n)
        BY <1>1, <3>1, <3>2, WholeGrows
      <3>5. out \o t \in Seq(Shown)
        BY <3>1, <3>3, ConcatProperties
      <3>6. out \in Seq(Byte \ {0}) /\ t \in Seq(Byte \ {0})
        BY <3>1, <3>3, ShownBytes, SeqMonotonic
      <3>7. IsText(out \o t)
        BY <3>1, <3>3, <3>6, TextConcat
      <3> QED
        BY <3>4, <3>5, <3>7 DEF n, t
    <2> HIDE DEF n, t
    <2>3. IsText(src') => Whole(src', read') /\ out' \in Seq(Shown) /\ IsText(out')
      BY <2>1, <2>2
    <2> QED
      BY <1>3, <2>1, <2>3 DEF DeviceInv
  <1>5. CASE EscapeEnd
    BY <1>3, <1>5 DEF EscapeEnd, given, DeviceInv
  <1>6. CASE UNCHANGED textVars
    BY <1>6 DEF textVars, given, DeviceInv
  <1>7. ~StrOne /\ ~StrEnd /\ ~BodyOne /\ ~BodyEnd
    BY <1>2 DEF StrOne, StrEnd, BodyOne, BodyEnd
  <1>8. ~StoreName /\ ~Open /\ ~Close
    BY <1>3 DEF StoreName, Open, Close
  <1> QED
    BY <1>4, <1>5, <1>6, <1>7, <1>8 DEF TextNext

\* A device name that is text makes a field that is text, without a control
\* character, at every turn of json_escape: it never stops inside a character.
FieldIsText == job = "device" /\ IsText(src) => out \in Seq(Shown) /\ IsText(out)

\* The first promise of NameShownWhole, for every name and every size of the field;
\* that the field reads as a start of the name is left to the run.
THEOREM DeviceFieldIsText == TextSpec => []FieldIsText
  <1>1. DeviceInv => FieldIsText
    BY DEF DeviceInv, FieldIsText
  <1> QED
    BY <1>1, TextInvInit, TextInvStep, DeviceInit, DeviceStep, PTL DEF TextSpec
=============================================================================
