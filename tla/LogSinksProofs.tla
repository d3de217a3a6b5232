--------------------------- MODULE LogSinksProofs ---------------------------
(***************************************************************************)
(* The ring and the rate gate together: what the ring promises holds while *)
(* any number of tasks log and publish, and the gate keeps its cap, for    *)
(* every cap, every width of its counter and any number of tasks.          *)
(***************************************************************************)
EXTENDS LogSinks, SequenceTheorems, TLAPS

(***************************************************************************)
(* Arithmetic of the slots                                                 *)
(***************************************************************************)

LEMMA SizeIsPositive == Size \in Nat \ {0} /\ RingSlots = 0..(Size - 1)
BY RingAssumption DEF RingSlots

\* A slot so far behind another wraps at most once.
LEMMA Wrap ==
  ASSUME NEW a \in RingSlots, NEW i \in 0..(Size - 1)
  PROVE  /\ (a + i) % Size = IF a + i < Size THEN a + i ELSE a + i - Size
         /\ (a + i) % Size \in RingSlots
BY SizeIsPositive

LEMMA SlotIsRemainder == ASSUME NEW a \in RingSlots PROVE a \in Nat /\ a % Size = a
BY SizeIsPositive

\* Different distances lead to different slots.
LEMMA WrapInjective ==
  ASSUME NEW a \in RingSlots, NEW i \in 0..(Size - 1), NEW j \in 0..(Size - 1), NEW x \in Int,
         x = IF a + i < Size THEN a + i ELSE a + i - Size,
         x = IF a + j < Size THEN a + j ELSE a + j - Size
  PROVE  i = j
BY SizeIsPositive

\* A remainder is told by any quotient it goes with.
LEMMA RemainderIs ==
  ASSUME NEW m \in Nat \ {0}, NEW a \in Nat, NEW q \in Int, NEW r \in 0..(m - 1),
         a = m * q + r
  PROVE  a % m = r
OBVIOUS

\* The next line goes to the next slot.
LEMMA NextSlot ==
  ASSUME NEW m \in Nat \ {0}, NEW a \in Nat
  PROVE  (a + 1) % m = IF (a % m) + 1 = m THEN 0 ELSE (a % m) + 1
<1>1. /\ a = m * (a \div m) + (a % m)
      /\ a \div m \in Int
      /\ a % m \in 0..(m - 1)
  OBVIOUS
<1>2. CASE (a % m) + 1 = m
  <2>1. a + 1 = m * ((a \div m) + 1) + 0
    BY <1>1, <1>2
  <2>2. a + 1 \in Nat /\ (a \div m) + 1 \in Int /\ 0 \in 0..(m - 1)
    BY <1>1
  <2>3. (a + 1) % m = 0
    BY <2>1, <2>2, RemainderIs
  <2>4. QED BY <1>2, <2>3
<1>3. CASE (a % m) + 1 # m
  <2>1. a + 1 = m * (a \div m) + ((a % m) + 1)
    BY <1>1
  <2>2. (a % m) + 1 \in 0..(m - 1) /\ a + 1 \in Nat
    BY <1>1, <1>3
  <2>3. (a + 1) % m = (a % m) + 1
    BY <1>1, <2>1, <2>2, RemainderIs
  <2>4. QED BY <1>3, <2>3
<1>4. QED BY <1>2, <1>3

LEMMA OneFurther ==
  ASSUME NEW i \in Nat, NEW m \in Int, NEW l \in Int
  PROVE  (i + 1) - 1 = i /\ m - l + (i + 1) = m - l + i + 1
OBVIOUS

\* When the head moves on, every other slot is one line older,
LEMMA OlderByOne ==
  ASSUME NEW m \in Nat \ {0}, NEW s \in 0..(m - 1), NEW h \in 0..(m - 1), s # h,
         NEW h2, h2 = IF h + 1 = m THEN 0 ELSE h + 1,
         NEW a, a = IF s < h THEN h - 1 - s ELSE h - 1 - s + m,
         NEW b, b = IF s < h2 THEN h2 - 1 - s ELSE h2 - 1 - s + m
  PROVE  b = a + 1 /\ a \in Nat /\ a < m - 1
OBVIOUS

\* and is counted as before.
LEMMA StillCounted ==
  ASSUME NEW m \in Nat, NEW c \in 0..m, NEW a \in Nat, a < m - 1,
         NEW d, d = IF c < m THEN c + 1 ELSE c
  PROVE  a < c <=> a + 1 < d
OBVIOUS

(***************************************************************************)
(* The inductive invariant                                                 *)
(***************************************************************************)

\* How many lines are newer than what is in the slot.
Age(s) == IF s < head THEN head - 1 - s ELSE head - 1 - s + Size

\* The ring holds the last lines, each in its slot.
RingInv ==
  /\ count = IF lines < Size THEN lines ELSE Size
  /\ head = lines % Size
  /\ \A s \in RingSlots :
       /\ ring[s] = IF Age(s) < count THEN lines - Age(s) ELSE 0
       /\ ring[s] # 0 => (ring[s] - 1) % Size = s

\* What a walk has written, and what it will find in the slots to come, is the
\* line that was there when it began or a newer one.
WalkInv ==
  \A r \in Readers : pc[r] \in {"walk", "done"} =>
    /\ n[r] <= count /\ n[r] <= mark[r] /\ mark[r] <= lines
    /\ Len(out[r]) <= n[r]
    /\ \A i \in 0..(Size - 1) : i < n[r] =>
         \/ ring[WalkSlot(r, i)] = mark[r] - n[r] + i + 1
         \/ ring[WalkSlot(r, i)] > mark[r]
    /\ \A k \in 1..Len(out[r]) :
         /\ out[r][k] = mark[r] - n[r] + k \/ out[r][k] > mark[r]
         /\ (out[r][k] - 1) % Size = WalkSlot(r, k - 1)

RInv == TypeOK /\ RingInv /\ WalkInv

\* The oldest lines first: the k-th line of the ring.
LEMMA LineAt ==
  ASSUME TypeOK, RingInv, NEW i \in 0..(Size - 1), i < count
  PROVE  ring[(StartSlot(count, head) + i) % Size] = lines - count + i + 1
<1> DEFINE s == (StartSlot(count, head) + i) % Size
<1>0. /\ head \in RingSlots /\ count \in 0..Size /\ lines \in Nat
      /\ StartSlot(count, head) \in RingSlots
  BY SizeIsPositive DEF TypeOK, StartSlot
<1>1. /\ s = IF StartSlot(count, head) + i < Size THEN StartSlot(count, head) + i
             ELSE StartSlot(count, head) + i - Size
      /\ s \in RingSlots
  BY <1>0, Wrap
<1>2. Age(s) = count - 1 - i
  <2>1. CASE count = Size
    <3>1. s = IF head + i < Size THEN head + i ELSE head + i - Size
      BY <1>1, <2>1 DEF StartSlot
    <3> HIDE DEF s
    <3>2. QED BY <1>0, <2>1, <3>1, SizeIsPositive DEF Age
  <2>2. CASE count # Size
    <3>1. count = lines /\ lines < Size
      BY <1>0, <2>2 DEF RingInv
    <3>2. head = lines
      BY <1>0, <3>1, SizeIsPositive DEF RingInv
    <3>3. s = i
      BY <1>1, <2>2, SizeIsPositive DEF StartSlot
    <3> HIDE DEF s
    <3>4. QED BY <1>0, <3>1, <3>2, <3>3, SizeIsPositive DEF Age
  <2>3. QED BY <2>1, <2>2
<1>3. ring[s] = IF Age(s) < count THEN lines - Age(s) ELSE 0
  BY <1>1 DEF RingInv
<1> HIDE DEF s
<1>4. ring[s] = lines - count + i + 1
  BY <1>0, <1>2, <1>3, SizeIsPositive
<1>5. QED BY <1>4 DEF s

(***************************************************************************)
(* The steps                                                               *)
(***************************************************************************)

\* An empty ring and no walk.
LEMMA RInvInit == Init => RInv
<1> SUFFICES ASSUME Init
             PROVE  RInv
  OBVIOUS
<1>1. TypeOK
  <2>1. <<>> \in Seq(Nat)
    BY EmptySeq
  <2>2. 0 \in RingSlots /\ 0 \in 0..Size
    BY SizeIsPositive
  <2>3. QED BY <2>1, <2>2 DEF Init, TypeOK
<1>2. 0 % Size = 0
  BY SizeIsPositive
<1>3. RingInv
  BY <1>2, SizeIsPositive DEF Init, RingInv, Age
<1>4. QED BY <1>1, <1>3 DEF Init, RInv, WalkInv

\* A line is captured, between any two steps of a walk.
LEMMA CaptureStep ==
  ASSUME RInv, CaptureLine
  PROVE  RInv'
<1>0. /\ ready \in BOOLEAN /\ ring \in [RingSlots -> Nat]
      /\ head \in RingSlots /\ count \in 0..Size /\ lines \in Nat
      /\ lines' = lines + 1 /\ ring' = [ring EXCEPT ![head] = lines + 1]
      /\ head' = (head + 1) % Size
      /\ count' = IF count < Size THEN count + 1 ELSE count
      /\ UNCHANGED <<ready, pc, n, start, out, mark>>
  BY DEF RInv, TypeOK, CaptureLine, Advance, Counted, readerVars
<1>1. head' = IF head + 1 = Size THEN 0 ELSE head + 1
  <2>1. head \in Nat /\ head % Size = head
    BY <1>0, SlotIsRemainder
  <2>2. (head + 1) % Size = IF (head % Size) + 1 = Size THEN 0 ELSE (head % Size) + 1
    BY <2>1, NextSlot, SizeIsPositive
  <2>3. QED BY <1>0, <2>1, <2>2
<1>2. /\ head' \in RingSlots /\ count' \in 0..Size /\ lines' \in Nat
      /\ ring' \in [RingSlots -> Nat]
      /\ ring'[head] = lines + 1 /\ \A s \in RingSlots \ {head} : ring'[s] = ring[s]
  BY <1>0, <1>1, SizeIsPositive
<1>3. TypeOK'
  BY <1>0, <1>2 DEF RInv, TypeOK
<1>4. head' = lines' % Size
  BY <1>0, <1>1, NextSlot, SizeIsPositive DEF RInv, RingInv
<1>5. count' = IF lines' < Size THEN lines' ELSE Size
  BY <1>0, SizeIsPositive DEF RInv, RingInv
<1>6. ASSUME NEW s \in RingSlots
      PROVE  /\ ring'[s] = IF Age(s)' < count' THEN lines' - Age(s)' ELSE 0
             /\ ring'[s] # 0 => (ring'[s] - 1) % Size = s
  <2>1. CASE s = head
    <3>1. Age(s)' = 0
      BY <1>0, <1>1, <2>1, SizeIsPositive DEF Age
    <3>2. count' > 0
      BY <1>0, SizeIsPositive
    <3>3. ring'[s] = lines + 1 /\ (ring'[s] - 1) % Size = s
      BY <1>0, <1>2, <2>1 DEF RInv, RingInv
    <3>4. QED BY <1>0, <3>1, <3>2, <3>3
  <2>2. CASE s # head
    <3>1. Age(s)' = Age(s) + 1 /\ Age(s) \in Nat /\ Age(s) < Size - 1
      <4>1. /\ Size \in Nat \ {0} /\ s \in 0..(Size - 1) /\ head \in 0..(Size - 1) /\ s # head
            /\ head' = IF head + 1 = Size THEN 0 ELSE head + 1
        BY <1>0, <1>1, <2>2, SizeIsPositive
      <4>2. /\ Age(s) = (IF s < head THEN head - 1 - s ELSE head - 1 - s + Size)
            /\ Age(s)' = (IF s < head' THEN head' - 1 - s ELSE head' - 1 - s + Size)
        BY DEF Age
      <4>3. QED BY <4>1, <4>2, OlderByOne
    <3>2. /\ ring'[s] = IF Age(s) < count THEN lines - Age(s) ELSE 0
          /\ ring'[s] # 0 => (ring'[s] - 1) % Size = s
      BY <1>2, <2>2 DEF RInv, RingInv
    <3>3. Age(s) < count <=> Age(s) + 1 < count'
      <4>1. /\ Size \in Nat /\ count \in 0..Size
            /\ count' = IF count < Size THEN count + 1 ELSE count
        BY <1>0, SizeIsPositive
      <4>2. QED BY <3>1, <4>1, StillCounted
    <3>4. QED BY <1>0, <3>1, <3>2, <3>3
  <2>3. QED BY <2>1, <2>2
<1>7. RingInv'
  BY <1>4, <1>5, <1>6 DEF RingInv
<1>8. WalkInv'
  <2>1. SUFFICES ASSUME NEW r \in Readers, pc[r] \in {"walk", "done"}
                 PROVE  /\ n[r] <= count' /\ n[r] <= mark[r] /\ mark[r] <= lines'
                        /\ Len(out[r]) <= n[r]
                        /\ \A i \in 0..(Size - 1) : i < n[r] =>
                             \/ ring'[WalkSlot(r, i)] = mark[r] - n[r] + i + 1
                             \/ ring'[WalkSlot(r, i)] > mark[r]
                        /\ \A k \in 1..Len(out[r]) :
                             /\ out[r][k] = mark[r] - n[r] + k \/ out[r][k] > mark[r]
                             /\ (out[r][k] - 1) % Size = WalkSlot(r, k - 1)
    BY <1>0 DEF WalkInv, WalkSlot
  <2>2. n[r] \in 0..Size /\ mark[r] \in Nat /\ start[r] \in RingSlots
    BY DEF RInv, TypeOK
  <2>3. n[r] <= count /\ mark[r] <= lines
    BY <2>1 DEF RInv, WalkInv
  <2>4. n[r] <= count' /\ mark[r] < lines'
    BY <1>0, <2>2, <2>3
  <2>5. ASSUME NEW i \in 0..(Size - 1), i < n[r]
        PROVE  \/ ring'[WalkSlot(r, i)] = mark[r] - n[r] + i + 1
               \/ ring'[WalkSlot(r, i)] > mark[r]
    <3>1. WalkSlot(r, i) \in RingSlots
      BY <2>2, Wrap DEF WalkSlot
    <3>2. CASE WalkSlot(r, i) = head
      BY <1>0, <1>2, <2>4, <3>2
    <3>3. CASE WalkSlot(r, i) # head
      BY <1>2, <2>1, <2>5, <3>1, <3>3 DEF RInv, WalkInv
    <3>4. QED BY <3>2, <3>3
  <2>6. mark[r] <= lines'
    BY <1>0, <2>2, <2>3
  <2>7. QED BY <2>1, <2>4, <2>5, <2>6 DEF RInv, WalkInv
<1>9. QED BY <1>3, <1>7, <1>8 DEF RInv

\* A walk begins with what the ring holds.
LEMMA StartStep ==
  ASSUME RInv, NEW r \in Readers, StartWalk(r)
  PROVE  RInv'
<1>0. /\ UNCHANGED <<ready, ring, head, count, lines>>
      /\ head \in RingSlots /\ count \in 0..Size /\ lines \in Nat
      /\ StartSlot(count, head) \in RingSlots
  BY SizeIsPositive DEF StartWalk, ringVars, RInv, TypeOK, StartSlot
<1>1. /\ n' = [n EXCEPT ![r] = count] /\ mark' = [mark EXCEPT ![r] = lines]
      /\ start' = [start EXCEPT ![r] = StartSlot(count, head)]
      /\ out' = [out EXCEPT ![r] = <<>>] /\ pc' = [pc EXCEPT ![r] = "walk"]
  BY DEF StartWalk
<1>2. <<>> \in Seq(Nat)
  BY EmptySeq
<1>3. TypeOK'
  BY <1>0, <1>1, <1>2 DEF RInv, TypeOK
<1>4. RingInv'
  BY <1>0 DEF RInv, RingInv, Age
<1>5. /\ n'[r] = count /\ mark'[r] = lines /\ start'[r] = StartSlot(count, head) /\ out'[r] = <<>>
      /\ \A q \in Readers \ {r} : /\ n'[q] = n[q] /\ mark'[q] = mark[q] /\ start'[q] = start[q]
                                  /\ out'[q] = out[q] /\ pc'[q] = pc[q]
  BY <1>1 DEF RInv, TypeOK
<1>6. ASSUME NEW i \in 0..(Size - 1), i < count
      PROVE  ring[WalkSlot(r, i)'] = lines - count + i + 1
  BY <1>5, <1>6, LineAt DEF WalkSlot, RInv
<1>7. count <= lines /\ Len(<<>>) = 0
  BY <1>0, SizeIsPositive DEF RInv, RingInv
<1>8. WalkInv'
  <2>1. ASSUME NEW q \in Readers, pc'[q] \in {"walk", "done"}
        PROVE  /\ n'[q] <= count' /\ n'[q] <= mark'[q] /\ mark'[q] <= lines'
               /\ Len(out'[q]) <= n'[q]
               /\ \A i \in 0..(Size - 1) : i < n'[q] =>
                    \/ ring'[WalkSlot(q, i)'] = mark'[q] - n'[q] + i + 1
                    \/ ring'[WalkSlot(q, i)'] > mark'[q]
               /\ \A k \in 1..Len(out'[q]) :
                    /\ out'[q][k] = mark'[q] - n'[q] + k \/ out'[q][k] > mark'[q]
                    /\ (out'[q][k] - 1) % Size = WalkSlot(q, k - 1)'
    <3>1. CASE q = r
      BY <1>0, <1>5, <1>6, <1>7, <3>1
    <3>2. CASE q # r
      BY <1>0, <1>5, <2>1, <3>2 DEF RInv, WalkInv, WalkSlot
    <3>3. QED BY <3>1, <3>2
  <2>2. QED BY <2>1 DEF WalkInv
<1>9. QED BY <1>3, <1>4, <1>8 DEF RInv

\* An entry is copied, whatever was captured since the last one.
LEMMA CopyStep ==
  ASSUME RInv, NEW r \in Readers, CopyEntry(r)
  PROVE  RInv'
<1> DEFINE i == Len(out[r])
           v == ring[WalkSlot(r, i)]
<1>0. /\ UNCHANGED <<ready, ring, head, count, lines, pc, n, start, mark>>
      /\ pc[r] = "walk" /\ i < n[r] /\ out' = [out EXCEPT ![r] = Append(@, v)]
      /\ out \in [Readers -> Seq(Nat)] /\ n[r] \in 0..Size /\ start[r] \in RingSlots
      /\ mark[r] \in Nat /\ ring \in [RingSlots -> Nat]
  BY DEF CopyEntry, ringVars, RInv, TypeOK
<1>1. out[r] \in Seq(Nat) /\ i \in Nat /\ i \in 0..(Size - 1)
  <2>1. out[r] \in Seq(Nat) /\ i \in Nat
    BY <1>0, LenProperties
  <2>2. QED BY <1>0, <2>1, SizeIsPositive
<1>2. WalkSlot(r, i) \in RingSlots /\ v \in Nat
  BY <1>0, <1>1, Wrap DEF WalkSlot
<1>3. (v = mark[r] - n[r] + i + 1 \/ v > mark[r]) /\ n[r] <= mark[r]
  BY <1>0, <1>1 DEF RInv, WalkInv
<1>4. (v - 1) % Size = WalkSlot(r, i)
  <2>1. v # 0
    BY <1>0, <1>1, <1>2, <1>3
  <2>2. QED BY <1>2, <2>1 DEF RInv, RingInv
<1>5. /\ Append(out[r], v) \in Seq(Nat) /\ Len(Append(out[r], v)) = i + 1
      /\ \A k \in 1..i : Append(out[r], v)[k] = out[r][k]
      /\ Append(out[r], v)[i + 1] = v
  BY <1>1, <1>2, AppendProperties
<1>6. out'[r] = Append(out[r], v) /\ \A q \in Readers \ {r} : out'[q] = out[q]
  BY <1>0
<1>7. TypeOK'
  <2>1. out' \in [Readers -> Seq(Nat)]
    BY <1>0, <1>5
  <2>2. QED BY <1>0, <2>1 DEF RInv, TypeOK
<1>8. RingInv'
  BY <1>0 DEF RInv, RingInv, Age
<1>9. mark[r] \in Int /\ n[r] \in Int
  BY <1>0, SizeIsPositive
<1> HIDE DEF i, v
<1>10. WalkInv'
  <2>1. ASSUME NEW q \in Readers, pc[q] \in {"walk", "done"}
        PROVE  /\ n[q] <= count /\ n[q] <= mark[q] /\ mark[q] <= lines
               /\ \A j \in 0..(Size - 1) : j < n[q] =>
                    \/ ring[WalkSlot(q, j)] = mark[q] - n[q] + j + 1
                    \/ ring[WalkSlot(q, j)] > mark[q]
               /\ Len(out'[q]) <= n[q]
               /\ \A k \in 1..Len(out'[q]) :
                    /\ out'[q][k] = mark[q] - n[q] + k \/ out'[q][k] > mark[q]
                    /\ (out'[q][k] - 1) % Size = WalkSlot(q, k - 1)
    <3>1. CASE q # r
      BY <1>6, <2>1, <3>1 DEF RInv, WalkInv
    <3>2. CASE q = r
      <4>1. Len(out'[r]) = i + 1 /\ i + 1 <= n[r]
        BY <1>0, <1>1, <1>5, <1>6
      <4>2. ASSUME NEW k \in 1..(i + 1)
            PROVE  /\ out'[r][k] = mark[r] - n[r] + k \/ out'[r][k] > mark[r]
                   /\ (out'[r][k] - 1) % Size = WalkSlot(r, k - 1)
        <5>1. CASE k = i + 1
          <6>1. k - 1 = i /\ mark[r] - n[r] + k = mark[r] - n[r] + i + 1
            <7>1. i \in Nat
              BY <1>1
            <7>2. QED BY <1>9, <5>1, <7>1, OneFurther
          <6>2. QED BY <1>3, <1>4, <1>5, <1>6, <5>1, <6>1
        <5>2. CASE k # i + 1
          <6>1. k \in 1..i /\ out'[r][k] = out[r][k]
            BY <1>1, <1>5, <1>6, <5>2
          <6>2. QED BY <2>1, <3>2, <6>1 DEF RInv, WalkInv, i
        <5>3. QED BY <5>1, <5>2
      <4>3. QED BY <2>1, <3>2, <4>1, <4>2 DEF RInv, WalkInv
    <3>3. QED BY <3>1, <3>2
  <2>2. QED BY <1>0, <2>1 DEF WalkInv, WalkSlot
<1>11. QED BY <1>7, <1>8, <1>10 DEF RInv

\* A walk ends, gives up or has been sent.
LEMMA EndStep ==
  ASSUME RInv, NEW r \in Readers, EndWalk(r) \/ Overflow(r) \/ Sent(r)
  PROVE  RInv'
<1>0. /\ UNCHANGED <<ready, ring, head, count, lines, n, start, mark>>
      /\ pc \in [Readers -> {"idle", "walk", "done", "failed"}]
      /\ out \in [Readers -> Seq(Nat)]
  BY DEF EndWalk, Overflow, Sent, ringVars, RInv, TypeOK
<1>1. /\ pc' \in [Readers -> {"idle", "walk", "done", "failed"}]
      /\ out' \in [Readers -> Seq(Nat)]
      /\ \A q \in Readers : pc'[q] \in {"walk", "done"} =>
           pc[q] \in {"walk", "done"} /\ out'[q] = out[q]
  <2>1. CASE EndWalk(r)
    BY <1>0, <2>1 DEF EndWalk
  <2>2. CASE Overflow(r)
    <3>1. <<>> \in Seq(Nat)
      BY EmptySeq
    <3>2. QED BY <1>0, <2>2, <3>1 DEF Overflow
  <2>3. CASE Sent(r)
    BY <1>0, <2>3 DEF Sent
  <2>4. QED BY <2>1, <2>2, <2>3
<1>2. TypeOK'
  BY <1>0, <1>1 DEF RInv, TypeOK
<1>3. RingInv'
  BY <1>0 DEF RInv, RingInv, Age
<1>4. WalkInv'
  BY <1>0, <1>1 DEF RInv, WalkInv, WalkSlot
<1>5. QED BY <1>2, <1>3, <1>4 DEF RInv

LEMMA RInvStep == RInv /\ [Next]_vars => RInv'
<1> SUFFICES ASSUME RInv, [Next]_vars
             PROVE  RInv'
  OBVIOUS
<1>1. CASE UNCHANGED vars
  BY <1>1 DEF vars, RInv, TypeOK, RingInv, WalkInv, Age, WalkSlot
<1>2. CASE InitRing
  BY <1>2 DEF InitRing, readerVars, RInv, TypeOK, RingInv, WalkInv, Age, WalkSlot
<1>3. CASE CaptureLine
  BY <1>3, CaptureStep
<1>4. ASSUME NEW r \in Readers, StartWalk(r) \/ ReaderStep(r)
      PROVE  RInv'
  BY <1>4, StartStep, CopyStep, EndStep DEF ReaderStep
<1>5. QED BY <1>1, <1>2, <1>3, <1>4 DEF Next

(***************************************************************************)
(* The theorems about walks                                                *)
(***************************************************************************)

\* The invariant holds in every behaviour.
THEOREM RingInvariance == Spec => []RInv
BY RInvInit, RInvStep, PTL DEF Spec

\* Every index stays within the ring, however often it wraps.
THEOREM RingTyped == Spec => []TypeOK
<1>1. RInv => TypeOK
  BY DEF RInv
<1>2. QED BY <1>1, RingInvariance, PTL

\* Two entries of a walk are in two slots.
LEMMA SlotsDiffer ==
  ASSUME TypeOK, NEW r \in Readers, NEW i \in 0..(Size - 1), NEW j \in 0..(Size - 1),
         WalkSlot(r, i) = WalkSlot(r, j)
  PROVE  i = j
<1>1. start[r] \in RingSlots
  BY DEF TypeOK
<1>2. /\ WalkSlot(r, i) = IF start[r] + i < Size THEN start[r] + i ELSE start[r] + i - Size
      /\ WalkSlot(r, j) = IF start[r] + j < Size THEN start[r] + j ELSE start[r] + j - Size
  BY <1>1, Wrap DEF WalkSlot
<1>3. WalkSlot(r, i) \in RingSlots
  BY <1>1, Wrap DEF WalkSlot
<1>4. WalkSlot(r, i) \in Int
  BY <1>3, SizeIsPositive
<1>5. QED BY <1>1, <1>2, <1>4, WrapInjective

LEMMA FaithfulFromInv == RInv => WalkIsFaithful
<1> SUFFICES ASSUME RInv, NEW r \in Readers, pc[r] \in {"walk", "done"},
                    NEW k \in 1..Len(out[r])
             PROVE  /\ out[r][k] = mark[r] - n[r] + k \/ out[r][k] > mark[r]
                    /\ \A m \in 1..Len(out[r]) : out[r][k] = out[r][m] => k = m
  <2>1. \A r \in Readers : DOMAIN out[r] = 1..Len(out[r])
    BY LenProperties DEF RInv, TypeOK
  <2>2. QED BY <2>1 DEF WalkIsFaithful
<1>1. out[r][k] = mark[r] - n[r] + k \/ out[r][k] > mark[r]
  BY DEF RInv, WalkInv
<1>2. ASSUME NEW m \in 1..Len(out[r]), out[r][k] = out[r][m]
      PROVE  k = m
  <2>1. WalkSlot(r, k - 1) = WalkSlot(r, m - 1)
    <3>1. (out[r][k] - 1) % Size = WalkSlot(r, k - 1)
      BY DEF RInv, WalkInv
    <3>2. (out[r][m] - 1) % Size = WalkSlot(r, m - 1)
      BY DEF RInv, WalkInv
    <3>3. QED BY <1>2, <3>1, <3>2
  <2>2. Len(out[r]) \in Nat /\ Len(out[r]) <= n[r] /\ n[r] \in 0..Size
    BY LenProperties DEF RInv, TypeOK, WalkInv
  <2>3. k - 1 \in 0..(Size - 1) /\ m - 1 \in 0..(Size - 1)
    BY <2>2, SizeIsPositive
  <2>4. k - 1 = m - 1
    BY <2>1, <2>3, SlotsDiffer DEF RInv
  <2>5. QED BY <2>2, <2>4
<1>3. QED BY <1>1, <1>2

\* However many lines are captured while a walk copies its entries, it shows
\* the lines that were there and are not overwritten at their places, newer
\* lines only in the place of older ones, and no line twice.
THEOREM WalksAreFaithful == Spec => []WalkIsFaithful
BY RingInvariance, FaithfulFromInv, PTL

(***************************************************************************)
(* The ring implements BoundedLog                                          *)
(***************************************************************************)

\* The last c lines up to line l.
Recent(l, c) == [k \in 1..c |-> l - c + k]

LEMMA RecentIs ==
  ASSUME NEW l \in Nat, NEW c \in 0..l
  PROVE  /\ Recent(l, c) \in Seq(Nat) /\ Len(Recent(l, c)) = c
         /\ \A k \in 1..c : Recent(l, c)[k] = l - c + k
         /\ c > 0 <=> Recent(l, c) # <<>>
<1>1. \A k \in 1..c : l - c + k \in Nat
  OBVIOUS
<1>2. Recent(l, c) \in [1..c -> Nat]
  BY <1>1 DEF Recent
<1>3. Recent(l, c) \in Seq(Nat)
  BY <1>2
<1>4. Len(Recent(l, c)) = c
  BY <1>2, <1>3
<1>5. c > 0 <=> Recent(l, c) # <<>>
  BY <1>3, <1>4, EmptySeq
<1>6. QED BY <1>3, <1>4, <1>5 DEF Recent

\* What the ring reads from its oldest slot on.
ContentsInv ==
  /\ Contents = Recent(lines, count)
  /\ lines \in Nat /\ count \in 0..lines /\ count \in 0..Size

LEMMA ContentsAre == RInv => ContentsInv
<1> SUFFICES ASSUME RInv
             PROVE  ContentsInv
  OBVIOUS
<1>1. lines \in Nat /\ count \in 0..lines /\ count \in 0..Size
  BY SizeIsPositive DEF RInv, TypeOK, RingInv
<1>2. ASSUME NEW k \in 1..count
      PROVE  ring[(StartSlot(count, head) + k - 1) % Size] = lines - count + k
  <2>1. k - 1 \in 0..(Size - 1) /\ k - 1 < count
    BY <1>1, SizeIsPositive
  <2>2. ring[(StartSlot(count, head) + (k - 1)) % Size] = lines - count + (k - 1) + 1
    BY <2>1, LineAt DEF RInv
  <2>3. StartSlot(count, head) \in Int
    BY SizeIsPositive DEF RInv, TypeOK, StartSlot
  <2>4. StartSlot(count, head) + (k - 1) = StartSlot(count, head) + k - 1
    BY <2>3
  <2>5. lines - count + (k - 1) + 1 = lines - count + k
    BY <1>1
  <2>6. QED BY <2>2, <2>4, <2>5
<1>3. QED BY <1>1, <1>2 DEF Contents, Recent, ContentsInv

\* One more line in a log that has room.
LEMMA RecentGrows ==
  ASSUME NEW l \in Nat, NEW c \in 0..l
  PROVE  Append(Recent(l, c), l + 1) = Recent(l + 1, c + 1)
<1>1. /\ Recent(l, c) \in Seq(Nat) /\ Len(Recent(l, c)) = c
      /\ \A k \in 1..c : Recent(l, c)[k] = l - c + k
  BY RecentIs
<1>2. /\ Recent(l + 1, c + 1) \in Seq(Nat) /\ Len(Recent(l + 1, c + 1)) = c + 1
      /\ \A k \in 1..(c + 1) : Recent(l + 1, c + 1)[k] = (l + 1) - (c + 1) + k
  <2>1. l + 1 \in Nat /\ c + 1 \in 0..(l + 1)
    OBVIOUS
  <2>2. QED BY <2>1, RecentIs
<1>3. /\ Append(Recent(l, c), l + 1) \in Seq(Nat)
      /\ Len(Append(Recent(l, c), l + 1)) = c + 1
      /\ \A k \in 1..c : Append(Recent(l, c), l + 1)[k] = l - c + k
      /\ Append(Recent(l, c), l + 1)[c + 1] = l + 1
  <2>1. l + 1 \in Nat
    OBVIOUS
  <2>2. QED BY <1>1, <2>1, AppendProperties
<1>4. ASSUME NEW k \in 1..(c + 1)
      PROVE  Append(Recent(l, c), l + 1)[k] = Recent(l + 1, c + 1)[k]
  <2>1. Recent(l + 1, c + 1)[k] = l - c + k
    BY <1>2
  <2>2. CASE k = c + 1
    BY <1>3, <2>1, <2>2
  <2>3. CASE k # c + 1
    BY <1>3, <2>1, <2>3
  <2>4. QED BY <2>2, <2>3
<1>5. QED BY <1>2, <1>3, <1>4, SeqEqual

\* One more line in a full log: the oldest one makes room.
LEMMA RecentSlides ==
  ASSUME NEW l \in Nat, NEW c \in 1..l
  PROVE  Append(SubSeq(Recent(l, c), 2, c), l + 1) = Recent(l + 1, c)
<1>1. /\ Recent(l, c) \in Seq(Nat) /\ Len(Recent(l, c)) = c
      /\ \A k \in 1..c : Recent(l, c)[k] = l - c + k
  BY RecentIs
<1>2. c - 1 \in 0..l /\ c \in Int /\ 2 \in Int
  OBVIOUS
<1>3. /\ SubSeq(Recent(l, c), 2, c) \in Seq(Nat)
      /\ Len(SubSeq(Recent(l, c), 2, c)) = c - 1
      /\ \A k \in 1..(c - 1) : SubSeq(Recent(l, c), 2, c)[k] = l - (c - 1) + k
  <2>1. \A k \in 2..c : Recent(l, c)[k] \in Nat
    BY <1>1
  <2>2. /\ SubSeq(Recent(l, c), 2, c) \in Seq(Nat)
        /\ Len(SubSeq(Recent(l, c), 2, c)) = IF 2 <= c THEN c - 2 + 1 ELSE 0
        /\ \A k \in 1..(c - 2 + 1) : SubSeq(Recent(l, c), 2, c)[k] = Recent(l, c)[2 + k - 1]
    BY <1>2, <2>1, SubSeqProperties
  <2>3. Len(SubSeq(Recent(l, c), 2, c)) = c - 1
    BY <2>2
  <2>4. ASSUME NEW k \in 1..(c - 1)
        PROVE  SubSeq(Recent(l, c), 2, c)[k] = l - (c - 1) + k
    <3>1. k \in 1..(c - 2 + 1) /\ 2 + k - 1 = k + 1 /\ k + 1 \in 1..c
      OBVIOUS
    <3>2. SubSeq(Recent(l, c), 2, c)[k] = Recent(l, c)[k + 1]
      BY <2>2, <3>1
    <3>3. QED BY <1>1, <3>1, <3>2
  <2>5. QED BY <2>2, <2>3, <2>4
<1>4. SubSeq(Recent(l, c), 2, c) = Recent(l, c - 1)
  <2>1. /\ Recent(l, c - 1) \in Seq(Nat) /\ Len(Recent(l, c - 1)) = c - 1
        /\ \A k \in 1..(c - 1) : Recent(l, c - 1)[k] = l - (c - 1) + k
    BY <1>2, RecentIs
  <2>2. QED BY <1>3, <2>1, SeqEqual
<1>5. Append(Recent(l, c - 1), l + 1) = Recent(l + 1, (c - 1) + 1)
  BY <1>2, RecentGrows
<1>6. (c - 1) + 1 = c
  OBVIOUS
<1>7. QED BY <1>4, <1>5, <1>6

\* Capturing a line is BoundedLog's step.
LEMMA CaptureImplements ==
  ASSUME RInv, ContentsInv, ContentsInv', CaptureLine
  PROVE  Log!Capture
<1>1. /\ Contents = Recent(lines, count) /\ Contents' = Recent(lines', count')
      /\ lines \in Nat /\ count \in 0..lines /\ count \in 0..Size
  BY DEF ContentsInv
<1>2. lines' = lines + 1 /\ count' = IF count < Size THEN count + 1 ELSE count
  BY DEF CaptureLine, Counted
<1>3. /\ Len(Contents) = count
      /\ count > 0 <=> Contents # <<>>
      /\ count > 0 => Contents[count] = lines
  <2>1. /\ Len(Contents) = count /\ (count > 0 <=> Contents # <<>>)
        /\ \A k \in 1..count : Contents[k] = lines - count + k
    BY <1>1, RecentIs
  <2>2. count > 0 => count \in 1..count /\ lines - count + count = lines
    BY <1>1
  <2>3. QED BY <2>1, <2>2
<1>4. Log!Newest = lines
  <2>1. CASE count = 0
    <3>1. lines = 0
      BY <1>1, <2>1, SizeIsPositive DEF RInv, RingInv
    <3>2. QED BY <1>1, <1>3, <2>1, <3>1 DEF Log!Newest
  <2>2. CASE count > 0
    BY <1>3, <2>2 DEF Log!Newest
  <2>3. QED BY <1>1, <2>1, <2>2
<1>5. CASE count < Size
  <2>1. Contents' = Append(Contents, lines + 1)
    BY <1>1, <1>2, <1>5, RecentGrows
  <2>2. QED BY <1>3, <1>4, <1>5, <2>1 DEF Log!Capture
<1>6. CASE count = Size
  <2>1. count \in 1..lines /\ count' = count
    BY <1>1, <1>2, <1>6, SizeIsPositive
  <2>2. Contents' = Append(SubSeq(Contents, 2, Size), lines + 1)
    BY <1>1, <1>2, <1>6, <2>1, RecentSlides
  <2>3. QED BY <1>3, <1>4, <1>6, <2>2, SizeIsPositive DEF Log!Capture
<1>7. QED BY <1>1, <1>5, <1>6, SizeIsPositive

\* The ring, read from its oldest slot, is a log of the last Size lines in the
\* order of their capture.
THEOREM RingImplementsBoundedLog == Spec => ImplementsBoundedLog
<1>1. Init => Log!Init
  <2>1. ASSUME Init
        PROVE  Contents = <<>>
    BY <2>1 DEF Init, Contents
  <2>2. QED BY <2>1 DEF Log!Init
<1>2. RInv /\ ContentsInv /\ ContentsInv' /\ [Next]_vars => [Log!Capture]_Contents
  <2> SUFFICES ASSUME RInv, ContentsInv, ContentsInv', [Next]_vars
               PROVE  Log!Capture \/ Contents' = Contents
    OBVIOUS
  <2>1. CASE CaptureLine
    BY <2>1, CaptureImplements
  <2>2. CASE UNCHANGED <<ring, head, count>>
    BY <2>2 DEF Contents
  <2>3. CASE InitRing \/ UNCHANGED vars
    BY <2>2, <2>3 DEF InitRing, vars
  <2>4. ASSUME NEW r \in Readers, StartWalk(r) \/ ReaderStep(r)
        PROVE  UNCHANGED <<ring, head, count>>
    BY <2>4 DEF StartWalk, ReaderStep, CopyEntry, EndWalk, Overflow, Sent, ringVars
  <2>5. QED BY <2>1, <2>2, <2>3, <2>4 DEF Next
<1>3. QED BY <1>1, <1>2, ContentsAre, RingInvariance, PTL DEF Spec, ImplementsBoundedLog, Log!Spec

(***************************************************************************)
(* The ring in the whole                                                   *)
(***************************************************************************)

\* Logging is the ring's CaptureLine and steps that leave the ring and its
\* walks alone.
LEMMA RingPart ==
  ASSUME SinkNext
  PROVE  Next \/ UNCHANGED vars
<1>1. ASSUME NEW t \in Tasks, Vprintf(t) \/ Filtered(t) \/ Gate(t)
      PROVE  Next \/ UNCHANGED vars
  BY <1>1 DEF Vprintf, Filtered, Gate, Enter, LoadEpoch, StoreEpoch, StoreCount, AddAndTest, Next
<1>2. CASE Tick
  BY <1>2 DEF Tick
<1>3. CASE InitRing \/ Reading
  BY <1>3 DEF Reading, Next
<1>4. QED BY <1>1, <1>2, <1>3 DEF SinkNext

\* Every behaviour of the whole is one of the ring.
THEOREM SinksImplementRing == SinkSpec => Spec
<1>1. SinkInit => Init
  BY DEF SinkInit
<1>2. [SinkNext]_sinkVars => [Next]_vars
  BY RingPart DEF sinkVars
<1>3. QED BY <1>1, <1>2, PTL DEF SinkSpec, Spec

\* So a reader sees every line at its place while lines are logged and
\* published around it.
THEOREM LoggedWalksAreFaithful == SinkSpec => []WalkIsFaithful
BY SinksImplementRing, WalksAreFaithful, PTL

\* And the ring stays the log of the last lines.
THEOREM LoggedRingImplementsBoundedLog == SinkSpec => ImplementsBoundedLog
BY SinksImplementRing, RingImplementsBoundedLog, PTL

(***************************************************************************)
(* The gate                                                                *)
(***************************************************************************)

GateSteps == {"load", "store_epoch", "store_count", "add"}

GateType ==
  /\ clock \in Nat /\ epoch \in 0..clock /\ rateCount \in Nat
  /\ step \in [Tasks -> {"idle", "dispatch"} \cup GateSteps]
  /\ now \in [Tasks -> 0..clock]
  /\ gated \in Nat /\ published \in Nat /\ dropped \in Nat /\ raced \in BOOLEAN

\* Without a race one task at a time is in the gate.
SoloInv == ~raced => \A t, u \in Tasks : t \in InGate /\ u \in InGate => t = u

\* g lines of this second have left the gate.
Passed(g) ==
  IF epoch = clock
  THEN /\ g < CountMod => rateCount = g
       /\ published = (IF g <= CapPerSec THEN g ELSE CapPerSec)
       /\ dropped = g - published
  ELSE g = 0 /\ published = 0 /\ dropped = 0

\* What the task in the gate has found and done so far.
Entered(t) ==
  IF now[t] = clock
  THEN /\ gated >= 1
       /\ step[t] = "load" => Passed(gated - 1)
       /\ step[t] = "store_epoch" => epoch # clock /\ Passed(0) /\ gated = 1
       /\ step[t] = "store_count" =>
            epoch = clock /\ gated = 1 /\ published = 0 /\ dropped = 0
       /\ step[t] = "add" => epoch = clock /\ Passed(gated - 1)
  ELSE epoch # clock /\ gated = 0 /\ Passed(0)

CountInv ==
  Countable =>
    /\ InGate = {} => Passed(gated)
    /\ \A t \in Tasks : t \in InGate => Entered(t)

GateInv == GateType /\ SoloInv /\ CountInv

LEMMA GateInit == SinkInit => GateInv
<1> SUFFICES ASSUME SinkInit
             PROVE  GateInv
  OBVIOUS
<1>1. GateType
  <2>1. step \in [Tasks -> {"idle", "dispatch"} \cup GateSteps]
    BY DEF SinkInit
  <2>2. clock = 0 /\ now \in [Tasks -> 0..0]
    BY DEF SinkInit
  <2>3. /\ epoch \in 0..0 /\ rateCount \in Nat
        /\ gated \in Nat /\ published \in Nat /\ dropped \in Nat
    BY DEF SinkInit
  <2>4. raced \in BOOLEAN
    BY DEF SinkInit
  <2>5. QED BY <2>1, <2>2, <2>3, <2>4 DEF GateType
<1>2. InGate = {}
  BY DEF SinkInit, InGate
<1>3. Passed(gated)
  BY SinksAssumption DEF SinkInit, Passed
<1>4. QED BY <1>1, <1>2, <1>3 DEF GateInv, SoloInv, CountInv

\* Who was in the gate and who is.
LEMMA InGateIs ==
  ASSUME GateType, NEW t \in Tasks
  PROVE  t \in InGate <=> step[t] \in GateSteps
BY DEF GateType, InGate, GateSteps

\* A line enters the gate.
LEMMA EnterStep ==
  ASSUME GateInv, NEW t \in Tasks, Enter(t)
  PROVE  GateInv'
<1>0. /\ step[t] = "dispatch" /\ gated' = gated + 1 /\ now' = [now EXCEPT ![t] = clock]
      /\ raced' = (raced \/ InGate # {}) /\ step' = [step EXCEPT ![t] = "load"]
      /\ UNCHANGED <<clock, epoch, rateCount, published, dropped>>
  BY DEF Enter, GoTo
<1>1. GateType'
  BY <1>0 DEF GateInv, GateType, GateSteps
<1>2. /\ step'[t] = "load" /\ now'[t] = clock /\ t \notin InGate
      /\ \A u \in Tasks \ {t} : step'[u] = step[u] /\ now'[u] = now[u]
      /\ InGate' = InGate \cup {t}
  BY <1>0 DEF GateInv, GateType, InGate
<1>3. SoloInv'
  BY <1>0, <1>2 DEF SoloInv
<1>4. ASSUME Countable'
      PROVE  InGate' = {t} /\ Entered(t)'
  <2>1. ~raced /\ InGate = {}
    <3>1. ~raced' /\ raced' = (raced \/ InGate # {})
      BY <1>0, <1>4 DEF Countable
    <3>2. QED BY <3>1
  <2>2. gated \in Nat /\ gated <= CountMod
    <3>1. gated \in Nat /\ gated + 1 <= CountMod
      BY <1>0, <1>4 DEF Countable, GateInv, GateType
    <3>2. QED BY <3>1, SinksAssumption
  <2>3. Passed(gated)
    BY <2>1, <2>2 DEF GateInv, CountInv, Countable
  <2>4. gated' - 1 = gated /\ gated' >= 1
    BY <1>0, <2>2
  <2>5. Passed(gated - 1)'
    BY <1>0, <2>3, <2>4 DEF Passed
  <2>6. Entered(t)'
    BY <1>0, <1>2, <2>4, <2>5 DEF Entered
  <2>7. QED BY <1>2, <2>1, <2>6
<1>5. CountInv'
  BY <1>4 DEF CountInv
<1>6. QED BY <1>1, <1>3, <1>5 DEF GateInv

\* A step of the task in the gate: nobody else is in it while it counts.
LEMMA StayStep ==
  ASSUME GateInv, NEW t \in Tasks, LoadEpoch(t) \/ StoreEpoch(t)
  PROVE  GateInv'
<1>0. /\ step[t] \in GateSteps /\ now[t] \in 0..clock
      /\ UNCHANGED <<clock, rateCount, now, gated, published, dropped, raced>>
      /\ \/ step[t] = "load" /\ epoch' = epoch
            /\ step' = [step EXCEPT ![t] = IF epoch # now[t] THEN "store_epoch" ELSE "add"]
         \/ step[t] = "store_epoch" /\ epoch' = now[t]
            /\ step' = [step EXCEPT ![t] = "store_count"]
  BY DEF LoadEpoch, StoreEpoch, GoTo, gateVars, GateInv, GateType, GateSteps
<1>1. GateType'
  BY <1>0 DEF GateInv, GateType, GateSteps
<1>2. /\ \A u \in Tasks \ {t} : step'[u] = step[u]
      /\ InGate' = InGate /\ t \in InGate
  BY <1>0 DEF GateInv, GateType, InGate, GateSteps
<1>3. SoloInv'
  BY <1>0, <1>2 DEF GateInv, SoloInv
<1>4. ASSUME Countable
      PROVE  Entered(t)' /\ \A u \in Tasks : u \in InGate => u = t
  <2>1. Entered(t) /\ \A u \in Tasks : u \in InGate => u = t
    BY <1>2, <1>4 DEF GateInv, SoloInv, CountInv, Countable
  <2>2. gated \in Nat /\ clock \in Nat /\ epoch \in Nat
    BY DEF GateInv, GateType
  <2>3. CASE step[t] = "load" /\ epoch' = epoch
             /\ step' = [step EXCEPT ![t] = IF epoch # now[t] THEN "store_epoch" ELSE "add"]
    <3>1. step'[t] = IF epoch # now[t] THEN "store_epoch" ELSE "add"
      BY <2>3 DEF GateInv, GateType
    <3>2. CASE now[t] = clock /\ epoch # clock
      <4>1. gated = 1 /\ Passed(0)
        BY <2>1, <2>2, <2>3, <3>2 DEF Entered, Passed
      <4>2. step'[t] = "store_epoch"
        BY <3>1, <3>2
      <4>3. Passed(0)'
        BY <1>0, <2>3, <4>1 DEF Passed
      <4>4. Entered(t)'
        BY <1>0, <2>3, <3>2, <4>1, <4>2, <4>3 DEF Entered
      <4>5. QED BY <2>1, <4>4
    <3>3. CASE now[t] = clock /\ epoch = clock
      BY <1>0, <2>1, <2>3, <3>1, <3>3 DEF Entered, Passed, GateSteps
    <3>4. CASE now[t] # clock
      BY <1>0, <2>1, <2>3, <3>1, <3>4 DEF Entered, Passed, GateSteps
    <3>5. QED BY <2>1, <3>2, <3>3, <3>4, <1>0, <2>3, <3>1
  <2>4. CASE step[t] = "store_epoch" /\ epoch' = now[t]
             /\ step' = [step EXCEPT ![t] = "store_count"]
    <3>1. step'[t] = "store_count"
      BY <2>4 DEF GateInv, GateType
    <3>2. QED BY <1>0, <2>1, <2>4, <3>1 DEF Entered, Passed
  <2>5. QED BY <1>0, <2>1, <2>3, <2>4
<1>5. CountInv'
  BY <1>0, <1>2, <1>4 DEF CountInv, Countable
<1>6. QED BY <1>1, <1>3, <1>5 DEF GateInv

\* A line leaves the gate, published or dropped.
LEMMA LeaveStep ==
  ASSUME GateInv, NEW t \in Tasks, StoreCount(t) \/ AddAndTest(t)
  PROVE  GateInv'
<1>0. /\ step[t] \in GateSteps /\ step' = [step EXCEPT ![t] = "idle"]
      /\ now[t] \in 0..clock
      /\ UNCHANGED <<clock, epoch, now, gated, raced>>
  BY DEF StoreCount, AddAndTest, GoTo, GateInv, GateType, GateSteps
<1>1. GateType'
  <2>1. rateCount' \in Nat
    BY SinksAssumption DEF StoreCount, AddAndTest, GateInv, GateType
  <2>2. published' \in Nat /\ dropped' \in Nat
    BY DEF StoreCount, AddAndTest, Tally, GateInv, GateType
  <2>3. QED BY <1>0, <2>1, <2>2 DEF GateInv, GateType
<1>2. InGate' = InGate \ {t} /\ t \in InGate
  BY <1>0 DEF GateInv, GateType, InGate, GateSteps
<1>3. SoloInv'
  BY <1>0, <1>2 DEF GateInv, SoloInv
<1>4. ASSUME Countable
      PROVE  InGate' = {} /\ Passed(gated)'
  <2>1. /\ Entered(t) /\ gated <= CountMod
        /\ \A u \in Tasks : u \in InGate => u = t
    BY <1>2, <1>4 DEF GateInv, SoloInv, CountInv, Countable
  <2>2. InGate' = {}
    BY <1>2, <2>1 DEF InGate
  <2>3. /\ gated \in Nat /\ clock \in Nat /\ epoch \in Nat /\ rateCount \in Nat
        /\ published \in Nat /\ dropped \in Nat
    BY DEF GateInv, GateType
  <2>4. CASE now[t] # clock
    <3>1. UNCHANGED <<published, dropped>>
      BY <2>4 DEF StoreCount, AddAndTest, Tally
    <3>2. QED BY <1>0, <2>1, <2>2, <2>4, <3>1 DEF Entered, Passed
  <2>5. CASE now[t] = clock /\ StoreCount(t)
    <3>1. /\ epoch = clock /\ gated = 1 /\ dropped' = 0 /\ published' = 1 /\ rateCount' = 1
      BY <2>1, <2>5 DEF Entered, StoreCount, Tally
    <3>2. QED BY <1>0, <2>2, <3>1, SinksAssumption DEF Passed
  <2>6. CASE now[t] = clock /\ AddAndTest(t)
    <3>1. /\ epoch = clock /\ gated >= 1 /\ Passed(gated - 1)
          /\ rateCount' = (rateCount + 1) % CountMod
      BY <2>1, <2>6 DEF Entered, AddAndTest
    <3>2. /\ rateCount = gated - 1
          /\ published = (IF gated - 1 <= CapPerSec THEN gated - 1 ELSE CapPerSec)
          /\ dropped = gated - 1 - published
      <4>1. gated - 1 < CountMod
        BY <2>1, <2>3, SinksAssumption
      <4>2. QED BY <3>1, <4>1 DEF Passed
    <3>3. IF gated - 1 < CapPerSec
          THEN published' = published + 1 /\ dropped' = dropped
          ELSE published' = published /\ dropped' = dropped + 1
      BY <2>6, <3>2 DEF AddAndTest, Allows, Tally
    <3>4. gated < CountMod => rateCount' = gated
      <4>1. rateCount' = gated % CountMod
        BY <2>3, <3>1, <3>2
      <4>2. QED BY <2>3, <4>1, SinksAssumption
    <3>5. /\ published' = (IF gated <= CapPerSec THEN gated ELSE CapPerSec)
          /\ dropped' = gated - published'
      BY <2>3, <3>1, <3>2, <3>3, SinksAssumption
    <3>6. QED BY <1>0, <2>2, <3>1, <3>4, <3>5 DEF Passed
  <2>7. QED BY <2>4, <2>5, <2>6
<1>5. CountInv'
  BY <1>0, <1>4 DEF CountInv, Countable, InGate
<1>6. QED BY <1>1, <1>3, <1>5 DEF GateInv

\* A new second begins, whoever is in the gate.
LEMMA TickStep ==
  ASSUME GateInv, Tick
  PROVE  GateInv'
<1>0. /\ clock' = clock + 1 /\ gated' = 0 /\ published' = 0 /\ dropped' = 0
      /\ raced' = (raced /\ InGate # {}) /\ UNCHANGED <<step, epoch, rateCount, now>>
  BY DEF Tick
<1>1. clock \in Nat /\ epoch \in 0..clock /\ now \in [Tasks -> 0..clock]
  BY DEF GateInv, GateType
<1>2. epoch # clock' /\ \A t \in Tasks : now[t] # clock'
  BY <1>0, <1>1
<1>3. GateType'
  BY <1>0, <1>1 DEF GateInv, GateType
<1>4. InGate' = InGate
  BY <1>0 DEF InGate
<1>5. SoloInv'
  BY <1>0, <1>4 DEF GateInv, SoloInv
<1>6. CountInv'
  BY <1>0, <1>2 DEF CountInv, Entered, Passed
<1>7. QED BY <1>3, <1>5, <1>6 DEF GateInv

LEMMA GateStep == GateInv /\ [SinkNext]_sinkVars => GateInv'
<1> SUFFICES ASSUME GateInv, [SinkNext]_sinkVars
             PROVE  GateInv'
  OBVIOUS
<1>1. CASE UNCHANGED <<step, gateVars>>
  BY <1>1 DEF gateVars, GateInv, GateType, SoloInv, CountInv, Countable, InGate, Entered, Passed
<1>2. ASSUME NEW t \in Tasks, Vprintf(t) \/ Filtered(t)
      PROVE  GateInv'
  <2>1. /\ step[t] \in {"idle", "dispatch"} /\ step'[t] \in {"idle", "dispatch"}
        /\ \A u \in Tasks \ {t} : step'[u] = step[u]
        /\ step' \in [Tasks -> {"idle", "dispatch"} \cup GateSteps] /\ UNCHANGED gateVars
    BY <1>2 DEF Vprintf, Filtered, GoTo, GateInv, GateType
  <2>2. InGate' = InGate
    BY <2>1 DEF InGate
  <2>3. \A u \in Tasks : u \in InGate => step'[u] = step[u]
    BY <2>1 DEF InGate
  <2>4. GateType'
    BY <2>1 DEF gateVars, GateInv, GateType
  <2>5. QED
    BY <2>1, <2>2, <2>3, <2>4 DEF gateVars, GateInv, SoloInv, CountInv, Countable, Entered, Passed
<1>3. ASSUME NEW t \in Tasks, Gate(t)
      PROVE  GateInv'
  BY <1>3, EnterStep, StayStep, LeaveStep DEF Gate
<1>4. CASE Tick
  BY <1>4, TickStep
<1>5. QED BY <1>1, <1>2, <1>3, <1>4 DEF SinkNext, sinkVars

\* The invariant of the gate holds in every behaviour.
THEOREM GateInvariance == SinkSpec => []GateInv
BY GateInit, GateStep, PTL DEF SinkSpec

\* Of the lines of one second no more than the cap are published and none is
\* dropped before, while the counter has not wrapped and no two tasks met in
\* the gate.
THEOREM CapIsKept == SinkSpec => []CapIsExact
<1>1. GateInv => CapIsExact
  <2> SUFFICES ASSUME GateInv, Countable
               PROVE  published <= CapPerSec /\ (dropped > 0 => published = CapPerSec)
    BY DEF CapIsExact
  <2>1. gated \in Nat /\ published \in Nat /\ dropped \in Nat
    BY DEF GateInv, GateType
  <2>2. ASSUME NEW g \in Nat, Passed(g)
        PROVE  published <= CapPerSec /\ (dropped > 0 => published = CapPerSec)
    BY <2>1, <2>2, SinksAssumption DEF Passed
  <2>3. CASE InGate = {}
    BY <2>1, <2>2, <2>3 DEF GateInv, CountInv
  <2>4. ASSUME NEW t \in Tasks, t \in InGate
        PROVE  published <= CapPerSec /\ (dropped > 0 => published = CapPerSec)
    <3>1. Entered(t) /\ step[t] \in GateSteps
      BY <2>4, InGateIs DEF GateInv, CountInv
    <3>2. CASE now[t] = clock /\ step[t] \in {"load", "add"}
      <4>1. gated - 1 \in Nat /\ Passed(gated - 1)
        BY <2>1, <3>1, <3>2 DEF Entered
      <4>2. QED BY <2>2, <4>1
    <3>3. CASE now[t] # clock \/ step[t] = "store_epoch"
      BY <2>2, <3>1, <3>3 DEF Entered
    <3>4. CASE now[t] = clock /\ step[t] = "store_count"
      BY <2>1, <3>1, <3>4, SinksAssumption DEF Entered
    <3>5. QED BY <3>1, <3>2, <3>3, <3>4 DEF GateSteps
  <2>5. QED BY <2>3, <2>4 DEF InGate
<1>2. QED BY <1>1, GateInvariance, PTL
=============================================================================
