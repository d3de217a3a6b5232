------------------------- MODULE DeviceEventsProofs -------------------------
(***************************************************************************)
(* What the browser page and Home Assistant show, for every set of tasks,  *)
(* rules, devices, names and values, every length of the queues and any    *)
(* number of changes: the rules of RulePush, alone and among everything    *)
(* else that the pump, httpd and the MQTT client do, then the devices.     *)
(***************************************************************************)
EXTENDS DeviceEvents, SequenceTheorems, TLAPS

(***************************************************************************)
(* The inductive invariant                                                 *)
(***************************************************************************)

\* The last event about a rule in the queue q says whether the store s has it.
LastAgree(q, s) ==
  \A k \in 1..Len(q) :
    (\A j \in 1..Len(q) : j > k => q[j].id # q[k].id) =>
      (q[k].change = "deleted" <=> s[q[k].id] = None)

\* Only an event at hand that is no deletion has its rule loaded.
FoundInv ==
  /\ pump = None => found = None
  /\ found # None => pump.change # "deleted"

\* The event at hand, when none about the same rule waits behind it, says what
\* the store says.
PumpInv ==
  pump # None /\ pump.id \notin lost /\ pump.id \notin Queued(queue) =>
    /\ pump.change = "deleted" <=> store[pump.id] = None
    /\ found # None => found = store[pump.id]

\* A page that has its list shows what is stored of every rule of which no event
\* is on its way.
PageInv ==
  open /\ listed =>
    \A i \in Ids \ lost :
      i \notin Queued(queue) /\ (pump = None \/ pump.id # i) => page[i] = store[i]

RuleInv == TypeOK /\ LastAgree(queue, store) /\ FoundInv /\ PumpInv /\ PageInv

\* The state of the rules, the queue and the page: all but the bound on changes.
ruleVars == <<store, queue, pump, found, open, page, listing, listed, lost>>

(***************************************************************************)
(* Queues                                                                  *)
(***************************************************************************)

\* The rules with an event in a queue, by its places.
LEMMA QueuedByPlace ==
  ASSUME NEW S, NEW q \in Seq(S)
  PROVE  Queued(q) = {q[k].id : k \in 1..Len(q)}
<1>1. DOMAIN q = 1..Len(q)
  BY LenProperties
<1>2. QED BY <1>1, Zenon DEF Queued, ToSet

\* An empty queue is about nothing.
LEMMA NothingQueued == Queued(<<>>) = {}
<1>1. <<>> \in Seq(Events) /\ Len(<<>>) = 0
  BY EmptySeq
<1>2. 1..Len(<<>>) = {}
  BY <1>1
<1>3. Queued(<<>>) = {<<>>[k].id : k \in 1..Len(<<>>)}
  BY <1>1, QueuedByPlace
<1>4. QED BY <1>2, <1>3

\* Without its oldest event a queue is still one, and has the others in order.
LEMMA TailOfQueue ==
  ASSUME NEW S, NEW q \in Seq(S), q # <<>>
  PROVE  /\ Tail(q) \in Seq(S) /\ Len(q) \in Nat \ {0}
         /\ Len(Tail(q)) = Len(q) - 1
         /\ \A k \in 1..Len(Tail(q)) : Tail(q)[k] = q[k + 1]
         /\ Head(q) = q[1] /\ q[1] \in S
<1>1. Len(q) \in Nat \ {0}
  BY EmptySeq
<1>2. q[1] \in S
  BY <1>1, ElementOfSeq
<1>3. Head(q) = q[1]
  OBVIOUS
<1>4. /\ Tail(q) \in Seq(S) /\ Len(Tail(q)) = Len(q) - 1
      /\ \A k \in 1..Len(Tail(q)) : Tail(q)[k] = q[k + 1]
  BY HeadTailProperties
<1>5. QED BY <1>1, <1>2, <1>3, <1>4

\* The oldest event is about a rule that the rest of the queue is also about, or
\* the rest is about one rule less.
LEMMA QueuedTail ==
  ASSUME NEW S, NEW q \in Seq(S), q # <<>>
  PROVE  Queued(q) = Queued(Tail(q)) \cup {q[1].id}
<1>1. /\ Queued(q) = {q[k].id : k \in 1..Len(q)}
      /\ Queued(Tail(q)) = {Tail(q)[k].id : k \in 1..Len(Tail(q))}
  <2>1. Tail(q) \in Seq(S)
    BY TailOfQueue
  <2>2. Queued(q) = {q[k].id : k \in 1..Len(q)}
    BY QueuedByPlace
  <2>3. Queued(Tail(q)) = {Tail(q)[k].id : k \in 1..Len(Tail(q))}
    BY <2>1, QueuedByPlace
  <2>4. QED BY <2>2, <2>3
<1>2. ASSUME NEW k \in 1..Len(q), k # 1
      PROVE  k - 1 \in 1..Len(Tail(q)) /\ Tail(q)[k - 1] = q[k]
  BY <1>2, TailOfQueue
<1>3. ASSUME NEW k \in 1..Len(Tail(q))
      PROVE  k + 1 \in 1..Len(q) /\ Tail(q)[k] = q[k + 1]
  BY TailOfQueue
<1>4. 1 \in 1..Len(q)
  BY TailOfQueue
<1>5. \A i \in Queued(q) : i \in Queued(Tail(q)) \cup {q[1].id}
  <2>1. SUFFICES ASSUME NEW k \in 1..Len(q), k # 1
                 PROVE  q[k].id \in Queued(Tail(q))
    BY <1>1
  <2>2. QED BY <1>1, <1>2, <2>1
<1>6. \A i \in Queued(Tail(q)) : i \in Queued(q)
  BY <1>1, <1>3
<1>7. QED BY <1>1, <1>4, <1>5, <1>6

\* A queue with a new event is about its rule and the rules it was about.
LEMMA QueuedAppend ==
  ASSUME NEW S, NEW q \in Seq(S), NEW e \in S
  PROVE  /\ Append(q, e) \in Seq(S)
         /\ Len(Append(q, e)) = Len(q) + 1
         /\ Queued(Append(q, e)) = Queued(q) \cup {e.id}
<1>1. /\ Append(q, e) \in Seq(S)
      /\ Len(Append(q, e)) = Len(q) + 1
      /\ \A k \in 1..Len(q) : Append(q, e)[k] = q[k]
      /\ Append(q, e)[Len(q) + 1] = e
  BY AppendProperties
<1>2. /\ Queued(q) = {q[k].id : k \in 1..Len(q)}
      /\ Queued(Append(q, e)) = {Append(q, e)[k].id : k \in 1..Len(Append(q, e))}
  BY <1>1, QueuedByPlace
<1>3. Len(q) \in Nat
  BY LenProperties
<1>4. \A k \in 1..(Len(q) + 1) : k \in 1..Len(q) \/ k = Len(q) + 1
  BY <1>3
<1>5. 1..Len(q) \subseteq 1..(Len(q) + 1) /\ Len(q) + 1 \in 1..(Len(q) + 1)
  BY <1>3
<1>6. QED BY <1>1, <1>2, <1>4, <1>5

\* Taking the oldest event leaves the last event of every other rule.
LEMMA TailAgrees ==
  ASSUME NEW q \in Seq(Events), q # <<>>, NEW s, LastAgree(q, s)
  PROVE  LastAgree(Tail(q), s)
<1> SUFFICES ASSUME NEW k \in 1..Len(Tail(q)),
                    \A j \in 1..Len(Tail(q)) : j > k => Tail(q)[j].id # Tail(q)[k].id
             PROVE  Tail(q)[k].change = "deleted" <=> s[Tail(q)[k].id] = None
  BY DEF LastAgree
<1>1. k + 1 \in 1..Len(q) /\ Tail(q)[k] = q[k + 1]
  BY TailOfQueue
<1>2. ASSUME NEW j \in 1..Len(q), j > k + 1
      PROVE  q[j].id # q[k + 1].id
  <2>1. j - 1 \in 1..Len(Tail(q)) /\ j - 1 > k /\ Tail(q)[j - 1] = q[j]
    BY <1>2, TailOfQueue
  <2>2. QED BY <1>1, <2>1
<1>3. QED BY <1>1, <1>2 DEF LastAgree

\* The new event about a rule says what its change made of the store.
LEMMA AppendAgrees ==
  ASSUME NEW q \in Seq(Events), NEW s, NEW r, NEW e \in Events, LastAgree(q, s),
         \A i \in Ids \ {e.id} : r[i] = s[i],
         e.change = "deleted" <=> r[e.id] = None
  PROVE  LastAgree(Append(q, e), r)
<1>1. /\ Len(Append(q, e)) = Len(q) + 1 /\ Len(q) \in Nat
      /\ \A k \in 1..Len(q) : Append(q, e)[k] = q[k]
      /\ Append(q, e)[Len(q) + 1] = e
  BY AppendProperties, LenProperties
<1> SUFFICES ASSUME NEW k \in 1..(Len(q) + 1),
                    \A j \in 1..(Len(q) + 1) : j > k => Append(q, e)[j].id # Append(q, e)[k].id
             PROVE  Append(q, e)[k].change = "deleted" <=> r[Append(q, e)[k].id] = None
  BY <1>1 DEF LastAgree
<1>2. CASE k = Len(q) + 1
  BY <1>1, <1>2
<1>3. CASE k # Len(q) + 1
  <2>1. k \in 1..Len(q) /\ Append(q, e)[k] = q[k]
    BY <1>1, <1>3
  <2>2. Len(q) + 1 > k /\ Len(q) + 1 \in 1..(Len(q) + 1)
    BY <1>1, <2>1
  <2>3. e.id # q[k].id
    BY <1>1, <2>1, <2>2
  <2>4. \A j \in 1..Len(q) : j > k => q[j].id # q[k].id
    BY <1>1, <2>1
  <2>5. q[k] \in Events
    BY <2>1, ElementOfSeq
  <2>6. q[k].change = "deleted" <=> s[q[k].id] = None
    BY <2>1, <2>4 DEF LastAgree
  <2>7. QED BY <2>1, <2>3, <2>5, <2>6 DEF Events
<1>4. QED BY <1>2, <1>3

\* r is s after the change that e tells of.
Told(e, s, r) ==
  /\ \A i \in Ids \ {e.id} : r[i] = s[i]
  /\ e.change = "deleted" <=> r[e.id] = None

\* A publication leaves a queue within its depth, with the new event, whose last
\* events agree with the store, and without at most the rule it overwrote.
LEMMA EnqueueAgrees ==
  ASSUME NEW q \in Seq(Events), Len(q) <= Depth, NEW e \in Events, NEW s, NEW r,
         LastAgree(q, s), Told(e, s, r)
  PROVE  /\ Enqueue(q, e) \in Seq(Events) /\ Len(Enqueue(q, e)) <= Depth
         /\ LastAgree(Enqueue(q, e), r)
         /\ e.id \in Queued(Enqueue(q, e))
         /\ \A i \in Queued(q) :
              \/ i \in Queued(Enqueue(q, e))
              \/ Len(q) = Depth /\ i \in {q[1].id} \ Queued(Tail(q))
<1>0. Depth \in Nat \ {0} /\ Len(q) \in Nat
  BY RulesAssumption, LenProperties
<1>1. CASE Len(q) = Depth
  <2>1. q # <<>>
    BY <1>0, <1>1
  <2>2. Enqueue(q, e) = Append(Tail(q), e)
    BY <1>1 DEF Enqueue
  <2>3. Tail(q) \in Seq(Events) /\ Len(Tail(q)) = Len(q) - 1
    BY <2>1, TailOfQueue
  <2>4. LastAgree(Tail(q), s)
    BY <2>1, TailAgrees
  <2>5. LastAgree(Append(Tail(q), e), r)
    BY <2>3, <2>4, AppendAgrees DEF Told
  <2>6. /\ Append(Tail(q), e) \in Seq(Events)
        /\ Len(Append(Tail(q), e)) = Len(Tail(q)) + 1
        /\ Queued(Append(Tail(q), e)) = Queued(Tail(q)) \cup {e.id}
    BY <2>3, QueuedAppend
  <2>7. Queued(q) = Queued(Tail(q)) \cup {q[1].id}
    BY <2>1, QueuedTail
  <2>8. Len(Append(Tail(q), e)) <= Depth
    BY <1>0, <1>1, <2>3, <2>6
  <2>9. QED BY <1>1, <2>2, <2>5, <2>6, <2>7, <2>8
<1>2. CASE Len(q) # Depth
  <2>1. Enqueue(q, e) = Append(q, e)
    BY <1>2 DEF Enqueue
  <2>2. /\ Append(q, e) \in Seq(Events)
        /\ Len(Append(q, e)) = Len(q) + 1
        /\ Queued(Append(q, e)) = Queued(q) \cup {e.id}
    BY QueuedAppend
  <2>3. LastAgree(Append(q, e), r)
    BY AppendAgrees DEF Told
  <2>4. Len(Append(q, e)) <= Depth
    BY <1>0, <1>2, <2>2
  <2>5. QED BY <2>1, <2>2, <2>3, <2>4
<1>3. QED BY <1>1, <1>2

(***************************************************************************)
(* The steps                                                               *)
(***************************************************************************)

\* An empty store, an empty queue and no page.
LEMMA RuleInit == Init => RuleInv
<1> SUFFICES ASSUME Init
             PROVE  RuleInv
  OBVIOUS
<1>1. Empty \in [Ids -> Contents \cup {None}]
  BY DEF Empty
<1>2. <<>> \in Seq(Events) /\ Len(<<>>) = 0
  BY EmptySeq
<1>3. Len(queue) <= Depth
  BY <1>2, RulesAssumption DEF Init
<1>4. TypeOK
  BY <1>1, <1>2, <1>3 DEF Init, TypeOK
<1>5. LastAgree(queue, store)
  BY <1>2 DEF Init, LastAgree
<1>6. QED BY <1>4, <1>5 DEF Init, RuleInv, FoundInv, PumpInv, PageInv

\* A change of a rule, by any door, with its event.
LEMMA ChangeStep ==
  ASSUME RuleInv, NEW i \in Ids, NEW c \in Contents \cup {None}, NEW change \in Changes,
         store' = [store EXCEPT ![i] = c], Publish(i, change),
         change = "deleted" <=> c = None,
         UNCHANGED <<pump, found, open, page, listing, listed>>
  PROVE  RuleInv'
<1> DEFINE e == [id |-> i, change |-> change]
           over == IF Len(queue) = Depth THEN {queue[1].id} \ Queued(Tail(queue)) ELSE {}
<1>0. /\ store \in [Ids -> Contents \cup {None}]
      /\ queue \in Seq(Events) /\ Len(queue) <= Depth
      /\ pump \in Events \cup {None} /\ lost \subseteq Ids
      /\ LastAgree(queue, store)
  BY DEF RuleInv, TypeOK
<1>1. e \in Events /\ e.id = i /\ e.change = change
  BY DEF Events
<1>2. /\ store' \in [Ids -> Contents \cup {None}] /\ store'[i] = c
      /\ \A j \in Ids \ {i} : store'[j] = store[j]
  BY <1>0
<1>3. queue' = Enqueue(queue, e) /\ lost' = (lost \cup over) \ {i}
  BY DEF Publish
<1>4. /\ Enqueue(queue, e) \in Seq(Events) /\ Len(Enqueue(queue, e)) <= Depth
      /\ LastAgree(Enqueue(queue, e), store')
      /\ e.id \in Queued(Enqueue(queue, e))
      /\ \A j \in Queued(queue) :
           \/ j \in Queued(Enqueue(queue, e))
           \/ Len(queue) = Depth /\ j \in {queue[1].id} \ Queued(Tail(queue))
  <2>1. Told(e, store, store')
    BY <1>1, <1>2 DEF Told
  <2>2. queue \in Seq(Events) /\ Len(queue) <= Depth /\ LastAgree(queue, store) /\ e \in Events
    BY <1>0, <1>1
  <2> HIDE DEF e
  <2>3. QED BY <2>1, <2>2, EnqueueAgrees
<1>5. i \in Queued(queue')
  BY <1>1, <1>3, <1>4
<1>6. \A j \in Queued(queue) : j \in Queued(queue') \/ j \in over
  BY <1>3, <1>4
<1>7. \A j \in Ids : j # i /\ j \notin lost' => j \notin lost /\ j \notin over
  BY <1>3
<1>8. over \subseteq Ids
  <2>1. CASE Len(queue) = Depth
    <3>1. queue # <<>>
      BY <1>0, <2>1, RulesAssumption
    <3>2. queue[1] \in Events
      BY <1>0, <3>1, TailOfQueue
    <3>3. QED BY <3>2 DEF Events
  <2>2. QED BY <2>1
<1>9. TypeOK'
  BY <1>0, <1>2, <1>3, <1>4, <1>8 DEF RuleInv, TypeOK
<1>10. LastAgree(queue', store')
  BY <1>3, <1>4
<1>11. FoundInv'
  BY DEF RuleInv, FoundInv
<1>12. PumpInv'
  <2>1. SUFFICES ASSUME pump # None, pump.id \notin lost', pump.id \notin Queued(queue')
                 PROVE  /\ pump.change = "deleted" <=> store'[pump.id] = None
                        /\ found # None => found = store'[pump.id]
    BY DEF PumpInv
  <2>2. pump.id \in Ids /\ pump.id # i
    BY <1>0, <1>5, <2>1 DEF Events
  <2>3. pump.id \notin lost /\ pump.id \notin Queued(queue)
    BY <1>6, <1>7, <2>1, <2>2
  <2>4. QED BY <1>2, <2>1, <2>2, <2>3 DEF RuleInv, PumpInv
<1>13. PageInv'
  <2>1. SUFFICES ASSUME open, listed, NEW j \in Ids \ lost', j \notin Queued(queue'),
                        pump = None \/ pump.id # j
                 PROVE  page[j] = store'[j]
    BY DEF PageInv
  <2>2. j # i
    BY <1>5, <2>1
  <2>3. j \notin lost /\ j \notin Queued(queue)
    BY <1>6, <1>7, <2>1, <2>2
  <2>4. QED BY <1>2, <2>1, <2>2, <2>3 DEF RuleInv, PageInv
<1>14. QED BY <1>9, <1>10, <1>11, <1>12, <1>13 DEF RuleInv

\* Every command is such a change.
LEMMA CommandStep ==
  ASSUME RuleInv, AddRule \/ ChangeRule \/ RemoveRule,
         UNCHANGED <<pump, found, open, page, listing, listed>>
  PROVE  RuleInv'
<1>1. CASE AddRule
  <2>1. PICK i \in Ids, c \in Contents :
          store' = [store EXCEPT ![i] = c] /\ Publish(i, "added")
    BY <1>1, Zenon DEF AddRule
  <2>2. "added" \in Changes /\ "added" # "deleted" /\ c # None
    BY RulesAssumption DEF Changes
  <2>3. QED BY <2>1, <2>2, ChangeStep
<1>2. CASE ChangeRule
  <2>1. PICK i \in Ids, c \in Contents :
          store' = [store EXCEPT ![i] = c] /\ Publish(i, "updated")
    BY <1>2, Zenon DEF ChangeRule
  <2>2. "updated" \in Changes /\ "updated" # "deleted" /\ c # None
    BY RulesAssumption DEF Changes
  <2>3. QED BY <2>1, <2>2, ChangeStep
<1>3. CASE RemoveRule
  <2>1. PICK i \in Ids : store' = [store EXCEPT ![i] = None] /\ Publish(i, "deleted")
    BY <1>3, Zenon DEF RemoveRule
  <2>2. "deleted" \in Changes
    BY DEF Changes
  <2>3. QED BY <2>1, <2>2, ChangeStep
<1>4. QED BY <1>1, <1>2, <1>3

\* The page and its list.
LEMMA PageStep ==
  ASSUME RuleInv, Open \/ Close \/ ListLoad \/ ListReply
  PROVE  RuleInv'
<1> USE DEF RuleInv
<1>0. TypeOK
  OBVIOUS
<1>1. CASE Open \/ Close
  <2>1. UNCHANGED <<store, queue, pump, found, lost>>
    BY <1>1 DEF Open, Close
  <2>2. TypeOK'
    BY <1>0, <1>1, <2>1 DEF TypeOK, Open, Close, Empty
  <2>3. PageInv'
    BY <1>1 DEF PageInv, Open, Close
  <2>4. QED BY <2>1, <2>2, <2>3 DEF FoundInv, PumpInv
<1>2. CASE ListLoad
  <2>1. UNCHANGED <<store, queue, pump, found, open, page, listed, lost>>
    BY <1>2 DEF ListLoad
  <2>2. TypeOK'
    BY <1>0, <1>2, <2>1 DEF TypeOK, ListLoad
  <2>3. QED BY <2>1, <2>2 DEF FoundInv, PumpInv, PageInv
<1>3. CASE ListReply
  <2>1. /\ UNCHANGED <<store, queue, pump, found, open>>
        /\ lost' = {i \in Ids : IF Pending(i) THEN i \in lost ELSE page'[i] # store[i]}
        /\ listing # None /\ listing' = None /\ listed' = TRUE
        /\ page' = page \/ \E n \in Ids : page' = FirstRows(n)
    BY <1>3 DEF ListReply
  <2>2. page' \in [Ids -> Contents \cup {None}]
    BY <1>0, <2>1 DEF TypeOK, FirstRows
  <2>3. TypeOK'
    BY <1>0, <2>1, <2>2 DEF TypeOK
  <2>4. PumpInv'
    <3>1. pump # None => Pending(pump.id) /\ pump.id \in Ids
      BY <1>0 DEF Pending, TypeOK, Events
    <3>2. pump # None => (pump.id \in lost' <=> pump.id \in lost)
      BY <2>1, <3>1
    <3>3. QED BY <2>1, <3>2 DEF PumpInv
  <2>5. PageInv'
    BY <2>1 DEF PageInv, Pending
  <2>6. QED BY <2>1, <2>3, <2>4, <2>5 DEF FoundInv
<1>4. QED BY <1>1, <1>2, <1>3

\* The pump takes an event.
LEMMA TakeStep ==
  ASSUME RuleInv, PumpTake
  PROVE  RuleInv'
<1> USE DEF RuleInv
<1>0. /\ queue \in Seq(Events) /\ queue # <<>> /\ pump = None /\ found = None
      /\ UNCHANGED <<store, found, open, page, listing, listed, lost>>
      /\ queue' = Tail(queue) /\ pump' = IF open THEN queue[1] ELSE None
  BY TailOfQueue DEF PumpTake, Listeners, TypeOK, FoundInv
<1>1. /\ Tail(queue) \in Seq(Events) /\ Len(Tail(queue)) = Len(queue) - 1
      /\ Len(queue) \in Nat \ {0} /\ queue[1] \in Events
  BY <1>0, TailOfQueue
<1>2. Queued(queue) = Queued(Tail(queue)) \cup {queue[1].id}
  BY <1>0, QueuedTail
<1>3. Len(queue') <= Depth
  BY <1>0, <1>1, RulesAssumption DEF TypeOK
<1>4. TypeOK'
  BY <1>0, <1>1, <1>3 DEF TypeOK
<1>5. LastAgree(queue', store')
  BY <1>0, TailAgrees
<1>6. FoundInv'
  BY <1>0 DEF FoundInv
<1>7. PumpInv'
  <2>1. SUFFICES ASSUME queue[1].id \notin Queued(Tail(queue))
                 PROVE  queue[1].change = "deleted" <=> store[queue[1].id] = None
    BY <1>0 DEF PumpInv
  <2>2. \A j \in 1..Len(queue) : j > 1 => queue[j].id # queue[1].id
    <3>1. SUFFICES ASSUME NEW j \in 1..Len(queue), j > 1
                   PROVE  queue[j].id \in Queued(Tail(queue))
      BY <2>1
    <3>2. j - 1 \in 1..Len(Tail(queue))
      BY <1>1, <3>1
    <3>3. Tail(queue)[j - 1] = queue[j]
      BY <1>0, <1>1, <3>2, TailOfQueue
    <3>4. Queued(Tail(queue)) = {Tail(queue)[k].id : k \in 1..Len(Tail(queue))}
      BY <1>1, QueuedByPlace
    <3>5. QED BY <3>2, <3>3, <3>4
  <2>3. 1 \in 1..Len(queue)
    BY <1>1
  <2>4. QED BY <2>2, <2>3 DEF LastAgree
<1>8. PageInv'
  <2>1. CASE open
    BY <1>0, <1>1, <1>2, <2>1, RulesAssumption DEF PageInv
  <2>2. QED BY <1>0, <2>1 DEF PageInv
<1>9. QED BY <1>4, <1>5, <1>6, <1>7, <1>8

\* The pump loads the rule of its event; one that is gone has its deletion
\* queued, so there is nothing the page would miss.
LEMMA LoadStep ==
  ASSUME RuleInv, PumpLoad
  PROVE  RuleInv'
<1> USE DEF RuleInv
<1>0. /\ pump # None /\ pump.change # "deleted" /\ found = None
      /\ UNCHANGED <<store, queue, open, page, listing, listed>>
  BY DEF PumpLoad
<1>1. pump \in Events /\ pump.id \in Ids
  BY <1>0 DEF TypeOK, Events
<1>2. LastAgree(queue', store')
  BY <1>0
<1>3. CASE found' = store[pump.id] /\ lost' = lost
           /\ pump' = IF store[pump.id] = None THEN None ELSE pump
  <2>1. TypeOK'
    BY <1>0, <1>1, <1>3 DEF TypeOK
  <2>2. FoundInv' /\ PumpInv'
    BY <1>0, <1>3 DEF FoundInv, PumpInv
  <2>3. PageInv'
    BY <1>0, <1>1, <1>3 DEF PageInv, PumpInv
  <2>4. QED BY <1>2, <2>1, <2>2, <2>3
<1>4. CASE found' = found /\ lost' = Missed /\ pump' = None
  <2>1. TypeOK'
    BY <1>0, <1>1, <1>4 DEF TypeOK, Missed
  <2>2. FoundInv' /\ PumpInv'
    BY <1>0, <1>4 DEF FoundInv, PumpInv
  <2>3. PageInv'
    BY <1>0, <1>4 DEF PageInv, Missed
  <2>4. QED BY <1>2, <2>1, <2>2, <2>3
<1>5. QED BY <1>3, <1>4 DEF PumpLoad

\* The pump pushes what it has.
LEMMA PushStep ==
  ASSUME RuleInv, PumpPush
  PROVE  RuleInv'
<1> USE DEF RuleInv
<1>0. /\ pump # None /\ (pump.change = "deleted" \/ found # None)
      /\ \/ page' = (IF open THEN Pushed ELSE page) /\ lost' = lost
         \/ lost' = Missed /\ page' = page
      /\ pump' = None /\ found' = None
      /\ UNCHANGED <<store, queue, open, listing, listed>>
  BY DEF PumpPush
<1>1. /\ pump \in Events /\ pump.id \in Ids
      /\ page \in [Ids -> Contents \cup {None}] /\ found \in Contents \cup {None}
  BY <1>0 DEF TypeOK, Events
<1>2. TypeOK'
  BY <1>0, <1>1 DEF TypeOK, Pushed, Missed
<1>3. LastAgree(queue', store') /\ FoundInv' /\ PumpInv'
  BY <1>0 DEF FoundInv, PumpInv
<1>4. PageInv'
  <2>1. SUFFICES ASSUME open, listed, NEW i \in Ids \ lost', i \notin Queued(queue)
                 PROVE  page'[i] = store[i]
    BY <1>0 DEF PageInv
  <2>2. CASE page' = Pushed /\ lost' = lost
    <3>1. CASE i = pump.id
      BY <1>0, <1>1, <2>1, <2>2, <3>1 DEF PumpInv, Pushed
    <3>2. CASE i # pump.id
      BY <1>0, <1>1, <2>1, <2>2, <3>2 DEF PageInv, Pushed
    <3>3. QED BY <3>1, <3>2
  <2>3. CASE lost' = Missed /\ page' = page
    BY <1>0, <1>1, <2>1, <2>3 DEF PageInv, Missed
  <2>4. QED BY <1>0, <2>1, <2>2, <2>3
<1>5. QED BY <1>2, <1>3, <1>4

\* Whoever else is in the system: a step of it that is one of these or leaves
\* the rules, the queue and the page alone keeps the invariant.
LEMMA RuleStep ==
  ASSUME RuleInv, Next \/ UNCHANGED ruleVars
  PROVE  RuleInv'
<1>1. CASE UNCHANGED ruleVars
  BY <1>1 DEF ruleVars, RuleInv, TypeOK, FoundInv, PumpInv, PageInv
<1>2. ASSUME NEW t \in Tasks,
             \/ CmdRuleCreate(t) \/ CmdRuleUpdate(t) \/ CmdRuleDelete(t)
             \/ PostRules(t) \/ RulesItem(t)
      PROVE  RuleInv'
  BY <1>2, CommandStep DEF CmdRuleCreate, CmdRuleUpdate, CmdRuleDelete, PostRules,
                           RulesItem, Serve
<1>3. CASE Open \/ Close \/ ListLoad \/ ListReply
  BY <1>3, PageStep
<1>4. CASE PumpTake \/ PumpLoad \/ PumpPush
  BY <1>4, TakeStep, LoadStep, PushStep
<1>5. QED BY <1>1, <1>2, <1>3, <1>4 DEF Next

(***************************************************************************)
(* The theorems                                                            *)
(***************************************************************************)

\* In every behaviour, the last event in the queue about a rule tells of the
\* store as it is, and a page with its list is behind only by the events under
\* way and the lost ones.
THEOREM RuleInvariance == Spec => []RuleInv
<1>1. Init => RuleInv
  BY RuleInit
<1>2. RuleInv /\ [Next]_vars => RuleInv'
  BY RuleStep DEF vars, ruleVars
<1>3. QED BY <1>1, <1>2, PTL DEF Spec

\* The state is always typed, and the queue of the subscriber never exceeds its
\* depth, however many changes the pump is behind.
THEOREM RulesTyped == Spec => []TypeOK
<1>1. RuleInv => TypeOK
  BY DEF RuleInv
<1>2. QED BY <1>1, RuleInvariance, PTL

\* The invariant tells, once everything is drained, what the page shows.
LEMMA DrainedPageAgrees == RuleInv => PageShowsRules
BY NothingQueued DEF RuleInv, PageInv, PageShowsRules, RulesAgree

\* Once every event is drained, an open page with its list shows the rules that
\* are stored, but for those whose events were lost: on_rule_changed, which
\* reads the store again, never leaves the page with an older rule.
THEOREM PageFollowsStore == Spec => []PageShowsRules
BY RuleInvariance, DrainedPageAgrees, PTL

(***************************************************************************)
(* The rules in the whole: DeviceEvents adds steps and guards, and none of *)
(* them touches the rules, their queue or the rules of the page.           *)
(***************************************************************************)

\* A step of the whole system is a step of the rules or leaves them alone.
LEMMA RulesPart ==
  ASSUME DevNext
  PROVE  Next \/ UNCHANGED ruleVars
<1>1. CASE Boot \/ ForEachDevice \/ OnMqttRx \/ CopyPool \/ DeviceGet \/ ReadAttrs \/ Answered
  BY <1>1 DEF Boot, ForEachDevice, OnMqttRx, CopyPool, DeviceGet, ReadAttrs, Answered,
              vars, ruleVars
<1>2. CASE Join \/ Leave \/ Report \/ DeviceState \/ RuleActs \/ Published \/ MqttConnected
  BY <1>2 DEF Join, Leave, Removed, Report, DeviceState, RuleActs, AttrCommand, Published,
              MqttConnected, Elsewhere, ruleVars
<1>3. ASSUME NEW t \in Tasks, DeviceRename(t) \/ DeviceDelete(t) \/ AttrSet(t)
      PROVE  UNCHANGED ruleVars
  BY <1>3 DEF DeviceRename, DeviceDelete, Removed, AttrSet, AttrCommand, Elsewhere, ruleVars
<1>4. ASSUME NEW t \in Tasks, RuleCommand(t)
      PROVE  Next
  BY <1>4 DEF RuleCommand, Next
<1>5. ASSUME NEW a \in Publishers, HaPublish(a)
      PROVE  UNCHANGED ruleVars
  BY <1>5 DEF HaPublish, vars, ruleVars
<1>6. CASE OpenPage \/ ClosePage \/ RuleList \/ RuleListSent
  BY <1>6 DEF OpenPage, ClosePage, RuleList, RuleListSent, Next
<1>7. CASE DrainJoin \/ DrainLeave \/ DrainMessage
  BY <1>7 DEF DrainJoin, DrainLeave, DrainMessage, vars, ruleVars
<1>8. ASSUME NEW type \in AttrTypes, DrainAttr(type)
      PROVE  UNCHANGED ruleVars
  BY <1>8 DEF DrainAttr, vars, ruleVars
<1>9. CASE DrainRule \/ LoadRule \/ PushRule
  BY <1>9 DEF DrainRule, LoadRule, PushRule, Next
<1>10. QED BY <1>1, <1>2, <1>3, <1>4, <1>5, <1>6, <1>7, <1>8, <1>9 DEF DevNext

\* The whole system implements RulePush: whatever else it does, the rules, their
\* queue and the page change as RulePush says or not at all.
THEOREM SystemImplementsRules == DevSpec => Init /\ [][Next]_ruleVars
<1>1. DevInit => Init
  BY DEF DevInit
<1>2. [DevNext]_allVars => [Next]_ruleVars
  BY RulesPart DEF allVars, vars, ruleVars
<1>3. QED BY <1>1, <1>2, PTL DEF DevSpec

\* The invariant of the rules holds in the whole system.
THEOREM RulesInWholeSystem == DevSpec => []RuleInv
<1>1. Init => RuleInv
  BY RuleInit
<1>2. RuleInv /\ [Next]_ruleVars => RuleInv'
  BY RuleStep
<1>3. QED BY <1>1, <1>2, SystemImplementsRules, PTL

\* Whatever joins, leaves, reports, boots and reconnects in between, a drained
\* pump leaves an open page that has its list with the rules that are stored.
THEOREM PageFollowsRules == DevSpec => []PageShowsRules
BY RulesInWholeSystem, DrainedPageAgrees, PTL

(***************************************************************************)
(* The devices: what the page and Home Assistant show of them.  Presence   *)
(* (join, leave) and values (report, optimistic) each have two queues and  *)
(* so two orders; a mirror is "astray" when it may have lost its event.    *)
(***************************************************************************)

\* The events of a type: a device and what has become of it.
EventsOf(type) ==
  [id : Devices, arg : CASE type = "join"  -> DevNames
                         [] type = "leave" -> {None}
                         [] OTHER          -> Values]

Snapshots == [id : Devices, name : DevNames]
Answers == [about : SUBSET Devices, left : SUBSET Devices,
            rows : [Devices -> Values \cup {None}]]

DevTyped ==
  /\ mirror \in {"rules", "page", "broker"} /\ boot \in Nat /\ open \in BOOLEAN
  /\ pool \in [Devices -> DevNames \cup {None}] /\ shadow \in [Devices -> Values]
  /\ DOMAIN devQueue = DevTypes
  /\ \A type \in DevTypes : devQueue[type] \in Seq(EventsOf(type))
  /\ devs \in [Devices -> Values \cup {None, NoValue}] /\ devsListed \in BOOLEAN
  /\ rest \in Answers \cup {None}
  /\ snap \in [Publishers -> Snapshots \cup {None}]
  /\ todo \in (SUBSET Devices) \cup {None}
  /\ ha \in [Devices -> DevNames \cup {None}]

\* Each mirror is fed only where it is watched; a page that is not open has no
\* list, and its first answer is about every device.
ScopeInv ==
  /\ todo # None => mirror = "broker" /\ Reached("ha")
  /\ rest # None \/ devsListed => mirror = "page" /\ open
  /\ rest # None => rest.left \subseteq rest.about
  /\ rest # None /\ ~devsListed => rest.about = Devices

\* The last event about d in the queue q tells v.
Latest(q, d, v) ==
  \A k \in 1..Len(q) :
    q[k].id = d /\ (\A j \in 1..Len(q) : j > k => q[j].id # d) => q[k].arg = v

\* Of a device that is not astray, joins or leaves wait, not both, and the ones
\* that wait tell whether it is there.
PresenceInv(d, m) ==
  <<d, m>> \notin astray =>
    /\ ~(Waiting(d, "join") /\ Waiting(d, "leave"))
    /\ Waiting(d, "join") => pool[d] # None
    /\ Waiting(d, "leave") => pool[d] = None

\* Task a is about to publish d.
About(a, d) == snap[a] # None /\ snap[a].id = d

\* for_each_device has yet to come to the device.
Owed(d) == pool[d] # None /\ (todo = None \/ d \in todo)

\* Home Assistant shows the device as it is, once the one publication under way
\* and the device's turn after a connection are over.
HaInv(d) ==
  mirror = "broker" /\ <<d, "ha">> \notin astray /\ Settled(d, "join") =>
    /\ \A a, b \in Publishers : About(a, d) /\ About(b, d) => a = b
    /\ ~Owed(d) => IF Publishing(d)
                   THEN \A a \in Publishers : About(a, d) => snap[a].name = pool[d]
                   ELSE ha[d] = pool[d]

\* The page has a row for the device, or will have by the answer under way, just
\* when it is there.
RowInv(d) ==
  open /\ <<d, "row">> \notin astray /\ Settled(d, "join") =>
    /\ Answering(d) => (d \in rest.left \/ rest.rows[d] # None <=> pool[d] # None)
    /\ ~Answering(d) /\ devsListed => (devs[d] = None <=> pool[d] = None)

\* Of an attribute that is not astray, reports or commands wait, not both, and the
\* last one tells its value; once none waits, the row has it or no value, or will
\* have by the answer under way.
ValueInv(d) ==
  <<d, "value">> \notin astray =>
    /\ ~(Waiting(d, "report") /\ Waiting(d, "optimistic"))
    /\ \A type \in {"report", "optimistic"} : Latest(devQueue[type], d, shadow[d])
    /\ open /\ Settled(d, "report") =>
         /\ Answering(d) /\ d \notin rest.left => rest.rows[d] \in {None, shadow[d]}
         /\ ~Answering(d) /\ devsListed => devs[d] \in {None, NoValue, shadow[d]}

DevInv ==
  /\ DevTyped /\ ScopeInv
  /\ \A d \in Devices : /\ PresenceInv(d, "row") /\ PresenceInv(d, "ha")
                        /\ HaInv(d) /\ RowInv(d) /\ ValueInv(d)

\* A mirror that was astray does not come right by the step.
SameMark(d, m) == <<d, m>> \notin astray' => <<d, m>> \notin astray

\* Who is about to publish the device, and under which name, stays.
SamePublications(d) ==
  \A a \in Publishers : snap'[a] = snap[a] \/ (~About(a, d) /\ ~About(a, d)')

(***************************************************************************)
(* Queues of device events                                                 *)
(***************************************************************************)

\* No event is the last one of a device that none is about.
LEMMA LatestOfNone ==
  ASSUME NEW S, NEW q \in Seq(S), NEW d, d \notin Queued(q), NEW v
  PROVE  Latest(q, d, v)
BY QueuedByPlace DEF Latest

\* Taking the oldest event leaves the last ones, unless it was one itself.
LEMMA LatestOfTail ==
  ASSUME NEW S, NEW q \in Seq(S), q # <<>>, NEW d, NEW v, Latest(q, d, v)
  PROVE  /\ Latest(Tail(q), d, v)
         /\ q[1].id = d /\ d \notin Queued(Tail(q)) => q[1].arg = v
<1>1. Latest(Tail(q), d, v)
  <2> SUFFICES ASSUME NEW k \in 1..Len(Tail(q)), Tail(q)[k].id = d,
                      \A j \in 1..Len(Tail(q)) : j > k => Tail(q)[j].id # d
               PROVE  Tail(q)[k].arg = v
    BY DEF Latest
  <2>1. k + 1 \in 1..Len(q) /\ Tail(q)[k] = q[k + 1]
    BY TailOfQueue
  <2>2. ASSUME NEW j \in 1..Len(q), j > k + 1
        PROVE  q[j].id # d
    <3>1. j - 1 \in 1..Len(Tail(q)) /\ j - 1 > k /\ Tail(q)[j - 1] = q[j]
      BY <2>2, TailOfQueue
    <3>2. QED BY <3>1
  <2>3. QED BY <2>1, <2>2 DEF Latest
<1>2. ASSUME q[1].id = d, d \notin Queued(Tail(q))
      PROVE  q[1].arg = v
  <2>1. ASSUME NEW j \in 1..Len(q), j > 1
        PROVE  q[j].id # d
    <3>1. j - 1 \in 1..Len(Tail(q)) /\ Tail(q)[j - 1] = q[j]
      BY <2>1, TailOfQueue
    <3>2. Tail(q) \in Seq(S)
      BY TailOfQueue
    <3>3. Tail(q)[j - 1].id \in Queued(Tail(q))
      BY <3>1, <3>2, QueuedByPlace
    <3>4. QED BY <1>2, <3>1, <3>3
  <2>2. 1 \in 1..Len(q)
    BY TailOfQueue
  <2>3. QED BY <1>2, <2>1, <2>2 DEF Latest
<1>3. QED BY <1>1, <1>2

\* A new event is the last one of its device and leaves those of the others.
LEMMA LatestOfAppend ==
  ASSUME NEW S, NEW q \in Seq(S), NEW e \in S
  PROVE  /\ Latest(Append(q, e), e.id, e.arg)
         /\ \A d, v : d # e.id /\ Latest(q, d, v) => Latest(Append(q, e), d, v)
<1>1. /\ Len(Append(q, e)) = Len(q) + 1 /\ Len(q) \in Nat
      /\ \A k \in 1..Len(q) : Append(q, e)[k] = q[k]
      /\ Append(q, e)[Len(q) + 1] = e
  BY AppendProperties, LenProperties
<1>2. Latest(Append(q, e), e.id, e.arg)
  <2> SUFFICES ASSUME NEW k \in 1..(Len(q) + 1),
                      \A j \in 1..(Len(q) + 1) : j > k => Append(q, e)[j].id # e.id
               PROVE  Append(q, e)[k].arg = e.arg
    BY <1>1 DEF Latest
  <2>1. k = Len(q) + 1
    <3>1. Len(q) + 1 \in 1..(Len(q) + 1)
      BY <1>1
    <3>2. ~(Len(q) + 1 > k)
      BY <1>1, <3>1
    <3>3. QED BY <1>1, <3>2
  <2>2. QED BY <1>1, <2>1
<1>3. ASSUME NEW d, NEW v, d # e.id, Latest(q, d, v)
      PROVE  Latest(Append(q, e), d, v)
  <2> SUFFICES ASSUME NEW k \in 1..(Len(q) + 1), Append(q, e)[k].id = d,
                      \A j \in 1..(Len(q) + 1) : j > k => Append(q, e)[j].id # d
               PROVE  Append(q, e)[k].arg = v
    BY <1>1 DEF Latest
  <2>1. k \in 1..Len(q) /\ Append(q, e)[k] = q[k]
    BY <1>1, <1>3
  <2>2. \A j \in 1..Len(q) : j > k => q[j].id # d
    BY <1>1
  <2>3. QED BY <1>3, <2>1, <2>2 DEF Latest
<1>4. QED BY <1>2, <1>3

\* A publication puts its event last; of the other devices, only the one whose
\* last event was overwritten is no longer in the queue.
LEMMA EnqueueDevice ==
  ASSUME NEW S, NEW q \in Seq(S), NEW e \in S
  PROVE  /\ Enqueue(q, e) \in Seq(S)
         /\ e.id \in Queued(Enqueue(q, e)) /\ Latest(Enqueue(q, e), e.id, e.arg)
         /\ \A d : d # e.id /\ (Len(q) = Depth => d \notin {q[1].id} \ Queued(Tail(q))) =>
                     (d \in Queued(Enqueue(q, e)) <=> d \in Queued(q))
         /\ \A d, v : d # e.id /\ Latest(q, d, v) => Latest(Enqueue(q, e), d, v)
<1>0. Depth \in Nat \ {0} /\ Len(q) \in Nat
  BY RulesAssumption, LenProperties
<1>1. CASE Len(q) = Depth
  <2>1. q # <<>>
    BY <1>0, <1>1
  <2>2. Enqueue(q, e) = Append(Tail(q), e)
    BY <1>1 DEF Enqueue
  <2>3. Tail(q) \in Seq(S)
    BY <2>1, TailOfQueue
  <2>4. /\ Append(Tail(q), e) \in Seq(S)
        /\ Queued(Append(Tail(q), e)) = Queued(Tail(q)) \cup {e.id}
    BY <2>3, QueuedAppend
  <2>5. Queued(q) = Queued(Tail(q)) \cup {q[1].id}
    BY <2>1, QueuedTail
  <2>6. /\ Latest(Append(Tail(q), e), e.id, e.arg)
        /\ \A d, v : d # e.id /\ Latest(Tail(q), d, v) => Latest(Append(Tail(q), e), d, v)
    BY <2>3, LatestOfAppend
  <2>7. \A d, v : Latest(q, d, v) => Latest(Tail(q), d, v)
    BY <2>1, LatestOfTail
  <2>8. QED BY <1>1, <2>2, <2>4, <2>5, <2>6, <2>7
<1>2. CASE Len(q) # Depth
  <2>1. Enqueue(q, e) = Append(q, e)
    BY <1>2 DEF Enqueue
  <2>2. /\ Append(q, e) \in Seq(S) /\ Queued(Append(q, e)) = Queued(q) \cup {e.id}
    BY QueuedAppend
  <2>3. /\ Latest(Append(q, e), e.id, e.arg)
        /\ \A d, v : d # e.id /\ Latest(q, d, v) => Latest(Append(q, e), d, v)
    BY LatestOfAppend
  <2>4. QED BY <1>2, <2>1, <2>2, <2>3
<1>3. QED BY <1>1, <1>2

\* What event_bus_publish does to the queues and to the devices that are astray:
\* the device of the event is on the right way only if its rival type is empty.
LEMMA PostEffect ==
  ASSUME DevTyped, NEW type \in DevTypes, NEW d \in Devices, NEW x,
         [id |-> d, arg |-> x] \in EventsOf(type), Post(type, d, x)
  PROVE  /\ DOMAIN devQueue' = DevTypes
         /\ \A u \in DevTypes : devQueue'[u] \in Seq(EventsOf(u))
         /\ \A u \in DevTypes \ {type} : devQueue'[u] = devQueue[u]
         /\ \A e, m : m \notin Mirrors(type) \/ e # d => SameMark(e, m)
         /\ \A e, m : m \in Mirrors(type) /\ e # d /\ <<e, m>> \notin astray' =>
              /\ e \in Queued(devQueue'[type]) <=> e \in Queued(devQueue[type])
              /\ \A v : Latest(devQueue[type], e, v) => Latest(devQueue'[type], e, v)
         /\ \A m \in Mirrors(type) : <<d, m>> \notin astray' =>
              /\ d \in Queued(devQueue'[type]) /\ Latest(devQueue'[type], d, x)
              /\ d \notin Queued(devQueue[Rival[type]])
              /\ d \in Queued(devQueue[type]) => <<d, m>> \notin astray
<1> DEFINE q == devQueue[type]
           event == [id |-> d, arg |-> x]
<1>1. q \in Seq(EventsOf(type)) /\ DOMAIN devQueue = DevTypes
  BY DEF DevTyped
<1>2. /\ Enqueue(q, event) \in Seq(EventsOf(type))
      /\ d \in Queued(Enqueue(q, event)) /\ Latest(Enqueue(q, event), d, x)
      /\ \A e : e # d /\ (Len(q) = Depth => e \notin {q[1].id} \ Queued(Tail(q))) =>
                  (e \in Queued(Enqueue(q, event)) <=> e \in Queued(q))
      /\ \A e, v : e # d /\ Latest(q, e, v) => Latest(Enqueue(q, event), e, v)
  <2>1. event.id = d /\ event.arg = x
    OBVIOUS
  <2> HIDE DEF q, event
  <2>2. event \in EventsOf(type)
    BY DEF event
  <2>3. QED BY <1>1, <2>1, <2>2, EnqueueDevice
<1>3. CASE ~Subscribed
  <2>1. devQueue' = devQueue /\ astray' = astray \cup ({d} \X Mirrors(type))
    BY <1>3 DEF Post
  <2>2. QED BY <2>1, <1>1 DEF SameMark, DevTyped
<1>4. CASE Subscribed
  <2> DEFINE mirrors == {d} \X Mirrors(type)
             over == IF Len(q) = Depth THEN {q[1].id} \ Queued(Tail(q)) ELSE {}
             crossed == Waiting(d, Rival[type])
                          \/ (Waiting(d, type) /\ mirrors \cap astray # {})
  <2>1. devQueue' = [devQueue EXCEPT ![type] = Enqueue(q, event)]
    BY <1>4 DEF Post
  <2>2. astray' = ((astray \cup over \X Mirrors(type)) \ mirrors)
                     \cup (IF crossed THEN mirrors ELSE {})
    BY <1>4 DEF Post
  <2>3. /\ DOMAIN devQueue' = DevTypes /\ devQueue'[type] = Enqueue(q, event)
        /\ \A u \in DevTypes \ {type} : devQueue'[u] = devQueue[u]
    BY <1>1, <2>1
  <2>4. \A u \in DevTypes : devQueue'[u] \in Seq(EventsOf(u))
    BY <1>2, <2>3 DEF DevTyped
  <2>5. \A e, m : m \notin Mirrors(type) \/ e # d => SameMark(e, m)
    BY <2>2 DEF SameMark
  <2>6. ASSUME NEW e, NEW m, m \in Mirrors(type), e # d, <<e, m>> \notin astray'
        PROVE  e \notin over
    BY <2>2, <2>6
  <2>7. ASSUME NEW m \in Mirrors(type), <<d, m>> \notin astray'
        PROVE  /\ ~Waiting(d, Rival[type])
               /\ Waiting(d, type) => <<d, m>> \notin astray
    <3>1. ~crossed
      BY <2>2, <2>7
    <3>2. QED BY <3>1
  <2>8. ASSUME NEW e, NEW m, m \in Mirrors(type), e # d, <<e, m>> \notin astray'
        PROVE  /\ e \in Queued(devQueue'[type]) <=> e \in Queued(q)
               /\ \A v : Latest(q, e, v) => Latest(devQueue'[type], e, v)
    BY <1>2, <2>3, <2>6, <2>8
  <2> HIDE DEF q, event, mirrors, over, crossed
  <2>9. q = devQueue[type]
    BY DEF q
  <2>10. QED BY <1>2, <2>3, <2>4, <2>5, <2>7, <2>8, <2>9 DEF Waiting
<1>5. QED BY <1>3, <1>4

\* What a drain does to them: the oldest event goes, and when none of its device
\* is left in the queue, it was the last one.
LEMMA DrainEffect ==
  ASSUME DevTyped, NEW type \in DevTypes, devQueue[type] # <<>>, Drained(type),
         NEW d, d = Head(devQueue[type]).id
  PROVE  /\ d \in Devices /\ Waiting(d, type)
         /\ Head(devQueue[type]) \in EventsOf(type)
         /\ DOMAIN devQueue' = DevTypes
         /\ \A u \in DevTypes : devQueue'[u] \in Seq(EventsOf(u))
         /\ \A u \in DevTypes \ {type} : devQueue'[u] = devQueue[u]
         /\ \A e : Waiting(e, type)' => Waiting(e, type)
         /\ \A e : e # d => (Waiting(e, type)' <=> Waiting(e, type))
         /\ \A e, v : Latest(devQueue[type], e, v) => Latest(devQueue'[type], e, v)
         /\ \A v : ~Waiting(d, type)' /\ Latest(devQueue[type], d, v) =>
                     Head(devQueue[type]).arg = v
<1> DEFINE q == devQueue[type]
<1>1. q \in Seq(EventsOf(type)) /\ q # <<>> /\ DOMAIN devQueue = DevTypes
  BY DEF DevTyped
<1>2. /\ DOMAIN devQueue' = DevTypes /\ devQueue'[type] = Tail(q)
      /\ \A u \in DevTypes \ {type} : devQueue'[u] = devQueue[u]
  BY <1>1 DEF Drained
<1> HIDE DEF q
<1>3. Tail(q) \in Seq(EventsOf(type)) /\ Head(q) = q[1] /\ q[1] \in EventsOf(type)
  BY <1>1, TailOfQueue
<1>4. q[1].id = d /\ d \in Devices
  BY <1>3 DEF q, EventsOf
<1>5. Queued(q) = Queued(Tail(q)) \cup {d}
  BY <1>1, <1>4, QueuedTail
<1>6. \A e, v : Latest(q, e, v) =>
        /\ Latest(Tail(q), e, v)
        /\ q[1].id = e /\ e \notin Queued(Tail(q)) => q[1].arg = v
  BY <1>1, LatestOfTail
<1>7. \A u \in DevTypes : devQueue'[u] \in Seq(EventsOf(u))
  BY <1>2, <1>3 DEF DevTyped
<1>8. \A e : /\ Waiting(e, type) <=> e \in Queued(q)
             /\ Waiting(e, type)' <=> e \in Queued(Tail(q))
  BY <1>2 DEF Waiting, q
<1>9. QED BY <1>2, <1>3, <1>4, <1>5, <1>6, <1>7, <1>8 DEF q

(***************************************************************************)
(* What a step that does not touch a part of the invariant leaves of it    *)
(***************************************************************************)

\* The rival of a type is the other one of its two queues.
LEMMA Rivals ==
  /\ Rival["join"] = "leave" /\ Rival["leave"] = "join"
  /\ Rival["report"] = "optimistic" /\ Rival["optimistic"] = "report"
BY DEF Rival

\* A device is settled when neither of the two queues has an event about it.
LEMMA SettledMeans ==
  ASSUME NEW d
  PROVE  /\ Settled(d, "join") <=> ~Waiting(d, "join") /\ ~Waiting(d, "leave")
         /\ Settled(d, "join")' <=> ~Waiting(d, "join")' /\ ~Waiting(d, "leave")'
         /\ Settled(d, "report") <=> ~Waiting(d, "report") /\ ~Waiting(d, "optimistic")
         /\ Settled(d, "report")' <=> ~Waiting(d, "report")' /\ ~Waiting(d, "optimistic")'
BY Rivals DEF Settled

\* Who waits depends on the queue of the type alone.
LEMMA SameQueue ==
  ASSUME NEW type, devQueue'[type] = devQueue[type]
  PROVE  \A d : Waiting(d, type)' <=> Waiting(d, type)
BY DEF Waiting

LEMMA KeepPresence ==
  ASSUME NEW d, NEW m, PresenceInv(d, m), SameMark(d, m),
         Waiting(d, "join")' => Waiting(d, "join"),
         Waiting(d, "leave")' => Waiting(d, "leave"),
         pool'[d] = None <=> pool[d] = None
  PROVE  PresenceInv(d, m)'
BY DEF PresenceInv, SameMark

LEMMA KeepHa ==
  ASSUME NEW d, HaInv(d), SameMark(d, "ha"), mirror' = mirror,
         Settled(d, "join")' => Settled(d, "join"),
         pool'[d] = pool[d], Owed(d) => Owed(d)',
         SamePublications(d),
         ha'[d] = ha[d]
  PROVE  HaInv(d)'
<1>1. SUFFICES ASSUME mirror' = "broker", <<d, "ha">> \notin astray', Settled(d, "join")'
               PROVE  /\ \A a, b \in Publishers : About(a, d)' /\ About(b, d)' => a = b
                      /\ ~Owed(d)' => IF Publishing(d)'
                           THEN \A a \in Publishers : About(a, d)' => snap'[a].name = pool'[d]
                           ELSE ha'[d] = pool'[d]
  BY DEF HaInv
<1>2. \A a \in Publishers : About(a, d)' <=> About(a, d)
  BY DEF About, SamePublications
<1>3. /\ Publishing(d) <=> \E a \in Publishers : About(a, d)
      /\ Publishing(d)' <=> \E a \in Publishers : About(a, d)'
  BY DEF Publishing, About
<1>4. \A a \in Publishers : About(a, d) => snap'[a] = snap[a]
  BY DEF SamePublications
<1>5. /\ \A a, b \in Publishers : About(a, d) /\ About(b, d) => a = b
      /\ ~Owed(d) => IF Publishing(d)
                     THEN \A a \in Publishers : About(a, d) => snap[a].name = pool[d]
                     ELSE ha[d] = pool[d]
  BY <1>1 DEF HaInv, SameMark
<1>6. QED BY <1>2, <1>3, <1>4, <1>5

LEMMA KeepRow ==
  ASSUME NEW d, RowInv(d), SameMark(d, "row"),
         Settled(d, "join")' => Settled(d, "join"),
         UNCHANGED <<open, rest, devsListed>>,
         devs'[d] = None <=> devs[d] = None, pool'[d] = None <=> pool[d] = None
  PROVE  RowInv(d)'
BY DEF RowInv, SameMark, Answering

LEMMA KeepValue ==
  ASSUME NEW d, ValueInv(d), SameMark(d, "value"),
         <<d, "value">> \notin astray' =>
           \A type \in {"report", "optimistic"} :
             /\ Waiting(d, type)' <=> Waiting(d, type)
             /\ Latest(devQueue[type], d, shadow[d]) => Latest(devQueue'[type], d, shadow[d]),
         shadow'[d] = shadow[d], UNCHANGED <<open, rest, devsListed>>,
         devs'[d] = devs[d] \/ devs'[d] \in {None, NoValue}
  PROVE  ValueInv(d)'
<1>1. SUFFICES ASSUME <<d, "value">> \notin astray'
               PROVE  /\ ~(Waiting(d, "report")' /\ Waiting(d, "optimistic")')
                      /\ \A type \in {"report", "optimistic"} :
                           Latest(devQueue'[type], d, shadow'[d])
                      /\ open' /\ Settled(d, "report")' =>
                           /\ Answering(d)' /\ d \notin rest'.left => rest'.rows[d] \in {None, shadow'[d]}
                           /\ ~Answering(d)' /\ devsListed' => devs'[d] \in {None, NoValue, shadow'[d]}
  BY DEF ValueInv, Latest
<1>2. /\ ~(Waiting(d, "report") /\ Waiting(d, "optimistic"))
      /\ \A type \in {"report", "optimistic"} : Latest(devQueue[type], d, shadow[d])
      /\ open /\ Settled(d, "report") =>
           /\ Answering(d) /\ d \notin rest.left => rest.rows[d] \in {None, shadow[d]}
           /\ ~Answering(d) /\ devsListed => devs[d] \in {None, NoValue, shadow[d]}
  BY <1>1 DEF ValueInv, SameMark
<1>3. Settled(d, "report")' <=> Settled(d, "report")
  BY <1>1, SettledMeans
<1>4. Answering(d)' <=> Answering(d)
  BY DEF Answering
<1>5. QED BY <1>1, <1>2, <1>3, <1>4

\* The scope of the mirrors is kept by a step that does not touch them.
LEMMA KeepScope ==
  ASSUME ScopeInv, UNCHANGED <<mirror, boot, open, rest, devsListed, todo>>
  PROVE  ScopeInv'
BY DEF ScopeInv, Reached

(***************************************************************************)
(* The steps                                                               *)
(***************************************************************************)

\* A join or a leave (of any door) and its event.
LEMMA PresenceStep ==
  ASSUME DevInv, NEW type \in {"join", "leave"}, NEW d \in Devices,
         NEW x \in DevNames \cup {None}, type = "leave" <=> x = None,
         type = "join" <=> pool[d] = None,
         pool' = [pool EXCEPT ![d] = x], Post(type, d, x),
         UNCHANGED <<mirror, boot, open, shadow, devs, rest, devsListed, ha, snap, todo>>
  PROVE  DevInv'
<1>1. DevTyped /\ ScopeInv
  BY DEF DevInv
<1>2. type \in DevTypes /\ Mirrors(type) = {"row", "ha"} /\ Rival[type] \in DevTypes \ {type}
  BY Rivals DEF DevTypes, Mirrors
<1>3. [id |-> d, arg |-> x] \in EventsOf(type)
  BY DEF EventsOf
<1>4. /\ DOMAIN devQueue' = DevTypes
      /\ \A u \in DevTypes : devQueue'[u] \in Seq(EventsOf(u))
      /\ \A u \in DevTypes \ {type} : devQueue'[u] = devQueue[u]
      /\ \A e, m : m \notin {"row", "ha"} \/ e # d => SameMark(e, m)
      /\ \A e, m : m \in {"row", "ha"} /\ e # d /\ <<e, m>> \notin astray' =>
           e \in Queued(devQueue'[type]) <=> e \in Queued(devQueue[type])
      /\ \A m \in {"row", "ha"} : <<d, m>> \notin astray' =>
           d \in Queued(devQueue'[type]) /\ d \notin Queued(devQueue[Rival[type]])
  BY <1>1, <1>2, <1>3, PostEffect
<1>5. DevTyped'
  BY <1>1, <1>4 DEF DevTyped
<1>6. ScopeInv'
  BY <1>1, KeepScope
<1>7. pool'[d] = x /\ \A e \in Devices \ {d} : pool'[e] = pool[e]
  BY <1>1 DEF DevTyped
<1>8. \A e : \A u \in DevTypes \ {type} : Waiting(e, u)' <=> Waiting(e, u)
  BY <1>4 DEF Waiting
<1> SUFFICES ASSUME NEW e \in Devices
             PROVE  /\ PresenceInv(e, "row")' /\ PresenceInv(e, "ha")'
                    /\ HaInv(e)' /\ RowInv(e)' /\ ValueInv(e)'
  BY <1>5, <1>6 DEF DevInv
<1>9. /\ PresenceInv(e, "row") /\ PresenceInv(e, "ha")
      /\ HaInv(e) /\ RowInv(e) /\ ValueInv(e)
  BY DEF DevInv
<1>10. ValueInv(e)'
  <2>1. SameMark(e, "value")
    BY <1>4
  <2>2. \A u \in {"report", "optimistic"} : devQueue'[u] = devQueue[u]
    BY <1>4 DEF DevTypes
  <2>3. QED BY <1>9, <2>1, <2>2, SameQueue, KeepValue
<1>11. CASE e = d
  <2>1. ASSUME NEW m \in {"row", "ha"}, <<e, m>> \notin astray'
        PROVE  Waiting(e, type)' /\ ~Waiting(e, Rival[type])'
    <3>1. e \in Queued(devQueue'[type]) /\ e \notin Queued(devQueue[Rival[type]])
      BY <1>4, <1>11, <2>1
    <3>2. ~Waiting(e, Rival[type])
      BY <3>1 DEF Waiting
    <3>3. QED BY <1>2, <1>8, <3>1, <3>2 DEF Waiting
  <2>2. ASSUME NEW m \in {"row", "ha"}
        PROVE  PresenceInv(e, m)'
    BY <1>7, <1>11, <2>1, Rivals DEF PresenceInv
  <2>3. ASSUME NEW m \in {"row", "ha"}, <<e, m>> \notin astray'
        PROVE  ~Settled(e, "join")'
    BY <2>1, <2>3, SettledMeans
  <2>4. HaInv(e)' /\ RowInv(e)'
    BY <2>3 DEF HaInv, RowInv
  <2>5. QED BY <1>10, <2>2, <2>4
<1>12. CASE e # d
  <2>1. ASSUME NEW m \in {"row", "ha"}, <<e, m>> \notin astray'
        PROVE  \A u \in {"join", "leave"} : Waiting(e, u)' <=> Waiting(e, u)
    <3>1. Waiting(e, type)' <=> Waiting(e, type)
      BY <1>4, <1>12, <2>1 DEF Waiting
    <3>2. QED BY <1>8, <3>1 DEF DevTypes
  <2>2. pool'[e] = pool[e]
    BY <1>7, <1>12
  <2>3. ASSUME NEW m \in {"row", "ha"}
        PROVE  SameMark(e, m) /\ PresenceInv(e, m)'
    <3>1. SameMark(e, m)
      BY <1>4, <1>12
    <3>2. CASE <<e, m>> \in astray'
      BY <3>1, <3>2 DEF PresenceInv
    <3>3. CASE <<e, m>> \notin astray'
      BY <1>9, <2>1, <2>2, <3>1, <3>3, KeepPresence
    <3>4. QED BY <3>1, <3>2, <3>3
  <2>4. HaInv(e)'
    <3>1. CASE <<e, "ha">> \in astray'
      BY <3>1 DEF HaInv
    <3>2. CASE <<e, "ha">> \notin astray'
      <4>1. Settled(e, "join")' => Settled(e, "join")
        BY <2>1, <3>2, SettledMeans
      <4>2. Owed(e) => Owed(e)'
        BY <2>2 DEF Owed
      <4>3. SamePublications(e) /\ ha'[e] = ha[e] /\ mirror' = mirror
        BY DEF SamePublications
      <4>4. HaInv(e) /\ SameMark(e, "ha")
        BY <1>9, <2>3
      <4>5. QED BY <2>2, <4>1, <4>2, <4>3, <4>4, KeepHa
    <3>3. QED BY <3>1, <3>2
  <2>5. RowInv(e)'
    <3>1. CASE <<e, "row">> \in astray'
      BY <3>1 DEF RowInv
    <3>2. CASE <<e, "row">> \notin astray'
      <4>1. Settled(e, "join")' => Settled(e, "join")
        BY <2>1, <3>2, SettledMeans
      <4>2. QED BY <1>9, <2>2, <2>3, <4>1, KeepRow
    <3>3. QED BY <3>1, <3>2
  <2>6. QED BY <1>10, <2>3, <2>4, <2>5
<1>13. QED BY <1>11, <1>12

\* A report or a command that is taken for granted, and its event.
LEMMA ValueStep ==
  ASSUME DevInv, NEW type \in {"report", "optimistic"}, NEW d \in Devices, NEW v \in Values,
         shadow' = [shadow EXCEPT ![d] = v], Post(type, d, v),
         UNCHANGED <<mirror, boot, open, pool, devs, rest, devsListed, ha, snap, todo>>
  PROVE  DevInv'
<1>1. DevTyped /\ ScopeInv
  BY DEF DevInv
<1>2. type \in DevTypes /\ Mirrors(type) = {"value"} /\ Rival[type] \in DevTypes \ {type}
  BY Rivals DEF DevTypes, Mirrors
<1>3. [id |-> d, arg |-> v] \in EventsOf(type)
  BY DEF EventsOf
<1>4. /\ DOMAIN devQueue' = DevTypes
      /\ \A u \in DevTypes : devQueue'[u] \in Seq(EventsOf(u))
      /\ \A u \in DevTypes \ {type} : devQueue'[u] = devQueue[u]
      /\ \A e, m : m # "value" \/ e # d => SameMark(e, m)
      /\ \A e : e # d /\ <<e, "value">> \notin astray' =>
           /\ e \in Queued(devQueue'[type]) <=> e \in Queued(devQueue[type])
           /\ \A w : Latest(devQueue[type], e, w) => Latest(devQueue'[type], e, w)
      /\ <<d, "value">> \notin astray' =>
           /\ d \in Queued(devQueue'[type]) /\ Latest(devQueue'[type], d, v)
           /\ d \notin Queued(devQueue[Rival[type]])
  BY <1>1, <1>2, <1>3, PostEffect
<1>5. DevTyped'
  BY <1>1, <1>4 DEF DevTyped
<1>6. ScopeInv'
  BY <1>1, KeepScope
<1>7. shadow'[d] = v /\ \A e \in Devices \ {d} : shadow'[e] = shadow[e]
  BY <1>1 DEF DevTyped
<1>8. \A e : \A u \in DevTypes \ {type} : Waiting(e, u)' <=> Waiting(e, u)
  BY <1>4 DEF Waiting
<1> SUFFICES ASSUME NEW e \in Devices
             PROVE  /\ PresenceInv(e, "row")' /\ PresenceInv(e, "ha")'
                    /\ HaInv(e)' /\ RowInv(e)' /\ ValueInv(e)'
  BY <1>5, <1>6 DEF DevInv
<1>9. /\ PresenceInv(e, "row") /\ PresenceInv(e, "ha")
      /\ HaInv(e) /\ RowInv(e) /\ ValueInv(e)
  BY DEF DevInv
<1>10. /\ SameMark(e, "row") /\ SameMark(e, "ha")
       /\ \A u \in {"join", "leave"} : Waiting(e, u)' <=> Waiting(e, u)
  BY <1>4, <1>8 DEF DevTypes
<1>11. PresenceInv(e, "row")' /\ PresenceInv(e, "ha")'
  BY <1>9, <1>10, KeepPresence
<1>12. Settled(e, "join")' => Settled(e, "join")
  BY <1>10, SettledMeans
<1>13. HaInv(e)' /\ RowInv(e)'
  <2>1. Owed(e) => Owed(e)'
    BY DEF Owed
  <2>2. HaInv(e)'
    <3>1. SamePublications(e) /\ ha'[e] = ha[e] /\ pool'[e] = pool[e] /\ mirror' = mirror
      BY DEF SamePublications
    <3>2. QED BY <1>9, <1>10, <1>12, <2>1, <3>1, KeepHa
  <2>3. /\ pool'[e] = pool[e] /\ devs'[e] = devs[e]
        /\ RowInv(e) /\ SameMark(e, "row")
    BY <1>9, <1>10
  <2>4. RowInv(e)'
    BY <1>12, <2>3, KeepRow
  <2>5. QED BY <2>2, <2>4
<1>14. CASE e = d
  <2>1. SUFFICES ASSUME <<e, "value">> \notin astray'
                 PROVE  ValueInv(e)'
    BY <1>11, <1>13 DEF ValueInv
  <2>2. Waiting(e, type)' /\ ~Waiting(e, Rival[type])' /\ Latest(devQueue'[type], e, shadow'[e])
    <3>1. e \notin Queued(devQueue[Rival[type]]) /\ e \in Queued(devQueue'[type])
      BY <1>4, <1>14, <2>1
    <3>2. ~Waiting(e, Rival[type])
      BY <3>1 DEF Waiting
    <3>3. QED BY <1>2, <1>4, <1>7, <1>8, <1>14, <2>1, <3>1, <3>2 DEF Waiting
  <2>3. Latest(devQueue'[Rival[type]], e, shadow'[e])
    <3>1. e \notin Queued(devQueue'[Rival[type]])
      BY <2>2 DEF Waiting
    <3>2. devQueue'[Rival[type]] \in Seq(EventsOf(Rival[type]))
      BY <1>2, <1>4
    <3>3. QED BY <3>1, <3>2, LatestOfNone
  <2>4. /\ ~(Waiting(e, "report")' /\ Waiting(e, "optimistic")')
        /\ \A u \in {"report", "optimistic"} : Latest(devQueue'[u], e, shadow'[e])
        /\ ~Settled(e, "report")'
    BY <2>2, <2>3, Rivals, SettledMeans
  <2>5. QED BY <2>4 DEF ValueInv, Latest
<1>15. CASE e # d
  <2>1. SameMark(e, "value") /\ shadow'[e] = shadow[e]
    BY <1>4, <1>7, <1>15
  <2>2. ASSUME <<e, "value">> \notin astray', NEW u \in {"report", "optimistic"}
        PROVE  /\ Waiting(e, u)' <=> Waiting(e, u)
               /\ Latest(devQueue[u], e, shadow[e]) => Latest(devQueue'[u], e, shadow[e])
    <3>1. CASE u = type
      BY <1>4, <1>15, <2>2, <3>1 DEF Waiting
    <3>2. CASE u # type
      BY <1>4, <1>8, <3>2 DEF DevTypes
    <3>3. QED BY <3>1, <3>2
  <2>3. ValueInv(e)'
    BY <1>9, <2>1, <2>2, KeepValue
  <2>4. QED BY <1>11, <1>13, <2>3
<1>16. QED BY <1>14, <1>15

\* A step that leaves the devices, their events and their mirrors alone: booting,
\* messages, rules.
LEMMA CalmStep ==
  ASSUME DevInv, boot' = boot \/ boot' = boot + 1,
         UNCHANGED <<mirror, open, pool, shadow, devQueue, devs, rest, devsListed, ha, snap,
                     todo, astray>>
  PROVE  DevInv'
<1>1. DevTyped /\ ScopeInv
  BY DEF DevInv
<1>2. DevTyped'
  BY <1>1 DEF DevTyped
<1>3. ScopeInv'
  <2>1. Reached("ha") => Reached("ha")'
    <3>1. CASE boot' = boot
      BY <3>1 DEF Reached
    <3>2. CASE boot' = boot + 1
      <4> DEFINE n == CHOOSE i \in DOMAIN Stages : Stages[i] = "ha"
      <4>1. n \in Nat
        <5>1. DOMAIN Stages = 1..5 /\ Stages[4] = "ha"
          BY DEF Stages
        <5>2. QED BY <5>1
      <4>2. boot \in Nat
        BY <1>1 DEF DevTyped
      <4>3. boot >= n => boot + 1 >= n
        BY <4>1, <4>2
      <4>4. QED BY <3>2, <4>3 DEF Reached
    <3>3. QED BY <3>1, <3>2
  <2>2. QED BY <1>1, <2>1 DEF ScopeInv
<1> SUFFICES ASSUME NEW e \in Devices
             PROVE  /\ PresenceInv(e, "row")' /\ PresenceInv(e, "ha")'
                    /\ HaInv(e)' /\ RowInv(e)' /\ ValueInv(e)'
  BY <1>2, <1>3 DEF DevInv
<1>4. /\ PresenceInv(e, "row") /\ PresenceInv(e, "ha")
      /\ HaInv(e) /\ RowInv(e) /\ ValueInv(e)
  BY DEF DevInv
<1>5. \A type : Waiting(e, type)' <=> Waiting(e, type)
  BY DEF Waiting
<1>6. \A m : SameMark(e, m)
  BY DEF SameMark
<1>7. Settled(e, "join")' => Settled(e, "join")
  BY <1>5, SettledMeans
<1>8. PresenceInv(e, "row")' /\ PresenceInv(e, "ha")'
  BY <1>4, <1>5, <1>6, KeepPresence
<1>9. HaInv(e)'
  <2>1. SamePublications(e) /\ (Owed(e) => Owed(e)')
    BY DEF SamePublications, Owed
  <2>2. QED BY <1>4, <1>6, <1>7, <2>1, KeepHa
<1>10. RowInv(e)'
  BY <1>4, <1>6, <1>7, KeepRow
<1>11. ValueInv(e)'
  BY <1>4, <1>5, <1>6, KeepValue
<1>12. QED BY <1>8, <1>9, <1>10, <1>11

\* What concerns Home Assistant alone leaves the page and the presence as they are.
LEMMA KeepPage ==
  ASSUME DevInv, NEW e \in Devices, SameMark(e, "row"), SameMark(e, "value"),
         pool'[e] = None <=> pool[e] = None,
         UNCHANGED <<open, shadow, devQueue, devs, rest, devsListed>>
  PROVE  PresenceInv(e, "row")' /\ RowInv(e)' /\ ValueInv(e)'
<1>1. PresenceInv(e, "row") /\ RowInv(e) /\ ValueInv(e)
  BY DEF DevInv
<1>2. \A type : Waiting(e, type)' <=> Waiting(e, type)
  BY DEF Waiting
<1>3. Settled(e, "join")' => Settled(e, "join")
  BY <1>2, SettledMeans
<1>4. PresenceInv(e, "row")'
  BY <1>1, <1>2, KeepPresence
<1>5. RowInv(e)'
  BY <1>1, <1>3, KeepRow
<1>6. ValueInv(e)'
  BY <1>1, <1>2, KeepValue
<1>7. QED BY <1>4, <1>5, <1>6

\* A publication begun while no other is under way tells what is the case.
LEMMA FreshSnapshot ==
  ASSUME NEW a \in Publishers, NEW d, snap \in [Publishers -> Snapshots \cup {None}],
         [id |-> d, name |-> pool'[d]] \in Snapshots, ~Publishing(d),
         snap' = [snap EXCEPT ![a] = [id |-> d, name |-> pool'[d]]]
  PROVE  HaInv(d)'
<1> DEFINE new == [id |-> d, name |-> pool'[d]]
<1>1. new # None /\ new.id = d /\ new.name = pool'[d]
  BY DeviceEventsAssumption DEF Snapshots
<1>2. snap'[a] = new /\ \A b \in Publishers \ {a} : snap'[b] = snap[b]
  OBVIOUS
<1> HIDE DEF new
<1>3. ASSUME NEW b \in Publishers, b # a
      PROVE  ~About(b, d)'
  <2>1. snap'[b] = snap[b] /\ ~(snap[b] # None /\ snap[b].id = d)
    BY <1>2, <1>3 DEF Publishing
  <2>2. QED BY <2>1 DEF About
<1>4. About(a, d)' /\ snap'[a].name = pool'[d]
  BY <1>1, <1>2 DEF About
<1>5. Publishing(d)'
  BY <1>4 DEF About, Publishing
<1>6. QED BY <1>3, <1>4, <1>5 DEF HaInv

\* A task takes a snapshot for Home Assistant, after a rename or in its turn of
\* for_each_device.
LEMMA SnapshotStep ==
  ASSUME DevInv, NEW a \in Publishers, snap[a] = None, NEW d \in Devices,
         pool' \in [Devices -> DevNames \cup {None}],
         \A e \in Devices \ {d} : pool'[e] = pool[e],
         pool'[d] = None <=> pool[d] = None,
         Snapshot(a, d, pool'),
         \/ todo' = todo
         \/ pool' = pool /\ todo # None /\ d \in todo /\ todo' = todo \ {d},
         UNCHANGED <<mirror, boot, open, shadow, devQueue, devs, rest, devsListed, ha>>
  PROVE  DevInv'
<1>1. DevTyped /\ ScopeInv
  BY DEF DevInv
<1> DEFINE new == [id |-> d, name |-> pool'[d]]
           silent == pool'[d] = None \/ mirror = "page" \/ ~Reached("ha")
           taken == /\ ~silent /\ snap' = [snap EXCEPT ![a] = new]
                    /\ astray' = IF Publishing(d) THEN astray \cup {<<d, "ha">>}
                                 ELSE IF Settled(d, "join") THEN astray \ {<<d, "ha">>}
                                 ELSE astray
<1>2. ~taken => /\ snap' = snap
                /\ (silent /\ astray' = astray) \/ astray' = astray \cup {<<d, "ha">>}
  BY DEF Snapshot
<1>3. taken => /\ snap' = [snap EXCEPT ![a] = new]
               /\ astray' = IF Publishing(d) THEN astray \cup {<<d, "ha">>}
                            ELSE IF Settled(d, "join") THEN astray \ {<<d, "ha">>}
                            ELSE astray
  OBVIOUS
<1>4. taken => new \in Snapshots /\ new # None /\ new.id = d /\ new.name = pool'[d]
  BY DeviceEventsAssumption DEF Snapshots
<1>5. todo' = todo \/ (todo # None /\ d \in todo /\ todo' = todo \ {d} /\ pool' = pool)
  OBVIOUS
<1>6. DevTyped'
  <2>1. snap' \in [Publishers -> Snapshots \cup {None}]
    BY <1>1, <1>2, <1>3, <1>4 DEF DevTyped
  <2>2. todo' \in (SUBSET Devices) \cup {None}
    BY <1>1, <1>5 DEF DevTyped
  <2>3. QED BY <1>1, <2>1, <2>2 DEF DevTyped
<1>7. ScopeInv'
  BY <1>1, <1>5 DEF ScopeInv, Reached
<1> HIDE DEF taken, silent, new
<1>8. \A e, m : m # "ha" \/ e # d => SameMark(e, m)
  BY <1>2, <1>3 DEF SameMark
<1> SUFFICES ASSUME NEW e \in Devices
             PROVE  /\ PresenceInv(e, "row")' /\ PresenceInv(e, "ha")'
                    /\ HaInv(e)' /\ RowInv(e)' /\ ValueInv(e)'
  BY <1>6, <1>7 DEF DevInv
<1>9. PresenceInv(e, "row")' /\ RowInv(e)' /\ ValueInv(e)'
  BY <1>8, KeepPage
<1>10. HaInv(e) /\ PresenceInv(e, "ha")
  BY DEF DevInv
<1>11. \A type : Waiting(e, type)' <=> Waiting(e, type)
  BY DEF Waiting
<1>12. Settled(e, "join")' <=> Settled(e, "join")
  BY <1>11, SettledMeans
<1>13. PresenceInv(e, "ha")'
  <2>1. CASE SameMark(e, "ha")
    BY <1>10, <1>11, <2>1, KeepPresence
  <2>2. CASE ~SameMark(e, "ha")
    <3>1. Settled(e, "join")
      BY <1>2, <1>3, <1>8, <2>2 DEF SameMark
    <3>2. QED BY <1>11, <3>1, SettledMeans DEF PresenceInv
  <2>3. QED BY <2>1, <2>2
<1>14. CASE e # d
  <2>1. SameMark(e, "ha") /\ pool'[e] = pool[e]
    BY <1>8, <1>14
  <2>2. SamePublications(e)
    <3>1. ASSUME NEW b \in Publishers
          PROVE  snap'[b] = snap[b] \/ (~About(b, e) /\ ~About(b, e)')
      <4>1. CASE b = a /\ taken
        <5>1. snap'[b] = new
          BY <1>1, <1>3, <4>1 DEF DevTyped
        <5>2. QED BY <1>4, <1>14, <4>1, <5>1 DEF About
      <4>2. CASE ~(b = a /\ taken)
        BY <1>1, <1>2, <1>3, <4>2 DEF DevTyped
      <4>3. QED BY <4>1, <4>2
    <3>2. QED BY <3>1 DEF SamePublications
  <2>3. Owed(e) => Owed(e)'
    BY <1>5, <1>14, <2>1, DeviceEventsAssumption DEF Owed
  <2>4. HaInv(e)'
    BY <1>10, <1>12, <2>1, <2>2, <2>3, KeepHa
  <2>5. QED BY <1>9, <1>13, <2>4
<1>15. CASE e = d /\ taken
  <2>1. SUFFICES ASSUME <<d, "ha">> \notin astray', Settled(d, "join")
                 PROVE  HaInv(e)'
    BY <1>9, <1>12, <1>13, <1>15 DEF HaInv
  <2>2. ~Publishing(d)
    BY <1>3, <1>15, <2>1
  <2>3. QED BY <1>1, <1>3, <1>4, <1>15, <2>2, FreshSnapshot DEF DevTyped, new
<1>16. CASE e = d /\ ~taken
  <2>1. SUFFICES ASSUME mirror = "broker", <<d, "ha">> \notin astray'
                 PROVE  HaInv(e)'
    BY <1>9, <1>13, <1>16 DEF HaInv
  <2>2. snap' = snap /\ astray' = astray /\ silent
    BY <1>2, <1>16, <2>1
  <2>3. pool'[d] = None \/ ~Reached("ha")
    BY <2>1, <2>2 DEF silent
  <2>4. CASE pool'[d] = None
    <3>1. pool'[e] = pool[e] /\ (Owed(e) => Owed(e)')
      BY <1>16, <2>4 DEF Owed
    <3>2. SamePublications(e) /\ SameMark(e, "ha")
      BY <2>2 DEF SamePublications, SameMark
    <3>3. QED BY <1>10, <1>12, <3>1, <3>2, KeepHa
  <2>5. CASE ~Reached("ha") /\ pool'[d] # None
    <3>1. todo = None /\ todo' = None
      BY <1>1, <1>5, <2>5 DEF ScopeInv
    <3>2. Owed(e) /\ Owed(e)'
      BY <1>16, <2>5, <3>1 DEF Owed
    <3>3. \A b \in Publishers : About(b, e)' <=> About(b, e)
      BY <2>2 DEF About
    <3>4. QED BY <1>10, <1>12, <2>2, <3>2, <3>3 DEF HaInv
  <2>6. QED BY <2>3, <2>4, <2>5
<1>17. QED BY <1>14, <1>15, <1>16

\* A publication to Home Assistant.
LEMMA PublishStep ==
  ASSUME DevInv, NEW a \in Publishers, HaPublish(a)
  PROVE  DevInv'
<1>1. DevTyped /\ ScopeInv
  BY DEF DevInv
<1>2. PICK d \in Devices, n \in DevNames : snap[a] = [id |-> d, name |-> n]
  BY <1>1 DEF DevTyped, Snapshots, HaPublish
<1>3. /\ snap[a] # None /\ snap' = [snap EXCEPT ![a] = None]
      /\ ha' = [ha EXCEPT ![d] = n]
      /\ UNCHANGED <<mirror, boot, open, pool, shadow, devQueue, devs, rest, devsListed,
                     todo, astray>>
  BY <1>2 DEF HaPublish, vars
<1>4. DevTyped'
  BY <1>1, <1>3 DEF DevTyped
<1>5. ScopeInv'
  BY <1>1, <1>3, KeepScope
<1> SUFFICES ASSUME NEW e \in Devices
             PROVE  /\ PresenceInv(e, "row")' /\ PresenceInv(e, "ha")'
                    /\ HaInv(e)' /\ RowInv(e)' /\ ValueInv(e)'
  BY <1>4, <1>5 DEF DevInv
<1>6. \A m : SameMark(e, m)
  BY <1>3 DEF SameMark
<1>7. PresenceInv(e, "row")' /\ RowInv(e)' /\ ValueInv(e)'
  BY <1>3, <1>6, KeepPage
<1>8. HaInv(e) /\ PresenceInv(e, "ha")
  BY DEF DevInv
<1>9. \A type : Waiting(e, type)' <=> Waiting(e, type)
  BY <1>3 DEF Waiting
<1>10. Settled(e, "join")' <=> Settled(e, "join")
  BY <1>9, SettledMeans
<1>11. PresenceInv(e, "ha")'
  BY <1>3, <1>6, <1>8, <1>9, KeepPresence
<1>12. snap'[a] = None /\ \A b \in Publishers \ {a} : snap'[b] = snap[b]
  BY <1>1, <1>3 DEF DevTyped
<1>13. Owed(e)' <=> Owed(e)
  BY <1>3 DEF Owed
<1>14. CASE e # d
  <2>1. SamePublications(e)
    <3>1. ~About(a, e) /\ ~About(a, e)'
      BY <1>2, <1>12, <1>14 DEF About
    <3>2. QED BY <1>12, <3>1 DEF SamePublications
  <2>2. ha'[e] = ha[e]
    BY <1>1, <1>3, <1>14 DEF DevTyped
  <2>3. HaInv(e)'
    BY <1>3, <1>6, <1>8, <1>10, <1>13, <2>1, <2>2, KeepHa
  <2>4. QED BY <1>7, <1>11, <2>3
<1>15. CASE e = d
  <2>1. SUFFICES ASSUME mirror = "broker", <<e, "ha">> \notin astray, Settled(e, "join")
                 PROVE  HaInv(e)'
    BY <1>3, <1>7, <1>10, <1>11 DEF HaInv
  <2>2. About(a, e) /\ snap[a].name = n
    BY <1>2, <1>3, <1>15 DEF About
  <2>3. \A b \in Publishers : ~About(b, e)'
    <3>1. SUFFICES ASSUME NEW b \in Publishers, b # a, About(b, e)'
                   PROVE  FALSE
      BY <1>12 DEF About
    <3>2. About(b, e)
      BY <1>12, <3>1 DEF About
    <3>3. QED BY <1>8, <2>1, <2>2, <3>1, <3>2 DEF HaInv
  <2>4. ~Publishing(e)'
    BY <2>3 DEF About, Publishing
  <2>5. ha'[e] = n
    BY <1>1, <1>3, <1>15 DEF DevTyped
  <2>6. ~Owed(e) => n = pool[e]
    <3>1. Publishing(e)
      BY <2>2 DEF About, Publishing
    <3>2. QED BY <1>8, <2>1, <2>2, <3>1 DEF HaInv
  <2>7. QED BY <1>3, <1>13, <2>3, <2>4, <2>5, <2>6 DEF HaInv
<1>16. QED BY <1>14, <1>15

\* The broker is connected, for the first time or again.
LEMMA ConnectStep ==
  ASSUME DevInv, MqttConnected
  PROVE  DevInv'
<1>1. DevTyped /\ ScopeInv
  BY DEF DevInv
<1> DEFINE live == {d \in Devices : pool[d] # None}
<1>2. /\ mirror = "broker" /\ Reached("ha")
      /\ (todo' = live /\ astray' = astray) \/ (todo' = {} /\ astray' = astray \cup live \X {"ha"})
      /\ UNCHANGED <<mirror, boot, open, pool, shadow, devQueue, devs, rest, devsListed, ha,
                     snap>>
  BY DEF MqttConnected
<1>3. DevTyped'
  BY <1>1, <1>2 DEF DevTyped
<1>4. ScopeInv'
  BY <1>1, <1>2 DEF ScopeInv, Reached
<1> SUFFICES ASSUME NEW e \in Devices
             PROVE  /\ PresenceInv(e, "row")' /\ PresenceInv(e, "ha")'
                    /\ HaInv(e)' /\ RowInv(e)' /\ ValueInv(e)'
  BY <1>3, <1>4 DEF DevInv
<1>5. \A m : SameMark(e, m)
  BY <1>2 DEF SameMark
<1>6. PresenceInv(e, "row")' /\ RowInv(e)' /\ ValueInv(e)'
  BY <1>2, <1>5, KeepPage
<1>7. HaInv(e) /\ PresenceInv(e, "ha")
  BY DEF DevInv
<1>8. \A type : Waiting(e, type)' <=> Waiting(e, type)
  BY <1>2 DEF Waiting
<1>9. PresenceInv(e, "ha")'
  BY <1>2, <1>5, <1>7, <1>8, KeepPresence
<1>10. HaInv(e)'
  <2>1. CASE <<e, "ha">> \in astray'
    BY <2>1 DEF HaInv
  <2>2. CASE <<e, "ha">> \notin astray'
    <3>1. e \in live => todo' = live
      BY <1>2, <2>2
    <3>2. Owed(e) => Owed(e)'
      BY <1>2, <3>1 DEF Owed
    <3>3. SamePublications(e)
      BY <1>2 DEF SamePublications
    <3>4. Settled(e, "join")' => Settled(e, "join")
      BY <1>8, SettledMeans
    <3>5. QED BY <1>2, <1>5, <1>7, <3>2, <3>3, <3>4, KeepHa
  <2>3. QED BY <2>1, <2>2
<1>11. QED BY <1>6, <1>9, <1>10

\* What concerns the page alone leaves Home Assistant and the queues as they are.
LEMMA KeepHome ==
  ASSUME DevInv, NEW e \in Devices, SameMark(e, "ha"),
         UNCHANGED <<mirror, pool, devQueue, ha, snap, todo>>
  PROVE  PresenceInv(e, "ha")' /\ HaInv(e)'
<1>1. HaInv(e) /\ PresenceInv(e, "ha")
  BY DEF DevInv
<1>2. \A type : Waiting(e, type)' <=> Waiting(e, type)
  BY DEF Waiting
<1>3. PresenceInv(e, "ha")'
  BY <1>1, <1>2, KeepPresence
<1>4. HaInv(e)'
  <2>1. SamePublications(e) /\ (Owed(e) => Owed(e)')
    BY DEF SamePublications, Owed
  <2>2. Settled(e, "join")' => Settled(e, "join")
    BY <1>2, SettledMeans
  <2>3. QED BY <1>1, <2>1, <2>2, KeepHa
<1>5. QED BY <1>3, <1>4

\* A page comes, or goes with its list and the answer it waits for.
LEMMA VisitStep ==
  ASSUME DevInv, OpenPage \/ ClosePage
  PROVE  DevInv'
<1>1. DevTyped /\ ScopeInv
  BY DEF DevInv
<1>2. UNCHANGED <<mirror, boot, pool, shadow, devQueue, ha, snap, todo, astray>>
  BY DEF OpenPage, ClosePage, devVars
<1>3. /\ rest' = None /\ devsListed' = FALSE /\ open' \in BOOLEAN
      /\ devs' = devs \/ devs' = NoRows
  <2>1. CASE OpenPage
    <3>1. open = FALSE /\ open' = TRUE /\ UNCHANGED <<rest, devsListed, devs>>
      BY <2>1 DEF OpenPage, Open, devVars
    <3>2. QED BY <1>1, <3>1 DEF ScopeInv, DevTyped
  <2>2. CASE ClosePage
    BY <2>2 DEF ClosePage, Close
  <2>3. QED BY <2>1, <2>2
<1>4. DevTyped'
  BY <1>1, <1>2, <1>3 DEF DevTyped, NoRows
<1>5. ScopeInv'
  BY <1>1, <1>2, <1>3 DEF ScopeInv, Reached
<1> SUFFICES ASSUME NEW e \in Devices
             PROVE  /\ PresenceInv(e, "row")' /\ PresenceInv(e, "ha")'
                    /\ HaInv(e)' /\ RowInv(e)' /\ ValueInv(e)'
  BY <1>4, <1>5 DEF DevInv
<1>6. \A m : SameMark(e, m)
  BY <1>2 DEF SameMark
<1>7. PresenceInv(e, "ha")' /\ HaInv(e)'
  BY <1>2, <1>6, KeepHome
<1>8. \A type : Waiting(e, type)' <=> Waiting(e, type)
  BY <1>2 DEF Waiting
<1>9. PresenceInv(e, "row") /\ ValueInv(e)
  BY DEF DevInv
<1>10. PresenceInv(e, "row")'
  BY <1>2, <1>6, <1>8, <1>9, KeepPresence
<1>11. RowInv(e)' /\ ValueInv(e)'
  <2>1. ~Answering(e)' /\ ~devsListed'
    BY <1>3 DEF Answering
  <2>2. RowInv(e)'
    BY <2>1 DEF RowInv
  <2>3. QED BY <1>2, <1>8, <1>9, <2>1, <2>2 DEF ValueInv, Latest
<1>12. QED BY <1>7, <1>10, <1>11

\* An answer begun, read on or sent: what a device is marked with, and what its
\* row is or will be, suffice.
LEMMA AnswerStep ==
  ASSUME DevInv,
         UNCHANGED <<mirror, boot, open, pool, shadow, devQueue, ha, snap, todo>>,
         devs' \in [Devices -> Values \cup {None, NoValue}], devsListed' \in BOOLEAN,
         rest' \in Answers \cup {None}, mirror = "page", open,
         rest' # None => rest'.left \subseteq rest'.about,
         rest' # None /\ ~devsListed' => rest'.about = Devices,
         \A e \in Devices : SameMark(e, "ha"),
         \A e \in Devices : SameMark(e, "row") \/ Settled(e, "join"),
         \A e \in Devices : SameMark(e, "value") \/ Settled(e, "report"),
         \A e \in Devices : RowInv(e)',
         \A e \in Devices : <<e, "value">> \notin astray' /\ Settled(e, "report") =>
           /\ Answering(e)' /\ e \notin rest'.left => rest'.rows[e] \in {None, shadow[e]}
           /\ ~Answering(e)' /\ devsListed' => devs'[e] \in {None, NoValue, shadow[e]}
  PROVE  DevInv'
<1>1. DevTyped /\ ScopeInv
  BY DEF DevInv
<1>2. DevTyped'
  BY <1>1 DEF DevTyped
<1>3. ScopeInv'
  BY <1>1 DEF ScopeInv, Reached
<1> SUFFICES ASSUME NEW e \in Devices
             PROVE  /\ PresenceInv(e, "row")' /\ PresenceInv(e, "ha")'
                    /\ HaInv(e)' /\ RowInv(e)' /\ ValueInv(e)'
  BY <1>2, <1>3 DEF DevInv
<1>4. PresenceInv(e, "ha")' /\ HaInv(e)'
  BY KeepHome
<1>5. \A type : Waiting(e, type)' <=> Waiting(e, type)
  BY DEF Waiting
<1>6. PresenceInv(e, "row") /\ ValueInv(e)
  BY DEF DevInv
<1>7. PresenceInv(e, "row")'
  <2>1. CASE SameMark(e, "row")
    BY <1>5, <1>6, <2>1, KeepPresence
  <2>2. CASE Settled(e, "join")
    BY <1>5, <2>2, SettledMeans DEF PresenceInv
  <2>3. QED BY <2>1, <2>2
<1>8. ValueInv(e)'
  <2>1. SUFFICES ASSUME <<e, "value">> \notin astray'
                 PROVE  ValueInv(e)'
    BY DEF ValueInv
  <2>2. /\ ~(Waiting(e, "report")' /\ Waiting(e, "optimistic")')
        /\ \A type \in {"report", "optimistic"} : Latest(devQueue'[type], e, shadow'[e])
    <3>1. CASE SameMark(e, "value")
      <4>1. /\ ~(Waiting(e, "report") /\ Waiting(e, "optimistic"))
            /\ \A type \in {"report", "optimistic"} : Latest(devQueue[type], e, shadow[e])
        BY <1>6, <2>1, <3>1 DEF ValueInv, SameMark
      <4>2. QED BY <1>5, <4>1
    <3>2. CASE Settled(e, "report")
      <4>1. ~Waiting(e, "report") /\ ~Waiting(e, "optimistic")
        BY <3>2, SettledMeans
      <4>2. ASSUME NEW type \in {"report", "optimistic"}
            PROVE  Latest(devQueue'[type], e, shadow'[e])
        <5>1. devQueue[type] \in Seq(EventsOf(type)) /\ e \notin Queued(devQueue[type])
          BY <1>1, <4>1 DEF DevTyped, DevTypes, Waiting
        <5>2. Latest(devQueue[type], e, shadow[e])
          BY <5>1, LatestOfNone
        <5>3. QED BY <5>2
      <4>3. QED BY <1>5, <4>1, <4>2
    <3>3. QED BY <3>1, <3>2
  <2>3. Settled(e, "report")' => Settled(e, "report")
    BY <1>5, SettledMeans
  <2>4. QED BY <2>1, <2>2, <2>3 DEF ValueInv, Latest
<1>9. QED BY <1>4, <1>7, <1>8

\* handle_get_devices copies the pool.
LEMMA CopyStep ==
  ASSUME DevInv, CopyPool
  PROVE  DevInv'
<1>1. DevTyped /\ ScopeInv
  BY DEF DevInv
<1>2. /\ mirror = "page" /\ open
      /\ rest' = [about |-> Devices, left |-> {d \in Devices : pool[d] # None}, rows |-> NoRows]
      /\ astray' = astray \ {<<d, "row">> : d \in {d \in Devices : Settled(d, "join")}}
      /\ UNCHANGED <<mirror, boot, open, pool, shadow, devQueue, ha, snap, todo, devs, devsListed>>
  BY DEF CopyPool, HttpdFree, vars
<1>3. rest' \in Answers /\ rest' # None
  <2>1. rest' \in Answers
    BY <1>2 DEF Answers, NoRows
  <2>2. QED BY <2>1, DeviceEventsAssumption DEF Answers
<1>4. /\ devs' \in [Devices -> Values \cup {None, NoValue}] /\ devsListed' \in BOOLEAN
      /\ rest'.left \subseteq rest'.about /\ rest'.about = Devices
  BY <1>1, <1>2 DEF DevTyped
<1>5. ASSUME NEW e \in Devices
      PROVE  /\ SameMark(e, "ha") /\ SameMark(e, "value")
             /\ SameMark(e, "row") \/ Settled(e, "join")
             /\ Answering(e)'
             /\ e \in rest'.left \/ rest'.rows[e] # None <=> pool[e] # None
             /\ rest'.rows[e] = None
  <2>1. SameMark(e, "ha") /\ SameMark(e, "value")
    BY <1>2 DEF SameMark
  <2>2. SameMark(e, "row") \/ Settled(e, "join")
    BY <1>2 DEF SameMark
  <2>3. Answering(e)'
    BY <1>3, <1>4 DEF Answering
  <2>4. rest'.rows[e] = None /\ (e \in rest'.left <=> pool[e] # None)
    BY <1>2 DEF NoRows
  <2>5. QED BY <2>1, <2>2, <2>3, <2>4
<1>6. \A e \in Devices : RowInv(e)'
  BY <1>2, <1>5 DEF RowInv
<1>7. QED BY <1>2, <1>3, <1>4, <1>5, <1>6, AnswerStep

\* ... and reads the attributes of one device.
LEMMA ReadStep ==
  ASSUME DevInv, ReadAttrs
  PROVE  DevInv'
<1>1. DevTyped /\ ScopeInv
  BY DEF DevInv
<1>2. PICK d \in rest.left :
        /\ rest # None /\ rest' = [rest EXCEPT !.left = @ \ {d}, !.rows[d] = shadow[d]]
        /\ astray' = IF Settled(d, "report") THEN astray \ {<<d, "value">>} ELSE astray
        /\ UNCHANGED <<mirror, boot, open, pool, shadow, devQueue, ha, snap, todo, devs, devsListed>>
  BY DEF ReadAttrs, vars
<1>3. mirror = "page" /\ open /\ rest \in Answers
  BY <1>1, <1>2 DEF ScopeInv, DevTyped
<1>4. /\ d \in Devices /\ shadow[d] \in Values /\ shadow[d] # None
      /\ rest' \in Answers /\ rest' # None /\ rest'.about = rest.about
      /\ rest'.left = rest.left \ {d} /\ rest'.rows[d] = shadow[d]
      /\ \A e \in Devices \ {d} : rest'.rows[e] = rest.rows[e]
  <2>1. d \in Devices
    BY <1>3 DEF Answers
  <2>2. shadow[d] \in Values /\ shadow[d] # None
    BY <1>1, <2>1, DeviceEventsAssumption DEF DevTyped
  <2>3. /\ rest'.about = rest.about /\ rest'.left = rest.left \ {d}
        /\ rest'.rows = [rest.rows EXCEPT ![d] = shadow[d]]
    BY <1>2, <1>3 DEF Answers
  <2>4. rest' \in Answers
    BY <1>2, <1>3, <2>1, <2>2 DEF Answers
  <2>5. rest' # None
    BY <2>4, DeviceEventsAssumption DEF Answers
  <2>6. rest.rows \in [Devices -> Values \cup {None}]
    BY <1>3 DEF Answers
  <2>7. QED BY <2>1, <2>2, <2>3, <2>4, <2>5, <2>6
<1>5. /\ devs' \in [Devices -> Values \cup {None, NoValue}] /\ devsListed' \in BOOLEAN
      /\ rest'.left \subseteq rest'.about /\ (~devsListed' => rest'.about = Devices)
  BY <1>1, <1>2, <1>4 DEF DevTyped, ScopeInv
<1>6. ASSUME NEW e \in Devices
      PROVE  /\ SameMark(e, "ha") /\ SameMark(e, "row")
             /\ SameMark(e, "value") \/ Settled(e, "report")
             /\ e # d => SameMark(e, "value")
             /\ Answering(e)' <=> Answering(e)
  BY <1>2, <1>4 DEF SameMark, Answering
<1>7. ASSUME NEW e \in Devices
      PROVE  RowInv(e)'
  <2>1. RowInv(e)
    BY DEF DevInv
  <2>2. Settled(e, "join")' => Settled(e, "join")
    <3>1. \A type : Waiting(e, type)' <=> Waiting(e, type)
      BY <1>2 DEF Waiting
    <3>2. QED BY <3>1, SettledMeans
  <2>3. e \in rest'.left \/ rest'.rows[e] # None <=> e \in rest.left \/ rest.rows[e] # None
    BY <1>4
  <2>4. QED BY <1>2, <1>6, <2>1, <2>2, <2>3 DEF RowInv, SameMark
<1>8. ASSUME NEW e \in Devices, <<e, "value">> \notin astray', Settled(e, "report")
      PROVE  /\ Answering(e)' /\ e \notin rest'.left => rest'.rows[e] \in {None, shadow[e]}
             /\ ~Answering(e)' /\ devsListed' => devs'[e] \in {None, NoValue, shadow[e]}
  <2>1. CASE e = d
    <3>1. Answering(e)
      <4>1. d \in rest.about
        BY <1>1, <1>2 DEF ScopeInv
      <4>2. QED BY <1>2, <2>1, <4>1 DEF Answering
    <3>2. QED BY <1>4, <1>6, <2>1, <3>1
  <2>2. CASE e # d
    <3>1. ValueInv(e) /\ <<e, "value">> \notin astray
      BY <1>6, <1>8, <2>2 DEF DevInv, SameMark
    <3>2. QED BY <1>2, <1>3, <1>4, <1>6, <1>8, <2>2, <3>1 DEF ValueInv
  <2>3. QED BY <2>1, <2>2
<1>9. QED BY <1>2, <1>3, <1>4, <1>5, <1>6, <1>7, <1>8, AnswerStep

\* cmd_device_get copies one device under the lock.
LEMMA GetStep ==
  ASSUME DevInv, DeviceGet
  PROVE  DevInv'
<1>1. DevTyped /\ ScopeInv
  BY DEF DevInv
<1>2. PICK d \in Devices :
        /\ mirror = "page" /\ open /\ rest = None /\ devsListed /\ pool[d] # None
        /\ rest' = [about |-> {d}, left |-> {}, rows |-> [NoRows EXCEPT ![d] = shadow[d]]]
        /\ astray' = IF Settled(d, "report") THEN astray \ {<<d, "value">>} ELSE astray
        /\ UNCHANGED <<mirror, boot, open, pool, shadow, devQueue, ha, snap, todo, devs, devsListed>>
  BY DEF DeviceGet, HttpdFree, vars
<1>3. /\ shadow[d] \in Values /\ shadow[d] # None
      /\ rest' \in Answers /\ rest' # None
      /\ rest'.about = {d} /\ rest'.left = {} /\ rest'.rows[d] = shadow[d]
  <2>1. shadow[d] \in Values /\ shadow[d] # None
    BY <1>1, DeviceEventsAssumption DEF DevTyped
  <2>2. /\ rest'.about = {d} /\ rest'.left = {}
        /\ rest'.rows = [NoRows EXCEPT ![d] = shadow[d]]
    BY <1>2
  <2>3. rest' \in Answers
    BY <1>2, <2>1 DEF Answers, NoRows
  <2>4. rest' # None
    BY <2>3, DeviceEventsAssumption DEF Answers
  <2>5. rest'.rows[d] = shadow[d]
    BY <2>2 DEF NoRows
  <2>6. QED BY <2>1, <2>2, <2>3, <2>4, <2>5
<1>4. /\ devs' \in [Devices -> Values \cup {None, NoValue}] /\ devsListed' = TRUE
      /\ rest'.left \subseteq rest'.about
  BY <1>1, <1>2, <1>3 DEF DevTyped
<1>5. ASSUME NEW e \in Devices
      PROVE  /\ SameMark(e, "ha") /\ SameMark(e, "row")
             /\ SameMark(e, "value") \/ Settled(e, "report")
             /\ e # d => SameMark(e, "value")
             /\ ~Answering(e) /\ (Answering(e)' <=> e = d)
  BY <1>2, <1>3 DEF SameMark, Answering
<1>6. ASSUME NEW e \in Devices
      PROVE  RowInv(e)'
  <2>1. RowInv(e)
    BY DEF DevInv
  <2>2. Settled(e, "join")' => Settled(e, "join")
    <3>1. \A type : Waiting(e, type)' <=> Waiting(e, type)
      BY <1>2 DEF Waiting
    <3>2. QED BY <3>1, SettledMeans
  <2>3. QED BY <1>2, <1>3, <1>5, <2>1, <2>2 DEF RowInv, SameMark
<1>7. ASSUME NEW e \in Devices, <<e, "value">> \notin astray', Settled(e, "report")
      PROVE  /\ Answering(e)' /\ e \notin rest'.left => rest'.rows[e] \in {None, shadow[e]}
             /\ ~Answering(e)' /\ devsListed' => devs'[e] \in {None, NoValue, shadow[e]}
  <2>1. CASE e = d
    BY <1>3, <1>5, <2>1
  <2>2. CASE e # d
    <3>1. ValueInv(e) /\ <<e, "value">> \notin astray
      BY <1>5, <1>7, <2>2 DEF DevInv, SameMark
    <3>2. QED BY <1>2, <1>5, <1>7, <2>2, <3>1 DEF ValueInv
  <2>3. QED BY <2>1, <2>2
<1>8. QED BY <1>2, <1>3, <1>4, <1>5, <1>6, <1>7, AnswerStep

\* The page shows the answer.
LEMMA AnsweredStep ==
  ASSUME DevInv, Answered
  PROVE  DevInv'
<1>1. DevTyped /\ ScopeInv
  BY DEF DevInv
<1>2. /\ rest # None /\ rest.left = {} /\ rest' = None
      /\ UNCHANGED <<mirror, boot, open, pool, shadow, devQueue, ha, snap, todo>>
  BY DEF Answered, vars
<1>3. mirror = "page" /\ open /\ rest \in Answers
  BY <1>1, <1>2 DEF ScopeInv, DevTyped
<1>4. ASSUME NEW e \in Devices
      PROVE  /\ ~Answering(e)' /\ (~Answering(e) => devsListed)
             /\ Settled(e, "join")' => Settled(e, "join")
             /\ RowInv(e) /\ ValueInv(e)
  <2>1. ~Answering(e) => devsListed
    BY <1>1, <1>2 DEF ScopeInv, Answering, DevTyped
  <2>2. ~Answering(e)'
    BY <1>2 DEF Answering
  <2>3. Settled(e, "join")' => Settled(e, "join")
    <3>1. \A type : Waiting(e, type)' <=> Waiting(e, type)
      BY <1>2 DEF Waiting
    <3>2. QED BY <3>1, SettledMeans
  <2>4. QED BY <2>1, <2>2, <2>3 DEF DevInv
<1>5. CASE /\ devs' = [d \in Devices |-> IF Answering(d) THEN rest.rows[d] ELSE devs[d]]
           /\ devsListed' = TRUE /\ astray' = astray
  <2>1. devs' \in [Devices -> Values \cup {None, NoValue}]
    <3>1. rest.rows \in [Devices -> Values \cup {None}]
      BY <1>3 DEF Answers
    <3>2. QED BY <1>1, <1>5, <3>1 DEF DevTyped
  <2>2. ASSUME NEW e \in Devices
        PROVE  /\ SameMark(e, "ha") /\ SameMark(e, "row") /\ SameMark(e, "value")
               /\ devs'[e] = IF Answering(e) THEN rest.rows[e] ELSE devs[e]
    BY <1>5 DEF SameMark
  <2>3. ASSUME NEW e \in Devices
        PROVE  RowInv(e)'
    BY <1>2, <1>4, <1>5, <2>2 DEF RowInv, SameMark
  <2>4. ASSUME NEW e \in Devices, <<e, "value">> \notin astray', Settled(e, "report")
        PROVE  /\ Answering(e)' /\ e \notin rest'.left => rest'.rows[e] \in {None, shadow[e]}
               /\ ~Answering(e)' /\ devsListed' => devs'[e] \in {None, NoValue, shadow[e]}
    BY <1>2, <1>3, <1>4, <1>5, <2>2, <2>4 DEF ValueInv, SameMark
  <2>5. QED BY <1>2, <1>3, <1>5, <2>1, <2>2, <2>3, <2>4, AnswerStep
<1>6. CASE /\ UNCHANGED <<devs, devsListed>>
           /\ astray' = IF devsListed THEN astray \cup rest.about \X {"row", "value"} ELSE astray
  <2>1. ASSUME NEW e, NEW m
        PROVE  SameMark(e, m)
    BY <1>6 DEF SameMark
  <2>2. ASSUME NEW e \in Devices, Answering(e), devsListed
        PROVE  <<e, "row">> \in astray' /\ <<e, "value">> \in astray'
    BY <1>6, <2>2 DEF Answering
  <2>3. ASSUME NEW e \in Devices
        PROVE  RowInv(e)'
    <3>1. CASE Answering(e)
      BY <1>4, <1>6, <2>2, <3>1 DEF RowInv
    <3>2. CASE ~Answering(e)
      BY <1>2, <1>4, <1>6, <2>1, <3>2 DEF RowInv, SameMark
    <3>3. QED BY <3>1, <3>2
  <2>4. ASSUME NEW e \in Devices, <<e, "value">> \notin astray', Settled(e, "report")
        PROVE  /\ Answering(e)' /\ e \notin rest'.left => rest'.rows[e] \in {None, shadow[e]}
               /\ ~Answering(e)' /\ devsListed' => devs'[e] \in {None, NoValue, shadow[e]}
    <3>1. CASE Answering(e)
      BY <1>4, <1>6, <2>2, <2>4, <3>1
    <3>2. CASE ~Answering(e)
      BY <1>2, <1>3, <1>4, <1>6, <2>1, <2>4, <3>2 DEF ValueInv, SameMark
    <3>3. QED BY <3>1, <3>2
  <2>5. devs' \in [Devices -> Values \cup {None, NoValue}] /\ devsListed' \in BOOLEAN
    BY <1>1, <1>6 DEF DevTyped
  <2>6. QED BY <1>2, <1>3, <2>1, <2>3, <2>4, <2>5, AnswerStep
<1>7. QED BY <1>5, <1>6 DEF Answered

\* The pump takes a join or a leave: the other queues, the devices and the answer
\* under way stay, and no mirror comes right by the step alone.
LEMMA PresenceDrain ==
  ASSUME DevInv, NEW type \in {"join", "leave"}, devQueue[type] # <<>>, Drained(type),
         NEW d \in Devices, d = Head(devQueue[type]).id,
         UNCHANGED <<mirror, boot, open, pool, shadow, rest, devsListed, todo>>,
         devs' \in [Devices -> Values \cup {None, NoValue}],
         snap' \in [Publishers -> Snapshots \cup {None}],
         ha' \in [Devices -> DevNames \cup {None}],
         \A e, m : SameMark(e, m),
         \A e \in Devices : devs'[e] = devs[e] \/ (e = d /\ devs'[e] \in {None, NoValue}),
         \A e \in Devices \ {d} : SamePublications(e) /\ ha'[e] = ha[e],
         Waiting(d, type) => HaInv(d)',
         open /\ <<d, "row">> \notin astray' =>
           ~Answering(d) /\ (devs'[d] = None <=> type = "leave")
  PROVE  DevInv'
<1>1. DevTyped /\ ScopeInv
  BY DEF DevInv
<1>2. type \in DevTypes
  BY DEF DevTypes
<1>3. /\ Waiting(d, type)
      /\ DOMAIN devQueue' = DevTypes
      /\ \A u \in DevTypes : devQueue'[u] \in Seq(EventsOf(u))
      /\ \A u \in DevTypes \ {type} : devQueue'[u] = devQueue[u]
      /\ \A e : Waiting(e, type)' => Waiting(e, type)
      /\ \A e : e # d => (Waiting(e, type)' <=> Waiting(e, type))
  BY <1>1, <1>2, DrainEffect
<1>4. DevTyped'
  BY <1>1, <1>3 DEF DevTyped
<1>5. ScopeInv'
  BY <1>1, KeepScope
<1> SUFFICES ASSUME NEW e \in Devices
             PROVE  /\ PresenceInv(e, "row")' /\ PresenceInv(e, "ha")'
                    /\ HaInv(e)' /\ RowInv(e)' /\ ValueInv(e)'
  BY <1>4, <1>5 DEF DevInv
<1>6. /\ PresenceInv(e, "row") /\ PresenceInv(e, "ha")
      /\ HaInv(e) /\ RowInv(e) /\ ValueInv(e)
  BY DEF DevInv
<1>7. \A u \in {"join", "leave"} : /\ Waiting(e, u)' => Waiting(e, u)
                                   /\ e # d => (Waiting(e, u)' <=> Waiting(e, u))
  BY <1>3 DEF Waiting, DevTypes
<1>8. PresenceInv(e, "row")' /\ PresenceInv(e, "ha")'
  BY <1>6, <1>7, KeepPresence
<1>9. ValueInv(e)'
  <2>1. \A u \in {"report", "optimistic"} : devQueue'[u] = devQueue[u]
    BY <1>3 DEF DevTypes
  <2>2. devs'[e] = devs[e] \/ devs'[e] \in {None, NoValue}
    OBVIOUS
  <2>3. QED BY <1>6, <2>1, <2>2, SameQueue, KeepValue
<1>10. CASE e # d
  <2>1. Settled(e, "join")' => Settled(e, "join")
    BY <1>7, <1>10, SettledMeans
  <2>2. /\ SamePublications(e) /\ ha'[e] = ha[e] /\ devs'[e] = devs[e]
        /\ Owed(e) => Owed(e)'
    BY <1>10 DEF Owed
  <2>3. HaInv(e)'
    BY <1>6, <2>1, <2>2, KeepHa
  <2>4. RowInv(e)'
    BY <1>6, <2>1, <2>2, KeepRow
  <2>5. QED BY <1>8, <1>9, <2>3, <2>4
<1>11. CASE e = d
  <2>1. HaInv(e)'
    BY <1>3, <1>11
  <2>2. RowInv(e)'
    <3>1. SUFFICES ASSUME open, <<d, "row">> \notin astray'
                   PROVE  RowInv(e)'
      BY <1>11 DEF RowInv
    <3>2. <<d, "row">> \notin astray
      BY <3>1 DEF SameMark
    <3>3. pool[d] = None <=> type = "leave"
      BY <1>3, <1>6, <1>11, <3>2 DEF PresenceInv
    <3>4. ~Answering(d)' /\ (devs'[d] = None <=> pool'[d] = None)
      BY <3>1, <3>3 DEF Answering
    <3>5. QED BY <1>11, <3>4 DEF RowInv
  <2>3. QED BY <1>8, <1>9, <2>1, <2>2
<1>12. QED BY <1>10, <1>11

\* on_device_join, for the page and for Home Assistant.
LEMMA JoinDrain ==
  ASSUME DevInv, DrainJoin
  PROVE  DevInv'
<1>1. DevTyped /\ ScopeInv
  BY DEF DevInv
<1>2. PICK d : d = Head(devQueue["join"]).id
  OBVIOUS
<1>3. /\ snap[PumpTask] = None /\ devQueue["join"] # <<>> /\ Drained("join")
      /\ UNCHANGED <<mirror, boot, open, pool, shadow, rest, devsListed, ha, todo>>
  BY DEF DrainJoin, PumpIdle, vars
<1> DEFINE bad  == Head(devQueue["join"]).arg \in Quoted
           tell == pool[d] # None /\ mirror = "broker"
           new  == [id |-> d, name |-> pool[d]]
<1>4. PICK heard \in {open, FALSE}, told \in {tell, FALSE} :
      /\ devs' = IF heard /\ ~bad /\ devs[d] = None THEN [devs EXCEPT ![d] = NoValue] ELSE devs
      /\ snap' = IF told THEN [snap EXCEPT ![PumpTask] = new] ELSE snap
      /\ astray' = astray \cup Note(d, "row", open /\ (~heard \/ bad \/ Overtakes(d, "row")))
                          \cup Note(d, "ha", tell /\ (~told \/ Publishing(d)))
  BY <1>2, Zenon DEF DrainJoin
<1> HIDE DEF bad
<1>5. d \in Devices /\ Waiting(d, "join")
  BY <1>1, <1>2, <1>3, DrainEffect DEF DevTypes
<1>6. \A e, m : SameMark(e, m)
  BY <1>4 DEF SameMark
<1>7. PumpTask \in Publishers
  BY DEF Publishers
<1>8. told => new \in Snapshots
  BY <1>1, <1>5 DEF DevTyped, Snapshots
<1>9. snap' \in [Publishers -> Snapshots \cup {None}]
  BY <1>1, <1>4, <1>8 DEF DevTyped
<1>10. NoValue # None
  BY DeviceEventsAssumption
<1>11. /\ devs' \in [Devices -> Values \cup {None, NoValue}]
       /\ ha' \in [Devices -> DevNames \cup {None}]
  BY <1>1, <1>3, <1>4, <1>5 DEF DevTyped
<1>12. \A e \in Devices : devs'[e] = devs[e] \/ (e = d /\ devs'[e] \in {None, NoValue})
  BY <1>1, <1>4, <1>5 DEF DevTyped
<1>13. ASSUME NEW e \in Devices \ {d}
       PROVE  SamePublications(e) /\ ha'[e] = ha[e]
  <2>1. ASSUME NEW b \in Publishers
        PROVE  snap'[b] = snap[b] \/ (~About(b, e) /\ ~About(b, e)')
    <3>1. CASE b = PumpTask /\ told
      <4>1. snap'[b] = new
        BY <1>1, <1>4, <3>1 DEF DevTyped
      <4>2. QED BY <1>3, <1>13, <3>1, <4>1 DEF About
    <3>2. CASE ~(b = PumpTask /\ told)
      BY <1>1, <1>4, <3>2 DEF DevTyped
    <3>3. QED BY <3>1, <3>2
  <2>2. QED BY <1>3, <2>1 DEF SamePublications
<1>14. HaInv(d)'
  <2>1. SUFFICES ASSUME mirror = "broker", <<d, "ha">> \notin astray'
                 PROVE  HaInv(d)'
    BY <1>3 DEF HaInv
  <2>2. PresenceInv(d, "ha") /\ <<d, "ha">> \notin astray
    BY <1>5, <1>6, <2>1 DEF DevInv, SameMark
  <2>3. tell
    BY <1>5, <2>1, <2>2 DEF PresenceInv
  <2>4. told /\ ~Publishing(d)
    BY <1>4, <2>1, <2>3 DEF Note
  <2>5. /\ snap' = [snap EXCEPT ![PumpTask] = [id |-> d, name |-> pool'[d]]]
        /\ [id |-> d, name |-> pool'[d]] \in Snapshots
    BY <1>3, <1>4, <1>8, <2>4
  <2>6. snap \in [Publishers -> Snapshots \cup {None}]
    BY <1>1 DEF DevTyped
  <2>7. QED BY <1>7, <2>4, <2>5, <2>6, FreshSnapshot
<1>15. ASSUME open, <<d, "row">> \notin astray'
       PROVE  ~Answering(d) /\ devs'[d] # None
  <2>1. heard /\ ~bad /\ ~Answering(d)
    BY <1>4, <1>15 DEF Note, Overtakes
  <2>2. QED BY <1>1, <1>4, <1>5, <1>10, <1>15, <2>1 DEF DevTyped
<1> HIDE DEF tell, new
<1>16. QED BY <1>2, <1>3, <1>5, <1>6, <1>9, <1>11, <1>12, <1>13, <1>14, <1>15, PresenceDrain

\* on_device_leave and ha_bridge_device_removed.
LEMMA LeaveDrain ==
  ASSUME DevInv, DrainLeave
  PROVE  DevInv'
<1>1. DevTyped /\ ScopeInv
  BY DEF DevInv
<1>2. PICK d : d = Head(devQueue["leave"]).id
  OBVIOUS
<1>3. /\ devQueue["leave"] # <<>> /\ Drained("leave")
      /\ UNCHANGED <<mirror, boot, open, pool, shadow, rest, devsListed, snap, todo>>
  BY DEF DrainLeave, vars
<1>4. PICK heard \in {open, FALSE} :
      /\ devs' = IF heard THEN [devs EXCEPT ![d] = None] ELSE devs
      /\ ha' = [ha EXCEPT ![d] = None]
      /\ astray' = astray \cup Note(d, "row", open /\ (~heard \/ Overtakes(d, "row")))
                          \cup Note(d, "ha", Publishing(d))
  BY <1>2 DEF DrainLeave, RowGone
<1>5. d \in Devices /\ Waiting(d, "leave")
  BY <1>1, <1>2, <1>3, DrainEffect DEF DevTypes
<1>6. \A e, m : SameMark(e, m)
  BY <1>4 DEF SameMark
<1>7. /\ devs' \in [Devices -> Values \cup {None, NoValue}]
      /\ snap' \in [Publishers -> Snapshots \cup {None}]
      /\ ha' \in [Devices -> DevNames \cup {None}]
  BY <1>1, <1>3, <1>4, <1>5 DEF DevTyped
<1>8. \A e \in Devices : devs'[e] = devs[e] \/ (e = d /\ devs'[e] \in {None, NoValue})
  BY <1>1, <1>4, <1>5 DEF DevTyped
<1>9. ASSUME NEW e \in Devices \ {d}
      PROVE  SamePublications(e) /\ ha'[e] = ha[e]
  BY <1>1, <1>3, <1>4, <1>9 DEF SamePublications, DevTyped
<1>10. HaInv(d)'
  <2>1. SUFFICES ASSUME <<d, "ha">> \notin astray'
                 PROVE  HaInv(d)'
    BY DEF HaInv
  <2>2. PresenceInv(d, "ha") /\ <<d, "ha">> \notin astray
    BY <1>5, <1>6, <2>1 DEF DevInv, SameMark
  <2>3. pool'[d] = None /\ ha'[d] = None
    BY <1>1, <1>3, <1>4, <1>5, <2>2 DEF PresenceInv, DevTyped
  <2>4. ~Publishing(d)
    BY <1>4, <2>1 DEF Note
  <2>5. ~Publishing(d)' /\ \A a \in Publishers : ~About(a, d)'
    BY <1>3, <2>4 DEF Publishing, About
  <2>6. QED BY <2>3, <2>5 DEF HaInv
<1>11. ASSUME open, <<d, "row">> \notin astray'
       PROVE  ~Answering(d) /\ devs'[d] = None
  BY <1>1, <1>4, <1>5, <1>11 DEF Note, Overtakes, DevTyped
<1>12. QED BY <1>2, <1>3, <1>5, <1>6, <1>7, <1>8, <1>9, <1>10, <1>11, PresenceDrain

\* on_zcl_attr pushes the value, on_attr publishes the state.
LEMMA AttrDrain ==
  ASSUME DevInv, NEW type \in AttrTypes, DrainAttr(type)
  PROVE  DevInv'
<1>1. DevTyped /\ ScopeInv
  BY DEF DevInv
<1>2. PICK d, v : d = Head(devQueue[type]).id /\ v = Head(devQueue[type]).arg
  OBVIOUS
<1>3. PICK heard \in {open, FALSE} :
      /\ devQueue[type] # <<>> /\ Drained(type)
      /\ devs' = IF heard /\ v \notin Wide /\ devs[d] # None THEN [devs EXCEPT ![d] = v] ELSE devs
      /\ astray' = astray \cup
           Note(d, "value", open /\ (~heard \/ v \in Wide \/ Overtakes(d, "value")))
      /\ UNCHANGED <<mirror, boot, open, pool, shadow, rest, devsListed, ha, snap, todo>>
  BY <1>2 DEF DrainAttr, PushAttr, vars
<1>4. type \in {"report", "optimistic"} /\ type \in DevTypes
  BY DEF AttrTypes, DevTypes
<1>5. /\ d \in Devices /\ Waiting(d, type) /\ v \in Values
      /\ DOMAIN devQueue' = DevTypes
      /\ \A u \in DevTypes : devQueue'[u] \in Seq(EventsOf(u))
      /\ \A u \in DevTypes \ {type} : devQueue'[u] = devQueue[u]
      /\ \A e : Waiting(e, type)' => Waiting(e, type)
      /\ \A e : e # d => (Waiting(e, type)' <=> Waiting(e, type))
      /\ \A e, w : Latest(devQueue[type], e, w) => Latest(devQueue'[type], e, w)
      /\ \A w : ~Waiting(d, type)' /\ Latest(devQueue[type], d, w) => v = w
  <2>1. /\ d \in Devices /\ Waiting(d, type)
        /\ Head(devQueue[type]) \in EventsOf(type)
        /\ DOMAIN devQueue' = DevTypes
        /\ \A u \in DevTypes : devQueue'[u] \in Seq(EventsOf(u))
        /\ \A u \in DevTypes \ {type} : devQueue'[u] = devQueue[u]
        /\ \A e : Waiting(e, type)' => Waiting(e, type)
        /\ \A e : e # d => (Waiting(e, type)' <=> Waiting(e, type))
        /\ \A e, w : Latest(devQueue[type], e, w) => Latest(devQueue'[type], e, w)
        /\ \A w : ~Waiting(d, type)' /\ Latest(devQueue[type], d, w) =>
                    Head(devQueue[type]).arg = w
    BY <1>1, <1>2, <1>3, <1>4, DrainEffect
  <2>2. v \in Values
    BY <1>2, <1>4, <2>1 DEF EventsOf
  <2>3. QED BY <1>2, <2>1, <2>2
<1>6. v # None
  BY <1>5, DeviceEventsAssumption
<1>7. DevTyped'
  BY <1>1, <1>3, <1>5 DEF DevTyped
<1>8. ScopeInv'
  BY <1>1, <1>3, KeepScope
<1> SUFFICES ASSUME NEW e \in Devices
             PROVE  /\ PresenceInv(e, "row")' /\ PresenceInv(e, "ha")'
                    /\ HaInv(e)' /\ RowInv(e)' /\ ValueInv(e)'
  BY <1>7, <1>8 DEF DevInv
<1>9. /\ PresenceInv(e, "row") /\ PresenceInv(e, "ha")
      /\ HaInv(e) /\ RowInv(e) /\ ValueInv(e)
  BY DEF DevInv
<1>10. \A m : SameMark(e, m)
  BY <1>3 DEF SameMark
<1>11. \A u \in {"join", "leave"} : Waiting(e, u)' <=> Waiting(e, u)
  BY <1>4, <1>5 DEF Waiting, DevTypes
<1>12. PresenceInv(e, "row")' /\ PresenceInv(e, "ha")'
  BY <1>3, <1>9, <1>10, <1>11, KeepPresence
<1>13. Settled(e, "join")' => Settled(e, "join")
  BY <1>11, SettledMeans
<1>14. HaInv(e)'
  <2>1. SamePublications(e) /\ (Owed(e) => Owed(e)')
    BY <1>3 DEF SamePublications, Owed
  <2>2. QED BY <1>3, <1>9, <1>10, <1>13, <2>1, KeepHa
<1>15. RowInv(e)'
  <2>1. devs'[e] = None <=> devs[e] = None
    BY <1>1, <1>3, <1>5, <1>6 DEF DevTyped
  <2>2. QED BY <1>3, <1>9, <1>10, <1>13, <2>1, KeepRow
<1>16. CASE e # d
  <2>1. devs'[e] = devs[e]
    BY <1>1, <1>3, <1>5, <1>16 DEF DevTyped
  <2>2. ASSUME NEW u \in {"report", "optimistic"}
        PROVE  /\ Waiting(e, u)' <=> Waiting(e, u)
               /\ Latest(devQueue[u], e, shadow[e]) => Latest(devQueue'[u], e, shadow[e])
    <3>1. CASE u = type
      BY <1>5, <1>16, <3>1
    <3>2. CASE u # type
      BY <1>5, <3>2 DEF Waiting, DevTypes
    <3>3. QED BY <3>1, <3>2
  <2>3. ValueInv(e)'
    BY <1>3, <1>9, <1>10, <2>1, <2>2, KeepValue
  <2>4. QED BY <1>12, <1>14, <1>15, <2>3
<1>17. CASE e = d
  <2>1. SUFFICES ASSUME <<e, "value">> \notin astray'
                 PROVE  ValueInv(e)'
    BY <1>12, <1>14, <1>15 DEF ValueInv
  <2>2. /\ ~(Waiting(e, "report") /\ Waiting(e, "optimistic"))
        /\ \A u \in {"report", "optimistic"} : Latest(devQueue[u], e, shadow[e])
    BY <1>9, <1>10, <2>1 DEF ValueInv, SameMark
  <2>3. \A u \in {"report", "optimistic"} :
          /\ Waiting(e, u)' => Waiting(e, u)
          /\ Latest(devQueue'[u], e, shadow'[e])
    BY <1>3, <1>5, <2>2 DEF Waiting, DevTypes
  <2>4. ASSUME open, Settled(e, "report")'
        PROVE  /\ Answering(e) => e \in rest.left
               /\ ~Answering(e) /\ devsListed => devs'[e] \in {None, NoValue, shadow[e]}
    <3>1. heard /\ v \notin Wide /\ ~Overtakes(d, "value")
      BY <1>3, <1>17, <2>1, <2>4 DEF Note
    <3>2. Answering(e) => e \in rest.left
      BY <1>17, <3>1 DEF Overtakes
    <3>3. ~Waiting(d, type)'
      BY <1>4, <1>17, <2>4, SettledMeans
    <3>4. v = shadow[e]
      BY <1>4, <1>5, <1>17, <2>2, <3>3
    <3>5. devs'[e] = None \/ devs'[e] = v
      BY <1>1, <1>3, <1>5, <1>17, <2>4, <3>1 DEF DevTyped
    <3>6. QED BY <3>2, <3>4, <3>5
  <2>5. Answering(e)' <=> Answering(e)
    BY <1>3 DEF Answering
  <2>6. QED BY <1>3, <2>2, <2>3, <2>4, <2>5 DEF ValueInv
<1>18. QED BY <1>16, <1>17

\* Nothing has been heard, shown or published.
LEMMA DevicesInit == DevInit => DevInv
<1> SUFFICES ASSUME DevInit
             PROVE  DevInv
  OBVIOUS
<1>1. /\ mirror \in {"rules", "page", "broker"} /\ boot = 1 /\ open = FALSE
      /\ devs = NoRows /\ rest = None /\ devsListed = FALSE /\ ha = NoRows /\ todo = None
      /\ snap = [a \in Publishers |-> None] /\ astray = {}
      /\ devQueue = [type \in DevTypes |-> <<>>]
  BY DEF DevInit, Init
<1>2. shadow \in [Devices -> Values]
  BY DeviceEventsAssumption DEF DevInit
<1>3. pool \in [Devices -> DevNames \cup {None}]
  <2>1. PICK n \in {None} \cup (DevNames \ Quoted) : pool = [d \in Devices |-> n]
    BY DEF DevInit
  <2>2. QED BY <2>1
<1>4. \A S : <<>> \in Seq(S)
  BY EmptySeq
<1>5. DevTyped
  BY <1>1, <1>2, <1>3, <1>4 DEF DevTyped, NoRows
<1>6. ScopeInv
  BY <1>1 DEF ScopeInv
<1> SUFFICES ASSUME NEW d \in Devices
             PROVE  /\ PresenceInv(d, "row") /\ PresenceInv(d, "ha")
                    /\ HaInv(d) /\ RowInv(d) /\ ValueInv(d)
  BY <1>5, <1>6 DEF DevInv
<1>7. \A type \in DevTypes : ~Waiting(d, type)
  BY <1>1, NothingQueued DEF Waiting
<1>8. PresenceInv(d, "row") /\ PresenceInv(d, "ha")
  BY <1>7 DEF PresenceInv, DevTypes
<1>9. HaInv(d)
  <2>1. ~Publishing(d) /\ \A a \in Publishers : ~About(a, d)
    BY <1>1 DEF Publishing, About
  <2>2. ~Owed(d) => ha[d] = pool[d]
    BY <1>1 DEF Owed, NoRows
  <2>3. QED BY <2>1, <2>2 DEF HaInv
<1>10. RowInv(d)
  BY <1>1 DEF RowInv
<1>11. ValueInv(d)
  <2>1. \A type \in {"report", "optimistic"} : Latest(devQueue[type], d, shadow[d])
    BY <1>5, <1>7, LatestOfNone DEF DevTyped, DevTypes, Waiting
  <2>2. QED BY <1>1, <1>7, <2>1 DEF ValueInv, DevTypes
<1>12. QED BY <1>8, <1>9, <1>10, <1>11

\* SetAttr, by whichever door.
LEMMA SetAttrStep ==
  ASSUME DevInv, NEW d \in Devices, NEW v \in Values, SetAttr(d, v),
         UNCHANGED <<mirror, boot, open, pool, devs, rest, devsListed, ha, snap, todo>>
  PROVE  DevInv'
BY ValueStep DEF SetAttr

\* Every step keeps the invariant.
LEMMA DevicesStep ==
  ASSUME DevInv, DevNext \/ UNCHANGED allVars
  PROVE  DevInv'
<1>0. DevTyped
  BY DEF DevInv
<1>1. CASE UNCHANGED allVars
  BY <1>1, CalmStep DEF allVars, vars, devVars
<1>2. CASE Boot \/ Published
  BY <1>2, CalmStep DEF Boot, Published, Elsewhere, vars
<1>3. CASE Join
  <2>1. PICK d \in Devices, n \in DevNames :
          /\ pool[d] = None /\ pool' = [pool EXCEPT ![d] = n] /\ Post("join", d, n)
          /\ UNCHANGED <<mirror, boot, open, shadow, devs, rest, devsListed, ha, snap, todo>>
    BY <1>3 DEF Join, Elsewhere
  <2>2. n # None
    BY DeviceEventsAssumption
  <2>3. QED BY <2>1, <2>2, PresenceStep
<1>4. ASSUME NEW d \in Devices, Removed(d)
      PROVE  DevInv'
  <2>1. /\ pool[d] # None /\ pool' = [pool EXCEPT ![d] = None] /\ Post("leave", d, None)
        /\ UNCHANGED <<mirror, boot, open, shadow, devs, rest, devsListed, ha, snap, todo>>
    BY <1>4 DEF Removed, Elsewhere
  <2>2. QED BY <2>1, PresenceStep
<1>5. CASE Leave \/ \E t \in Tasks : DeviceDelete(t)
  BY <1>4, <1>5 DEF Leave, DeviceDelete
<1>6. CASE Report
  <2>1. PICK d \in Devices, v \in Values :
          /\ shadow' = [shadow EXCEPT ![d] = v] /\ Post("report", d, v)
          /\ UNCHANGED <<mirror, boot, open, pool, devs, rest, devsListed, ha, snap, todo>>
    BY <1>6 DEF Report, Elsewhere
  <2>2. QED BY <2>1, ValueStep
<1>7. ASSUME NEW t, AttrCommand(t)
      PROVE  DevInv'
  <2>1. PICK d \in Devices, v \in Values :
          /\ SetAttr(d, v)
          /\ UNCHANGED <<mirror, boot, open, pool, devs, rest, devsListed, ha, snap, todo>>
    BY <1>7 DEF AttrCommand, Elsewhere
  <2>2. QED BY <2>1, SetAttrStep
<1>8. CASE DeviceState \/ RuleActs \/ \E t \in Tasks : AttrSet(t)
  BY <1>7, <1>8 DEF DeviceState, RuleActs, AttrSet
<1>9. ASSUME NEW t \in Tasks, DeviceRename(t)
      PROVE  DevInv'
  <2>1. PICK d \in Devices, n \in DevNames :
          /\ snap[t] = None /\ pool[d] # None /\ pool' = [pool EXCEPT ![d] = n]
          /\ Snapshot(t, d, pool')
          /\ UNCHANGED <<mirror, boot, open, shadow, devQueue, devs, rest, devsListed, ha, todo>>
    BY <1>9 DEF DeviceRename, Idle, ChangedHook, Elsewhere
  <2>2. t \in Publishers /\ n # None
    BY DeviceEventsAssumption DEF Publishers
  <2>3. /\ pool' \in [Devices -> DevNames \cup {None}]
        /\ \A e \in Devices \ {d} : pool'[e] = pool[e]
        /\ pool'[d] = None <=> pool[d] = None
    BY <1>0, <2>1, <2>2 DEF DevTyped
  <2>4. QED BY <2>1, <2>2, <2>3, SnapshotStep
<1>10. CASE ForEachDevice
  <2>1. PICK d \in todo :
          /\ todo # None /\ snap[Mqtt] = None /\ todo' = todo \ {d} /\ Snapshot(Mqtt, d, pool)
          /\ UNCHANGED <<mirror, boot, open, pool, shadow, devQueue, devs, rest, devsListed, ha>>
    BY <1>10 DEF ForEachDevice, vars
  <2>2. d \in Devices /\ Mqtt \in Publishers
    BY <1>0, <2>1 DEF DevTyped, Publishers
  <2>3. Snapshot(Mqtt, d, pool')
    BY <2>1
  <2>4. pool' \in [Devices -> DevNames \cup {None}]
    BY <1>0, <2>1 DEF DevTyped
  <2>5. QED BY <2>1, <2>2, <2>3, <2>4, SnapshotStep
<1>11. CASE MqttConnected
  BY <1>11, ConnectStep
<1>12. CASE OnMqttRx \/ DrainMessage
  <2>1. /\ UNCHANGED <<mirror, boot, open, pool, devs, rest, devsListed, ha, snap, todo>>
        /\ \/ \E d \in Devices, v \in Values : SetAttr(d, v)
           \/ UNCHANGED <<shadow, devQueue, astray>>
    BY <1>12 DEF OnMqttRx, DrainMessage, vars
  <2>2. CASE \E d \in Devices, v \in Values : SetAttr(d, v)
    BY <2>1, <2>2, SetAttrStep
  <2>3. CASE UNCHANGED <<shadow, devQueue, astray>>
    BY <2>1, <2>3, CalmStep
  <2>4. QED BY <2>1, <2>2, <2>3
<1>13. ASSUME NEW t \in Tasks, RuleCommand(t)
       PROVE  DevInv'
  <2>1. UNCHANGED devVars /\ open' = open
    BY <1>13 DEF RuleCommand, CmdRuleCreate, CmdRuleUpdate, CmdRuleDelete, PostRules,
                 RulesItem, Serve
  <2>2. QED BY <2>1, CalmStep DEF devVars
<1>14. CASE RuleList \/ RuleListSent \/ DrainRule \/ LoadRule \/ PushRule
  <2>1. UNCHANGED devVars /\ open' = open
    BY <1>14 DEF RuleList, RuleListSent, DrainRule, LoadRule, PushRule, ListLoad, ListReply,
                 PumpTake, PumpLoad, PumpPush
  <2>2. QED BY <2>1, CalmStep DEF devVars
<1>15. ASSUME NEW a \in Publishers, HaPublish(a)
       PROVE  DevInv'
  BY <1>15, PublishStep
<1>16. CASE OpenPage \/ ClosePage
  BY <1>16, VisitStep
<1>17. CASE CopyPool \/ DeviceGet \/ ReadAttrs \/ Answered
  BY <1>17, CopyStep, GetStep, ReadStep, AnsweredStep
<1>18. CASE DrainJoin \/ DrainLeave \/ \E type \in AttrTypes : DrainAttr(type)
  BY <1>18, JoinDrain, LeaveDrain, AttrDrain
<1>19. QED
  BY <1>1, <1>2, <1>3, <1>5, <1>6, <1>8, <1>9, <1>10, <1>11, <1>12, <1>13, <1>14, <1>15,
     <1>16, <1>17, <1>18 DEF DevNext

(***************************************************************************)
(* The theorems about the devices                                          *)
(***************************************************************************)

\* In every behaviour, of each device whose events were neither lost nor crossed,
\* the queues, the publications and the answers under way account for every
\* difference between the hub and what its mirrors show.
THEOREM DevicesInvariance == DevSpec => []DevInv
<1>1. DevInit => DevInv
  BY DevicesInit
<1>2. DevInv /\ [DevNext]_allVars => DevInv'
  BY DevicesStep
<1>3. QED BY <1>1, <1>2, PTL DEF DevSpec

\* When nothing waits, every device is settled.
LEMMA QuietSettles ==
  ASSUME Quiet, NEW d
  PROVE  Settled(d, "join") /\ Settled(d, "report")
<1>1. \A type \in DevTypes : ~Waiting(d, type)
  BY NothingQueued DEF Quiet, Waiting
<1>2. QED BY <1>1, SettledMeans DEF DevTypes

\* Once the pump has drained what was published, an open page that has its list
\* shows just the devices that are there, with their last values, but for those
\* that went astray: on_device_join, on_device_leave and on_zcl_attr, fed with
\* every type, lose nothing that the list or the next event does not repair.
THEOREM PageFollowsDevices == DevSpec => []PageShowsDevices
<1>1. DevInv => PageShowsDevices
  <2> SUFFICES ASSUME DevInv, Quiet, open, devsListed, NEW d \in Devices,
                      ~Answering(d), <<d, "row">> \notin astray
               PROVE  /\ devs[d] = None <=> pool[d] = None
                      /\ pool[d] # None /\ <<d, "value">> \notin astray =>
                           devs[d] \in {shadow[d], NoValue}
    BY DEF PageShowsDevices, DevicesAgree
  <2>1. RowInv(d) /\ ValueInv(d)
    BY DEF DevInv
  <2>2. Settled(d, "join") /\ Settled(d, "report")
    BY QuietSettles
  <2>3. devs[d] = None <=> pool[d] = None
    BY <2>1, <2>2 DEF RowInv
  <2>4. <<d, "value">> \notin astray => devs[d] \in {None, NoValue, shadow[d]}
    BY <2>1, <2>2 DEF ValueInv
  <2>5. QED BY <2>3, <2>4
<1>2. QED BY <1>1, DevicesInvariance, PTL

\* Once everything is published, Home Assistant shows every live device under its
\* last name and no other, but for those that went astray: the renames of any
\* task, the joins, the leaves and for_each_device after every connection.
THEOREM HaFollowsDevices == DevSpec => []HaShowsDevices
<1>1. DevInv => HaShowsDevices
  <2> SUFFICES ASSUME DevInv, Quiet, todo = {}, \A a \in Publishers : snap[a] = None,
                      NEW d \in Devices, <<d, "ha">> \notin astray
               PROVE  ha[d] = pool[d]
    BY DEF HaShowsDevices
  <2>1. HaInv(d) /\ ScopeInv
    BY DEF DevInv
  <2>2. Settled(d, "join")
    BY QuietSettles
  <2>3. todo # None
    BY DeviceEventsAssumption
  <2>4. mirror = "broker" /\ ~Owed(d) /\ ~Publishing(d)
    BY <2>1, <2>3 DEF ScopeInv, Owed, Publishing
  <2>5. QED BY <2>1, <2>2, <2>4 DEF HaInv
<1>2. QED BY <1>1, DevicesInvariance, PTL
=============================================================================
