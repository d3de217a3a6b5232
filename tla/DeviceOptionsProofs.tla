------------------------ MODULE DeviceOptionsProofs ------------------------
(***************************************************************************)
(* What DeviceOptions promises about the options of a device, for any      *)
(* tasks, addresses, values and bodies, any NVS error and any restart.     *)
(***************************************************************************)
EXTENDS DeviceOptions, TLAPS

(***************************************************************************)
(* The inductive invariant                                                 *)
(***************************************************************************)

\* The options o hold what a body says in the fields before the n-th: that of
\* flood_protection until debounce_ms takes its place.
SoFar(o, b, n) ==
  /\ n > 1 /\ "occupancy_timeout" \in DOMAIN b =>
       o["occupancy"] = b["occupancy_timeout"] % Wrap
  /\ n > 2 /\ "flood_protection" \in DOMAIN b /\ (n = 3 \/ "debounce_ms" \notin DOMAIN b) =>
       o["debounce"] = b["flood_protection"]
  /\ n > 3 /\ "debounce_ms" \in DOMAIN b => o["debounce"] = b["debounce_ms"]
  /\ n > 4 /\ "throttle_ms" \in DOMAIN b => o["throttle"] = b["throttle_ms"]

Valid == {o \in [Options -> Nat] : o["occupancy"] < Wrap}

\* A body, or what is left of it when a boot loses some of its fields.
Parts == UNION {[S -> Nat] : S \in SUBSET Names}

Requests == [ieee : Ieees, body : Bodies, long : BOOLEAN]

TypeInv == TypeOK /\ req \in [Tasks -> Requests \cup {None}] /\ DOMAIN sent = Ieees

\* A task whose request has run into nothing serves its device alone, and the
\* options of the device are what that task has made of them.
ServedInv ==
  \A t \in Tasks \ dirty, i \in Ieees : Serving(t, i) =>
    /\ \A u \in Tasks : Serving(u, i) => u = t
    /\ SoFar(shadow[i], req[t].body, todo[t])

\* With no task at work on a device, its options are those of the stored body.
StoredInv ==
  \A i \in Ieees \ unsettled :
    OwnKey(i) /\ (\A t \in Tasks : ~Serving(t, i)) =>
      IF flash[i] = None THEN shadow[i] = Default ELSE SoFar(shadow[i], flash[i], 5)

\* Each option of o is as at a start or as one of the bodies says.
From(o, bodies) ==
  \A x \in Options :
    \/ o[x] = Default[x]
    \/ \E b \in bodies : \E f \in DOMAIN b : OptionOf[f] = x /\ o[x] = AsPassed(f, b[f])

\* A body on its way, in flash or in force was sent for a device with its key.
SentInv ==
  /\ \A t \in Tasks, i \in Ieees : Serving(t, i) => req[t].body \in sent[i]
  /\ \A k \in Keys : flash[k] # None => \E i \in Ieees : KeyFor(i) = k /\ flash[k] \in sent[i]
  /\ \A i \in Ieees : Unshadowed(i) => From(shadow[i], sent[i])

IInv == TypeInv /\ ServedInv /\ SentInv

(***************************************************************************)
(* Bodies and options                                                      *)
(***************************************************************************)

LEMMA BodyFacts ==
  ASSUME NEW b \in Parts
  PROVE  \A f \in DOMAIN b : f \in Names /\ b[f] \in Nat
  <1>1. PICK S \in SUBSET Names : b \in [S -> Nat]
    BY DEF Parts
  <1> QED
    BY <1>1

LEMMA BodyParts ==
  ASSUME NEW b \in Bodies
  PROVE  /\ b \in Parts
         /\ \A i, lost : Without(b, i, lost) \in Parts
  <1>1. PICK S \in BodyFields : b \in [S -> Values]
    BY DEF Bodies
  <1>2. S \in SUBSET Names /\ b \in [S -> Nat]
    BY <1>1, OptionsAssumption
  <1>3. ASSUME NEW i, NEW lost
        PROVE  Without(b, i, lost) \in Parts
    <2> DEFINE T == {g \in DOMAIN b : <<i, g>> \notin lost}
    <2>1. T \in SUBSET Names /\ T \subseteq S
      BY <1>2
    <2>2. [f \in T |-> b[f]] \in [T -> Nat]
      BY <1>2, <2>1
    <2> QED
      BY <2>1, <2>2 DEF Without, Parts
  <1> QED
    BY <1>2, <1>3 DEF Parts

LEMMA FieldNames ==
  /\ Fields[1] = "occupancy_timeout" /\ Fields[2] = "flood_protection"
  /\ Fields[3] = "debounce_ms" /\ Fields[4] = "throttle_ms"
  /\ Names = {Fields[1], Fields[2], Fields[3], Fields[4]}
  BY DEF Fields, Names

LEMMA OptionNames ==
  /\ OptionOf["occupancy_timeout"] = "occupancy" /\ OptionOf["flood_protection"] = "debounce"
  /\ OptionOf["debounce_ms"] = "debounce" /\ OptionOf["throttle_ms"] = "throttle"
  BY DEF OptionOf

LEMMA PassedValue ==
  ASSUME NEW v \in Nat, NEW f
  PROVE  /\ AsPassed(f, v) \in Nat
         /\ f = "occupancy_timeout" => AsPassed(f, v) = v % Wrap /\ v % Wrap < Wrap
         /\ f # "occupancy_timeout" => AsPassed(f, v) = v
  BY OptionsAssumption DEF AsPassed

LEMMA SetFieldValid ==
  ASSUME NEW o \in Valid, NEW b \in Parts, NEW f \in Names
  PROVE  SetField(o, b, f) \in Valid
  <1>1. CASE f \notin DOMAIN b
    BY <1>1 DEF SetField
  <1>2. CASE f \in DOMAIN b
    <2>1. b[f] \in Nat
      BY <1>2, BodyFacts
    <2>2. PICK v \in Nat : v = AsPassed(f, b[f]) /\ (f = "occupancy_timeout" => v < Wrap)
      BY <2>1, PassedValue
    <2>3. SetField(o, b, f) = [o EXCEPT ![OptionOf[f]] = v]
      BY <1>2, <2>2 DEF SetField
    <2>4. OptionOf[f] \in Options /\ (OptionOf[f] = "occupancy" => f = "occupancy_timeout")
      BY FieldNames, OptionNames DEF Options
    <2> QED
      BY <2>2, <2>3, <2>4 DEF Valid, Options
  <1> QED
    BY <1>1, <1>2

\* A setter call adds its field to what holds, and spoils nothing it should not.
LEMMA SetFieldSoFar ==
  ASSUME NEW o \in Valid, NEW b \in Parts, NEW n \in 1..4, SoFar(o, b, n)
  PROVE  SoFar(SetField(o, b, Fields[n]), b, n + 1)
  <1> DEFINE f == Fields[n]
             p == SetField(o, b, f)
  <1>1. f \in Names
    BY DEF Names
  <1>2. f \in DOMAIN b =>
          /\ p[OptionOf[f]] = IF f = "occupancy_timeout" THEN b[f] % Wrap ELSE b[f]
          /\ \A x \in Options \ {OptionOf[f]} : p[x] = o[x]
    <2> SUFFICES ASSUME f \in DOMAIN b
                 PROVE  /\ p[OptionOf[f]] = IF f = "occupancy_timeout" THEN b[f] % Wrap ELSE b[f]
                        /\ \A x \in Options \ {OptionOf[f]} : p[x] = o[x]
      OBVIOUS
    <2>1. OptionOf[f] \in Options /\ DOMAIN o = Options
      BY <1>1, FieldNames, OptionNames DEF Options, Valid
    <2>2. p = [o EXCEPT ![OptionOf[f]] = AsPassed(f, b[f])]
      BY DEF SetField
    <2>3. AsPassed(f, b[f]) = IF f = "occupancy_timeout" THEN b[f] % Wrap ELSE b[f]
      BY DEF AsPassed
    <2> HIDE DEF f, p
    <2> QED
      BY <2>1, <2>2, <2>3
  <1>3. f \notin DOMAIN b => p = o
    BY DEF SetField
  <1> HIDE DEF p
  <1>4. ASSUME n = 1 PROVE SoFar(p, b, n + 1)
    BY <1>2, <1>3, <1>4, FieldNames, OptionNames DEF SoFar, Options
  <1>5. ASSUME n = 2 PROVE SoFar(p, b, n + 1)
    BY <1>2, <1>3, <1>5, FieldNames, OptionNames DEF SoFar, Options
  <1>6. ASSUME n = 3 PROVE SoFar(p, b, n + 1)
    BY <1>2, <1>3, <1>6, FieldNames, OptionNames DEF SoFar, Options
  <1>7. ASSUME n = 4 PROVE SoFar(p, b, n + 1)
    BY <1>2, <1>3, <1>7, FieldNames, OptionNames DEF SoFar, Options
  <1> QED
    BY <1>4, <1>5, <1>6, <1>7 DEF p

LEMMA DefaultValid == Default \in Valid
  BY OptionsAssumption DEF Default, Valid, Options

\* What a boot makes of a body is what the body says.
LEMMA Applied ==
  ASSUME NEW b \in Parts
  PROVE  ApplyOpts(Default, b) \in Valid /\ SoFar(ApplyOpts(Default, b), b, 5)
  <1> DEFINE o1 == SetField(Default, b, Fields[1])
             o2 == SetField(o1, b, Fields[2])
             o3 == SetField(o2, b, Fields[3])
             o4 == SetField(o3, b, Fields[4])
  <1>1. SoFar(Default, b, 1)
    BY DEF SoFar
  <1>2. \A n \in 1..4 : Fields[n] \in Names
    BY DEF Names
  <1>3. o1 \in Valid /\ SoFar(o1, b, 1 + 1)
    BY <1>1, <1>2, DefaultValid, SetFieldValid, SetFieldSoFar
  <1> HIDE DEF o1
  <1>4. o2 \in Valid /\ SoFar(o2, b, 2 + 1)
    BY <1>2, <1>3, SetFieldValid, SetFieldSoFar
  <1> HIDE DEF o2
  <1>5. o3 \in Valid /\ SoFar(o3, b, 3 + 1)
    BY <1>2, <1>4, SetFieldValid, SetFieldSoFar
  <1> HIDE DEF o3
  <1>6. o4 \in Valid /\ SoFar(o4, b, 4 + 1)
    BY <1>2, <1>5, SetFieldValid, SetFieldSoFar
  <1>7. ApplyOpts(Default, b) = o4
    BY DEF ApplyOpts, o1, o2, o3
  <1> QED
    BY <1>6, <1>7

\* A setter call leaves the options from the bodies they are from, and this one.
LEMMA SetFieldFrom ==
  ASSUME NEW bodies, NEW b \in bodies, NEW p, DOMAIN p \subseteq DOMAIN b,
         \A f \in DOMAIN p : p[f] = b[f],
         NEW o \in Valid, From(o, bodies), NEW g \in Names
  PROVE  From(SetField(o, p, g), bodies)
  <1>1. CASE g \notin DOMAIN p
    BY <1>1 DEF SetField
  <1>2. CASE g \in DOMAIN p
    <2> DEFINE q == SetField(o, p, g)
    <2>1. q = [o EXCEPT ![OptionOf[g]] = AsPassed(g, p[g])]
      BY <1>2 DEF SetField
    <2>2. DOMAIN o = Options /\ p[g] = b[g] /\ g \in DOMAIN b
      BY <1>2 DEF Valid
    <2> HIDE DEF q
    <2>3. ASSUME NEW x \in Options
          PROVE  \/ q[x] = Default[x]
                 \/ \E c \in bodies : \E f \in DOMAIN c : OptionOf[f] = x /\ q[x] = AsPassed(f, c[f])
      <3>1. CASE x = OptionOf[g]
        <4>1. q[x] = AsPassed(g, b[g])
          BY <2>1, <2>2, <3>1
        <4> QED
          BY <2>2, <3>1, <4>1
      <3>2. CASE x # OptionOf[g]
        <4>1. q[x] = o[x]
          BY <2>1, <2>2, <3>2
        <4> QED
          BY <4>1 DEF From
      <3> QED
        BY <3>1, <3>2
    <2>4. From(q, bodies)
      BY <2>3, Zenon DEF From
    <2> QED
      BY <2>4 DEF q
  <1> QED
    BY <1>1, <1>2

\* What a boot makes of a body, or of what is left of it, is from that body.
LEMMA AppliedFrom ==
  ASSUME NEW bodies, NEW b \in bodies, NEW p \in Parts, DOMAIN p \subseteq DOMAIN b,
         \A f \in DOMAIN p : p[f] = b[f]
  PROVE  From(ApplyOpts(Default, p), bodies)
  <1> DEFINE o1 == SetField(Default, p, Fields[1])
             o2 == SetField(o1, p, Fields[2])
             o3 == SetField(o2, p, Fields[3])
             o4 == SetField(o3, p, Fields[4])
  <1>1. From(Default, bodies)
    BY DEF From
  <1>2. \A n \in 1..4 : Fields[n] \in Names
    BY DEF Names
  <1>3. ASSUME NEW o \in Valid, From(o, bodies), NEW n \in 1..4
        PROVE  SetField(o, p, Fields[n]) \in Valid /\ From(SetField(o, p, Fields[n]), bodies)
    <2>1. Fields[n] \in Names
      BY <1>2
    <2>2. SetField(o, p, Fields[n]) \in Valid
      BY <2>1, SetFieldValid
    <2>3. From(SetField(o, p, Fields[n]), bodies)
      BY <1>3, <2>1, SetFieldFrom
    <2> QED
      BY <2>2, <2>3
  <1>4. o1 \in Valid /\ From(o1, bodies)
    BY <1>1, <1>3, DefaultValid
  <1> HIDE DEF o1
  <1>5. o2 \in Valid /\ From(o2, bodies)
    BY <1>4, <1>3
  <1> HIDE DEF o2
  <1>6. o3 \in Valid /\ From(o3, bodies)
    BY <1>5, <1>3
  <1> HIDE DEF o3
  <1>7. From(o4, bodies)
    BY <1>6, <1>3
  <1>8. ApplyOpts(Default, p) = o4
    BY DEF ApplyOpts, o1, o2, o3
  <1> QED
    BY <1>7, <1>8

(***************************************************************************)
(* Types                                                                   *)
(***************************************************************************)

LEMMA RequestFields ==
  ASSUME NEW r \in Requests
  PROVE  /\ r.ieee \in Ieees /\ r.body \in Bodies /\ r.long \in BOOLEAN
         /\ r # None /\ r.body # None /\ KeyFor(r.ieee) \in Keys
  BY OptionsAssumption DEF Requests, Keys

LEMMA ServingRequest ==
  ASSUME TypeInv, NEW t \in Tasks, pc[t] = "apply"
  PROVE  req[t] \in Requests
  BY DEF TypeInv, TypeOK

LEMMA ShadowValid ==
  TypeInv <=>
    /\ shadow \in [Ieees -> Valid]
    /\ flash \in [Keys -> Bodies \cup {None}]
    /\ pc \in [Tasks -> {"idle", "apply"}]
    /\ todo \in [Tasks -> 1..5]
    /\ requests \in 0..MaxRequests
    /\ req \in [Tasks -> Requests \cup {None}]
    /\ DOMAIN sent = Ieees
    /\ \A t \in Tasks : pc[t] = "apply" => req[t] # None
  BY DEF TypeInv, TypeOK, Valid

\* What a boot applies is a body.
LEMMA BootBody ==
  ASSUME TypeInv, NEW i \in Ieees
  PROVE  BodyAtBoot(flash, i) \in Bodies \cup {None}
  BY DEF BodyAtBoot, TypeInv, TypeOK

LEMMA TypeInit == Init => TypeInv
  <1> SUFFICES ASSUME Init PROVE TypeInv
    OBVIOUS
  <1>1. requests \in 0..MaxRequests
    BY OptionsAssumption DEF Init
  <1> QED
    BY <1>1, ShadowValid, DefaultValid DEF Init

(***************************************************************************)
(* What the steps do                                                       *)
(***************************************************************************)

LEMMA RequestShape ==
  ASSUME TypeInv, NEW t \in Tasks, Request(t)
  PROVE  \E i \in Ieees, b \in Bodies, r \in Requests :
           /\ r.ieee = i /\ r.body = b /\ req' = [req EXCEPT ![t] = r]
           /\ pc[t] = "idle" /\ pc' = [pc EXCEPT ![t] = "apply"]
           /\ todo' = [todo EXCEPT ![t] = 1]
           /\ sent' = [sent EXCEPT ![i] = @ \cup {b}]
           /\ dirty \ {t} \subseteq dirty'
           /\ \A u \in Tasks : Serving(u, i) => u \in dirty' /\ t \in dirty'
           /\ UNCHANGED <<shadow, flash, unsettled>>
  <1>1. PICK i \in Ieees, b \in Bodies, long \in {FALSE, Faults} :
          LET others == {u \in Tasks : Serving(u, i)}
          IN  /\ req' = [req EXCEPT ![t] = [ieee |-> i, body |-> b, long |-> long]]
              /\ sent' = [sent EXCEPT ![i] = @ \cup {b}]
              /\ dirty' = IF others = {} THEN dirty \ {t} ELSE dirty \cup others \cup {t}
    BY DEF Request
  <1> DEFINE r == [ieee |-> i, body |-> b, long |-> long]
  <1>2. r \in Requests /\ r.ieee = i /\ r.body = b
    BY OptionsAssumption DEF Requests
  <1>3. /\ dirty \ {t} \subseteq dirty'
        /\ \A u \in Tasks : Serving(u, i) => u \in dirty' /\ t \in dirty'
    BY <1>1
  <1> QED
    BY <1>1, <1>2, <1>3 DEF Request

LEMMA ApplyShape ==
  ASSUME TypeInv, NEW t \in Tasks, Apply(t)
  PROVE  \E i \in Ieees, b \in Bodies, n \in 1..4 :
           /\ Serving(t, i) /\ b = req[t].body /\ n = todo[t]
           /\ \/ /\ shadow' = [shadow EXCEPT ![i] = SetField(shadow[i], b, Fields[n])]
                 /\ dirty' = dirty
              \/ shadow' = shadow /\ dirty' = dirty \cup {t}
           /\ todo' = [todo EXCEPT ![t] = n + 1]
           /\ UNCHANGED <<flash, pc, req, sent, unsettled, requests>>
  <1>1. req[t] \in Requests
    BY ServingRequest DEF Apply
  <1>2. req[t].ieee \in Ieees /\ req[t].body \in Bodies
    BY <1>1, RequestFields
  <1>3. todo[t] \in 1..4
    BY DEF Apply, TypeInv, TypeOK
  <1> QED
    BY <1>2, <1>3 DEF Apply, Serving

LEMMA PersistShape ==
  ASSUME TypeInv, NEW t \in Tasks, Persist(t)
  PROVE  \E i \in Ieees, b \in Bodies :
           /\ Serving(t, i) /\ b = req[t].body /\ todo[t] = 5
           /\ \/ /\ flash' = [flash EXCEPT ![KeyFor(i)] = b]
                 /\ unsettled' = IF t \in dirty THEN unsettled \cup {i} ELSE unsettled \ {i}
              \/ flash' = flash /\ unsettled' = unsettled \cup {i}
           /\ pc' = [pc EXCEPT ![t] = "idle"] /\ req' = [req EXCEPT ![t] = None]
           /\ dirty' = dirty \ {t}
           /\ UNCHANGED <<shadow, todo, sent, requests>>
  <1>1. req[t] \in Requests
    BY ServingRequest DEF Persist
  <1>2. req[t].ieee \in Ieees /\ req[t].body \in Bodies
    BY <1>1, RequestFields
  <1> QED
    BY <1>2 DEF Persist, Serving, Stored

\* A boot sets what a part of the body says, all of it when nothing is lost.
LEMMA RebootShape ==
  ASSUME TypeInv, Reboot, NEW i \in Ieees
  PROVE  /\ BodyAtBoot(flash, i) = None => shadow'[i] = Default /\ i \notin unsettled'
         /\ BodyAtBoot(flash, i) # None =>
              \E p \in Parts :
                /\ shadow'[i] = ApplyOpts(Default, p)
                /\ DOMAIN p \subseteq DOMAIN BodyAtBoot(flash, i)
                /\ \A f \in DOMAIN p : p[f] = BodyAtBoot(flash, i)[f]
                /\ i \notin unsettled' => p = BodyAtBoot(flash, i)
  <1>1. PICK lost \in SUBSET AtBoot(flash) :
          /\ shadow' = [j \in Ieees |->
                IF BodyAtBoot(flash, j) # None
                THEN ApplyOpts(Default, Without(BodyAtBoot(flash, j), j, lost)) ELSE Default]
          /\ unsettled' = {j \in Ieees : \E f \in Names : <<j, f>> \in lost}
    BY DEF Reboot
  <1>2. CASE BodyAtBoot(flash, i) = None
    <2>1. \A f : <<i, f>> \notin lost
      BY <1>1, <1>2 DEF AtBoot
    <2> QED
      BY <1>1, <1>2, <2>1
  <1>3. CASE BodyAtBoot(flash, i) # None
    <2>1. PICK b \in Bodies : b = BodyAtBoot(flash, i)
      BY <1>3, BootBody
    <2>2. PICK p \in Parts : p = Without(b, i, lost)
      BY BodyParts
    <2>3. /\ DOMAIN p \subseteq DOMAIN b
          /\ \A f \in DOMAIN p : p[f] = b[f]
      BY <2>2 DEF Without
    <2>4. ASSUME i \notin unsettled'
          PROVE  p = b
      <3>1. PICK S \in BodyFields : b \in [S -> Values]
        BY DEF Bodies
      <3>2. {g \in DOMAIN b : <<i, g>> \notin lost} = S
        BY <1>1, <2>4, <3>1, OptionsAssumption
      <3> QED
        BY <2>2, <3>1, <3>2 DEF Without
    <2>5. shadow'[i] = ApplyOpts(Default, p)
      BY <1>1, <1>3, <2>1, <2>2
    <2> QED
      BY <1>3, <2>1, <2>3, <2>4, <2>5
  <1> QED
    BY <1>2, <1>3

(***************************************************************************)
(* Types                                                                   *)
(***************************************************************************)

LEMMA TypeStep == TypeInv /\ [Next]_vars => TypeInv'
  <1> SUFFICES ASSUME TypeInv, [Next]_vars PROVE TypeInv'
    OBVIOUS
  <1> DEFINE Typed ==
        /\ shadow' \in [Ieees -> Valid]
        /\ flash' \in [Keys -> Bodies \cup {None}]
        /\ pc' \in [Tasks -> {"idle", "apply"}]
        /\ todo' \in [Tasks -> 1..5]
        /\ requests' \in 0..MaxRequests
        /\ req' \in [Tasks -> Requests \cup {None}]
        /\ DOMAIN sent' = Ieees
        /\ \A t \in Tasks : pc'[t] = "apply" => req'[t] # None
  <1>1. SUFFICES Typed
    BY DEF TypeInv, TypeOK, Valid
  <1> USE ShadowValid
  <1>2. ASSUME NEW t \in Tasks, Request(t) PROVE Typed
    <2>1. PICK i \in Ieees, b \in Bodies, r \in Requests :
            /\ req' = [req EXCEPT ![t] = r]
            /\ pc' = [pc EXCEPT ![t] = "apply"] /\ todo' = [todo EXCEPT ![t] = 1]
            /\ sent' = [sent EXCEPT ![i] = @ \cup {b}] /\ UNCHANGED <<shadow, flash>>
      BY <1>2, RequestShape
    <2>2. r # None
      BY RequestFields
    <2>3. requests' \in 0..MaxRequests
      BY <1>2, OptionsAssumption DEF Request
    <2> QED
      BY <2>1, <2>2, <2>3
  <1>3. ASSUME NEW t \in Tasks, Apply(t) PROVE Typed
    <2>1. PICK i \in Ieees, b \in Bodies, n \in 1..4 :
            /\ \/ shadow' = [shadow EXCEPT ![i] = SetField(shadow[i], b, Fields[n])]
               \/ shadow' = shadow
            /\ todo' = [todo EXCEPT ![t] = n + 1]
            /\ UNCHANGED <<flash, pc, req, sent, requests>>
      BY <1>3, ApplyShape
    <2>2. b \in Parts /\ Fields[n] \in Names
      BY BodyParts DEF Names
    <2>3. SetField(shadow[i], b, Fields[n]) \in Valid
      BY <2>2, SetFieldValid
    <2>4. shadow' \in [Ieees -> Valid]
      BY <2>1, <2>3
    <2> QED
      BY <2>1, <2>4
  <1>4. ASSUME NEW t \in Tasks, Persist(t) PROVE Typed
    <2>1. PICK i \in Ieees, b \in Bodies :
            /\ flash' = [flash EXCEPT ![KeyFor(i)] = b] \/ flash' = flash
            /\ pc' = [pc EXCEPT ![t] = "idle"] /\ req' = [req EXCEPT ![t] = None]
            /\ UNCHANGED <<shadow, todo, sent, requests>>
      BY <1>4, PersistShape
    <2>2. KeyFor(i) \in Keys
      BY DEF Keys
    <2>3. flash' \in [Keys -> Bodies \cup {None}]
      BY <2>1, <2>2
    <2> QED
      BY <2>1, <2>3
  <1>5. CASE Reboot
    <2>1. ASSUME NEW i \in Ieees
          PROVE  shadow'[i] \in Valid
      BY <1>5, RebootShape, Applied, DefaultValid
    <2>2. shadow' = [i \in Ieees |-> shadow'[i]]
      BY <1>5 DEF Reboot
    <2>3. shadow' \in [Ieees -> Valid]
      BY <2>1, <2>2
    <2> QED
      BY <1>5, <2>3 DEF Reboot
  <1>6. CASE UNCHANGED vars
    BY <1>6 DEF vars, observers
  <1> QED
    BY <1>2, <1>3, <1>4, <1>5, <1>6 DEF Next

(***************************************************************************)
(* A device and the task that serves it                                    *)
(***************************************************************************)

LEMMA ServedInit == Init => ServedInv
  BY DEF Init, ServedInv, Serving

LEMMA ServedStep ==
  ASSUME TypeInv, ServedInv, [Next]_vars
  PROVE  ServedInv'
  <1> DEFINE Alone(s, d) ==
        /\ \A u \in Tasks : Serving(u, d)' => u = s
        /\ SoFar(shadow'[d], req'[s].body, todo'[s])
  <1> SUFFICES ASSUME NEW s \in Tasks, s \notin dirty', NEW d \in Ieees, Serving(s, d)'
               PROVE  Alone(s, d)
    BY DEF ServedInv
  <1> USE DEF Serving
  <1>0. /\ pc \in [Tasks -> {"idle", "apply"}] /\ DOMAIN req = Tasks
        /\ todo \in [Tasks -> 1..5] /\ shadow \in [Ieees -> Valid]
    BY ShadowValid
  <1>1. ASSUME NEW t \in Tasks, Request(t) PROVE Alone(s, d)
    <2>1. PICK i \in Ieees, b \in Bodies, r \in Requests :
            /\ r.ieee = i /\ r.body = b /\ req' = [req EXCEPT ![t] = r]
            /\ pc[t] = "idle" /\ pc' = [pc EXCEPT ![t] = "apply"]
            /\ todo' = [todo EXCEPT ![t] = 1]
            /\ dirty \ {t} \subseteq dirty'
            /\ \A u \in Tasks : Serving(u, i) => u \in dirty' /\ t \in dirty'
            /\ UNCHANGED shadow
      BY <1>1, RequestShape
    <2>2. \A u \in Tasks \ {t} : (Serving(u, d)' <=> Serving(u, d))
                                /\ req'[u] = req[u] /\ todo'[u] = todo[u]
      BY <1>0, <2>1
    <2>3. CASE s = t
      <3>1. d = i /\ \A u \in Tasks : ~Serving(u, i)
        BY <1>0, <2>1, <2>3
      <3>2. SoFar(shadow'[d], req'[s].body, todo'[s])
        BY <1>0, <2>1, <2>3 DEF SoFar
      <3> QED
        BY <2>2, <2>3, <3>1, <3>2
    <2>4. CASE s # t
      <3>1. Serving(s, d) /\ s \notin dirty
        BY <2>1, <2>2, <2>4
      <3>2. d # i
        BY <2>1, <3>1
      <3>3. ~Serving(t, d)'
        BY <1>0, <2>1, <3>2
      <3> QED
        BY <2>1, <2>2, <2>4, <3>1, <3>3 DEF ServedInv
    <2> QED
      BY <2>3, <2>4
  <1>2. ASSUME NEW t \in Tasks, Apply(t) PROVE Alone(s, d)
    <2>1. PICK i \in Ieees, b \in Bodies, n \in 1..4 :
            /\ Serving(t, i) /\ b = req[t].body /\ n = todo[t]
            /\ \/ /\ shadow' = [shadow EXCEPT ![i] = SetField(shadow[i], b, Fields[n])]
                  /\ dirty' = dirty
               \/ shadow' = shadow /\ dirty' = dirty \cup {t}
            /\ todo' = [todo EXCEPT ![t] = n + 1]
            /\ UNCHANGED <<flash, pc, req, sent, unsettled, requests>>
      BY <1>2, ApplyShape
    <2>2. /\ \A u \in Tasks : Serving(u, d)' <=> Serving(u, d)
          /\ s \notin dirty /\ req' = req
      BY <2>1
    <2>3. /\ \A u \in Tasks : Serving(u, d) => u = s
          /\ SoFar(shadow[d], req[s].body, todo[s])
      BY <2>2 DEF ServedInv
    <2>4. CASE d = i
      <3>1. s = t /\ shadow' = [shadow EXCEPT ![i] = SetField(shadow[i], b, Fields[n])]
        BY <2>1, <2>3, <2>4
      <3>2. SoFar(SetField(shadow[i], b, Fields[n]), b, n + 1)
        BY <1>0, <2>1, <2>3, <2>4, <3>1, SetFieldSoFar, BodyParts
      <3>3. SoFar(shadow'[d], req'[s].body, todo'[s])
        BY <1>0, <2>1, <2>4, <3>1, <3>2
      <3> QED
        BY <2>2, <2>3, <3>3
    <2>5. CASE d # i
      <3>1. shadow'[d] = shadow[d] /\ s # t
        BY <1>0, <2>1, <2>2, <2>5
      <3>2. todo'[s] = todo[s]
        BY <1>0, <2>1, <3>1
      <3> QED
        BY <2>2, <2>3, <3>1, <3>2
    <2> QED
      BY <2>4, <2>5
  <1>3. ASSUME NEW t \in Tasks, Persist(t) PROVE Alone(s, d)
    <2>1. /\ pc' = [pc EXCEPT ![t] = "idle"] /\ req' = [req EXCEPT ![t] = None]
          /\ dirty' = dirty \ {t} /\ UNCHANGED <<shadow, todo>>
      BY <1>3, PersistShape
    <2>2. \A u \in Tasks : Serving(u, d)' => u # t /\ Serving(u, d) /\ req'[u] = req[u]
      BY <1>0, <2>1
    <2> QED
      BY <2>1, <2>2 DEF ServedInv
  <1>4. CASE Reboot
    BY <1>4 DEF Reboot
  <1>5. CASE UNCHANGED vars
    BY <1>5 DEF vars, observers, ServedInv
  <1> QED
    BY <1>1, <1>2, <1>3, <1>4, <1>5 DEF Next

(***************************************************************************)
(* Whose body it is                                                        *)
(***************************************************************************)

LEMMA SentInit == Init => SentInv
  BY DEF Init, SentInv, Serving, From

\* More bodies to be from do no harm.
LEMMA FromMore ==
  ASSUME NEW o, NEW some, NEW more, some \subseteq more, From(o, some)
  PROVE  From(o, more)
  BY DEF From

LEMMA SentStep ==
  ASSUME TypeInv, SentInv, [Next]_vars
  PROVE  SentInv'
  <1> USE DEF Serving
  <1>0. /\ pc \in [Tasks -> {"idle", "apply"}] /\ DOMAIN req = Tasks
        /\ shadow \in [Ieees -> Valid] /\ flash \in [Keys -> Bodies \cup {None}]
        /\ DOMAIN sent = Ieees
    BY ShadowValid
  <1>1. ASSUME NEW t \in Tasks, Request(t) PROVE SentInv'
    <2>1. PICK i \in Ieees, b \in Bodies, r \in Requests :
            /\ r.ieee = i /\ r.body = b /\ req' = [req EXCEPT ![t] = r]
            /\ pc' = [pc EXCEPT ![t] = "apply"]
            /\ sent' = [sent EXCEPT ![i] = @ \cup {b}]
            /\ UNCHANGED <<shadow, flash>>
      BY <1>1, RequestShape
    <2>2. \A j \in Ieees : sent[j] \subseteq sent'[j]
      BY <1>0, <2>1
    <2>3. ASSUME NEW u \in Tasks, NEW j \in Ieees, Serving(u, j)'
          PROVE  req'[u].body \in sent'[j]
      <3>1. CASE u = t
        BY <1>0, <2>1, <2>3, <3>1
      <3>2. CASE u # t
        <4>1. Serving(u, j) /\ req'[u] = req[u]
          BY <1>0, <2>1, <2>3, <3>2
        <4> QED
          BY <2>2, <4>1 DEF SentInv
      <3> QED
        BY <3>1, <3>2
    <2>4. ASSUME NEW k \in Keys, flash'[k] # None
          PROVE  \E j \in Ieees : KeyFor(j) = k /\ flash'[k] \in sent'[j]
      BY <2>1, <2>2, <2>4 DEF SentInv
    <2>5. ASSUME NEW j \in Ieees, Unshadowed(j)
          PROVE  From(shadow'[j], sent'[j])
      BY <2>1, <2>2, <2>5, FromMore DEF SentInv
    <2> QED
      BY <2>3, <2>4, <2>5 DEF SentInv
  <1>2. ASSUME NEW t \in Tasks, Apply(t) PROVE SentInv'
    <2>1. PICK i \in Ieees, b \in Bodies, n \in 1..4 :
            /\ Serving(t, i) /\ b = req[t].body
            /\ \/ shadow' = [shadow EXCEPT ![i] = SetField(shadow[i], b, Fields[n])]
               \/ shadow' = shadow
            /\ UNCHANGED <<flash, pc, req, sent>>
      BY <1>2, ApplyShape
    <2>2. ASSUME NEW j \in Ieees, Unshadowed(j)
          PROVE  From(shadow'[j], sent'[j])
      <3>1. From(shadow[j], sent[j])
        BY <2>2 DEF SentInv
      <3>2. CASE shadow'[j] = shadow[j]
        BY <2>1, <3>1, <3>2
      <3>3. CASE shadow'[j] # shadow[j]
        <4>1. j = i /\ shadow'[j] = SetField(shadow[j], b, Fields[n])
          BY <1>0, <2>1, <3>3
        <4>2. b \in sent[j] /\ Fields[n] \in Names
          BY <2>1, <4>1 DEF SentInv, Names
        <4>3. From(SetField(shadow[j], b, Fields[n]), sent[j])
          BY <1>0, <3>1, <4>2, SetFieldFrom
        <4> QED
          BY <2>1, <4>1, <4>3
      <3> QED
        BY <3>2, <3>3
    <2> QED
      BY <2>1, <2>2 DEF SentInv
  <1>3. ASSUME NEW t \in Tasks, Persist(t) PROVE SentInv'
    <2>1. PICK i \in Ieees, b \in Bodies :
            /\ Serving(t, i) /\ b = req[t].body
            /\ flash' = [flash EXCEPT ![KeyFor(i)] = b] \/ flash' = flash
            /\ pc' = [pc EXCEPT ![t] = "idle"] /\ req' = [req EXCEPT ![t] = None]
            /\ UNCHANGED <<shadow, sent>>
      BY <1>3, PersistShape
    <2>2. b \in sent[i]
      BY <2>1 DEF SentInv
    <2>3. ASSUME NEW k \in Keys, flash'[k] # None
          PROVE  \E j \in Ieees : KeyFor(j) = k /\ flash'[k] \in sent'[j]
      <3>1. CASE flash'[k] = flash[k]
        BY <2>1, <2>3, <3>1 DEF SentInv
      <3>2. CASE flash'[k] # flash[k]
        <4>1. k = KeyFor(i) /\ flash'[k] = b
          BY <1>0, <2>1, <3>2
        <4> QED
          BY <2>1, <2>2, <4>1
      <3> QED
        BY <3>1, <3>2
    <2>4. ASSUME NEW u \in Tasks, NEW j \in Ieees, Serving(u, j)'
          PROVE  req'[u].body \in sent'[j]
      <3>1. Serving(u, j) /\ req'[u] = req[u]
        BY <1>0, <2>1, <2>4
      <3> QED
        BY <2>1, <3>1 DEF SentInv
    <2> QED
      BY <2>1, <2>3, <2>4 DEF SentInv
  <1>4. CASE Reboot
    <2>1. /\ \A u \in Tasks : pc'[u] = "idle"
          /\ UNCHANGED <<flash, sent>>
      BY <1>4 DEF Reboot
    <2>2. ASSUME NEW j \in Ieees, Unshadowed(j)
          PROVE  From(shadow'[j], sent'[j])
      <3>1. CASE BodyAtBoot(flash, j) = None
        BY <1>4, <3>1, RebootShape DEF From
      <3>2. CASE BodyAtBoot(flash, j) # None
        <4>1. j \in Keys /\ BodyAtBoot(flash, j) = flash[j]
          BY <3>2 DEF BodyAtBoot
        <4>2. PICK i \in Ieees : KeyFor(i) = j /\ flash[j] \in sent[i]
          BY <3>2, <4>1 DEF SentInv
        <4>3. i = j
          BY <2>2, <4>2 DEF Unshadowed
        <4>4. PICK p \in Parts :
                /\ shadow'[j] = ApplyOpts(Default, p)
                /\ DOMAIN p \subseteq DOMAIN flash[j]
                /\ \A f \in DOMAIN p : p[f] = flash[j][f]
          BY <1>4, <3>2, <4>1, RebootShape
        <4>5. From(ApplyOpts(Default, p), sent[j])
          BY <4>2, <4>3, <4>4, AppliedFrom
        <4> QED
          BY <2>1, <4>4, <4>5
      <3> QED
        BY <3>1, <3>2
    <2> QED
      BY <2>1, <2>2 DEF SentInv
  <1>5. CASE UNCHANGED vars
    BY <1>5 DEF vars, observers, SentInv
  <1> QED
    BY <1>1, <1>2, <1>3, <1>4, <1>5 DEF Next

(***************************************************************************)
(* A device and the body stored for it                                     *)
(***************************************************************************)

LEMMA OwnKeys ==
  ASSUME NEW i \in Ieees, OwnKey(i)
  PROVE  KeyFor(i) = i /\ i \in Keys /\ BodyAtBoot(flash, i) = flash[i]
  BY DEF OwnKey, KeyFor, Keys, BodyAtBoot

LEMMA StoredInit == Init => StoredInv
  BY OwnKeys DEF Init, StoredInv

\* A device nobody serves is left as it is, and its stored body too.
LEMMA StoredKept ==
  ASSUME StoredInv, NEW d \in Ieees, d \notin unsettled, OwnKey(d),
         shadow'[d] = shadow[d], flash'[d] = flash[d], \A u \in Tasks : ~Serving(u, d)
  PROVE  IF flash'[d] = None THEN shadow'[d] = Default ELSE SoFar(shadow'[d], flash'[d], 5)
  BY DEF StoredInv

LEMMA StoredStep ==
  ASSUME TypeInv, ServedInv, StoredInv, [Next]_vars
  PROVE  StoredInv'
  <1> DEFINE Holds(d) ==
        IF flash'[d] = None THEN shadow'[d] = Default ELSE SoFar(shadow'[d], flash'[d], 5)
  <1> SUFFICES ASSUME NEW d \in Ieees, d \notin unsettled', OwnKey(d),
                      \A u \in Tasks : ~Serving(u, d)'
               PROVE  Holds(d)
    BY DEF StoredInv
  <1>0. /\ pc \in [Tasks -> {"idle", "apply"}] /\ DOMAIN req = Tasks
        /\ shadow \in [Ieees -> Valid] /\ flash \in [Keys -> Bodies \cup {None}]
    BY ShadowValid
  <1>1. ASSUME NEW t \in Tasks, Request(t) PROVE Holds(d)
    <2>1. /\ pc[t] = "idle" /\ pc' = [pc EXCEPT ![t] = "apply"]
          /\ \E r \in Requests : req' = [req EXCEPT ![t] = r]
          /\ UNCHANGED <<shadow, flash, unsettled>>
      BY <1>1, RequestShape
    <2>2. \A u \in Tasks : Serving(u, d) => Serving(u, d)'
      BY <1>0, <2>1 DEF Serving
    <2> QED
      BY <2>1, <2>2, StoredKept
  <1>2. ASSUME NEW t \in Tasks, Apply(t) PROVE Holds(d)
    <2>1. PICK i \in Ieees :
            /\ Serving(t, i)
            /\ (\E o : shadow' = [shadow EXCEPT ![i] = o]) \/ shadow' = shadow
            /\ UNCHANGED <<flash, pc, req, unsettled>>
      BY <1>2, ApplyShape
    <2>2. \A u \in Tasks : ~Serving(u, d)
      BY <2>1 DEF Serving
    <2>3. shadow'[d] = shadow[d]
      BY <1>0, <2>1, <2>2
    <2> QED
      BY <2>1, <2>2, <2>3, StoredKept
  <1>3. ASSUME NEW t \in Tasks, Persist(t) PROVE Holds(d)
    <2>1. PICK i \in Ieees, b \in Bodies :
            /\ Serving(t, i) /\ b = req[t].body /\ todo[t] = 5
            /\ \/ /\ flash' = [flash EXCEPT ![KeyFor(i)] = b]
                  /\ unsettled' = IF t \in dirty THEN unsettled \cup {i} ELSE unsettled \ {i}
               \/ flash' = flash /\ unsettled' = unsettled \cup {i}
            /\ pc' = [pc EXCEPT ![t] = "idle"] /\ req' = [req EXCEPT ![t] = None]
            /\ shadow' = shadow
      BY <1>3, PersistShape
    <2>2. d \in Keys /\ (KeyFor(i) = d <=> i = d)
      BY OwnKeys DEF OwnKey, Unshadowed
    <2>3. CASE d = i
      <3>1. t \notin dirty /\ flash' = [flash EXCEPT ![KeyFor(i)] = b]
        BY <2>1, <2>3
      <3>2. flash'[d] = b
        BY <1>0, <2>2, <2>3, <3>1
      <3>3. SoFar(shadow[d], b, 5)
        BY <2>1, <2>3, <3>1 DEF ServedInv
      <3>4. b # None
        BY OptionsAssumption
      <3> QED
        BY <2>1, <3>2, <3>3, <3>4
    <2>4. CASE d # i
      <3>1. flash'[d] = flash[d] /\ d \notin unsettled
        BY <1>0, <2>1, <2>2, <2>4
      <3>2. \A u \in Tasks : Serving(u, d) => Serving(u, d)'
        BY <1>0, <2>1, <2>4 DEF Serving
      <3> QED
        BY <2>1, <2>2, <3>1, <3>2, StoredKept
    <2> QED
      BY <2>3, <2>4
  <1>4. CASE Reboot
    <2>1. flash' = flash /\ BodyAtBoot(flash, d) = flash[d]
      BY <1>4, OwnKeys DEF Reboot
    <2>2. CASE flash[d] = None
      BY <1>4, <2>1, <2>2, RebootShape
    <2>3. CASE flash[d] # None
      <3>1. shadow'[d] = ApplyOpts(Default, flash[d])
        BY <1>4, <2>1, <2>3, RebootShape
      <3>2. flash[d] \in Parts
        BY <1>0, <2>3, OwnKeys, BodyParts
      <3> QED
        BY <2>1, <2>3, <3>1, <3>2, Applied
    <2> QED
      BY <2>2, <2>3
  <1>5. CASE UNCHANGED vars
    <2>1. \A u \in Tasks : ~Serving(u, d)
      BY <1>5 DEF vars, Serving
    <2> QED
      BY <1>5, <2>1, StoredKept DEF vars, observers
  <1> QED
    BY <1>1, <1>2, <1>3, <1>4, <1>5 DEF Next

(***************************************************************************)
(* The theorems                                                            *)
(***************************************************************************)

\* Every reachable state satisfies the inductive invariant.
THEOREM OptionsInvariance == Spec => []IInv
  <1>1. Init => IInv
    BY TypeInit, ServedInit, SentInit DEF IInv
  <1>2. IInv /\ [Next]_vars => IInv'
    BY TypeStep, ServedStep, SentStep DEF IInv
  <1> QED
    BY <1>1, <1>2, PTL DEF Spec

\* Types and widths: stored bodies are bodies that were sent, options in force are
\* within what the setters take (apply_opts).
THEOREM OptionsTyping == Spec => []TypeOK
  <1>1. IInv => TypeOK
    BY DEF IInv, TypeInv
  <1> QED
    BY <1>1, OptionsInvariance, PTL

\* For any addresses, keys that are cut among them, any interleaving, refusals,
\* failed reads and writes and restarts: what is in force on a device was sent for
\* it, unless another device's key was cut to its address (key_for).
THEOREM OwnOptionsOnly == Spec => []OptionsAreOwn
  <1>1. IInv => OptionsAreOwn
    <2> SUFFICES ASSUME IInv, NEW i \in Ieees, Unshadowed(i), NEW x \in Options
                 PROVE  \/ shadow[i][x] = Default[x]
                        \/ \E b \in sent[i] : \E f \in DOMAIN b :
                             OptionOf[f] = x /\ shadow[i][x] = AsPassed(f, b[f])
      BY Zenon DEF OptionsAreOwn
    <2>1. From(shadow[i], sent[i])
      BY DEF IInv, SentInv
    <2> QED
      BY <2>1, Zenon DEF From
  <1> QED
    BY <1>1, OptionsInvariance, PTL

\* With no request under way the options of a device are those of its stored body
\* (device_options_set, device_options_restore_all).
THEOREM StoredInvariance == Spec => [](IInv /\ StoredInv)
  <1>1. Init => StoredInv
    BY StoredInit
  <1>2. IInv /\ StoredInv /\ [Next]_vars => StoredInv'
    BY StoredStep DEF IInv
  <1> QED
    BY <1>1, <1>2, OptionsInvariance, PTL DEF Spec

LEMMA QuietIsFree ==
  ASSUME Quiet, StoredInv, NEW i \in Ieees, i \notin unsettled, OwnKey(i)
  PROVE  IF flash[i] = None THEN shadow[i] = Default ELSE SoFar(shadow[i], flash[i], 5)
  BY DEF Quiet, StoredInv, Serving

\* What device_options_get_json shows is in force, on every device with a key of its
\* own whose last request or restore went as it should, whatever setters refuse, NVS
\* calls fail and restarts happen before that and on the other devices.
THEOREM ShownOptionsHold == Spec => []ShownIsInForce
  <1>1. IInv /\ StoredInv => ShownIsInForce
    <2> SUFFICES ASSUME StoredInv, Quiet, NEW i \in Ieees, i \notin unsettled,
                        OwnKey(i), flash[i] # None
                 PROVE  LET b == flash[i] IN
                          /\ "occupancy_timeout" \in DOMAIN b =>
                               shadow[i]["occupancy"] = b["occupancy_timeout"] % Wrap
                          /\ "debounce_ms" \in DOMAIN b => shadow[i]["debounce"] = b["debounce_ms"]
                          /\ "flood_protection" \in DOMAIN b /\ "debounce_ms" \notin DOMAIN b =>
                               shadow[i]["debounce"] = b["flood_protection"]
                          /\ "throttle_ms" \in DOMAIN b => shadow[i]["throttle"] = b["throttle_ms"]
      BY DEF ShownIsInForce
    <2>1. SoFar(shadow[i], flash[i], 5)
      BY QuietIsFree
    <2> QED
      BY <2>1 DEF SoFar
  <1> QED
    BY <1>1, StoredInvariance, PTL

\* The options that a body names are those of every o that holds what it says.
LEMMA NamedOptions ==
  ASSUME NEW b \in Bodies, NEW o, NEW p, SoFar(o, b, 5), SoFar(p, b, 5),
         NEW f \in DOMAIN b
  PROVE  o[OptionOf[f]] = p[OptionOf[f]]
  <1>1. f \in Names
    BY BodyParts, BodyFacts
  <1>2. /\ f = "occupancy_timeout" => o["occupancy"] = p["occupancy"]
        /\ f \in {"flood_protection", "debounce_ms"} => o["debounce"] = p["debounce"]
        /\ f = "throttle_ms" => o["throttle"] = p["throttle"]
    BY DEF SoFar
  <1> QED
    BY <1>1, <1>2, FieldNames, OptionNames

\* A restart keeps what the last stored body names, whatever bodies came before it
\* (api_devices.cpp:308, as far as it is true: options_partial shows the rest).
THEOREM NamedSurvive == Spec => []NamedOptionsSurvive
  <1>1. IInv /\ StoredInv => NamedOptionsSurvive
    <2> SUFFICES ASSUME IInv, StoredInv, Quiet, NEW i \in Ieees, i \notin unsettled, OwnKey(i)
                 PROVE  IF flash[i] = None THEN shadow[i] = Default
                        ELSE \A f \in DOMAIN flash[i] :
                               shadow[i][OptionOf[f]] = Restored(flash)[i][OptionOf[f]]
      BY DEF NamedOptionsSurvive
    <2>1. CASE flash[i] = None
      BY <2>1, QuietIsFree
    <2>2. CASE flash[i] # None
      <3>1. flash[i] \in Bodies
        BY <2>2, OwnKeys DEF IInv, TypeInv, TypeOK
      <3>2. Restored(flash)[i] = ApplyOpts(Default, flash[i])
        BY <2>2, OwnKeys DEF Restored
      <3>3. SoFar(ApplyOpts(Default, flash[i]), flash[i], 5)
        BY <3>1, BodyParts, Applied
      <3>4. SoFar(shadow[i], flash[i], 5)
        BY <2>2, QuietIsFree
      <3>5. \A f \in DOMAIN flash[i] :
              shadow[i][OptionOf[f]] = Restored(flash)[i][OptionOf[f]]
        BY <3>1, <3>2, <3>3, <3>4, NamedOptions
      <3> QED
        BY <2>2, <3>5
    <2> QED
      BY <2>1, <2>2
  <1> QED
    BY <1>1, StoredInvariance, PTL
=============================================================================
