--------------------------- MODULE DeviceOptions ---------------------------
(***************************************************************************)
(* device_options.cpp: the per-device runtime options.  A request (REST    *)
(* POST /api/device/options on the httpd task, `device.options.set` on the *)
(* WebSocket or the cloud relay) is applied to device_shadow in RAM, one   *)
(* setter call per field, each of which may refuse, and its body is then   *)
(* stored in NVS under a key printed from the IEEE address.  A boot starts *)
(* from default options and applies again every stored body it can read.   *)
(* device_shadow and NVS are external.                                     *)
(*                                                                         *)
(* An IEEE address is a number; NVS keys hold KeyMax at most, a larger one *)
(* loses its last digit (base Base) in key_for.                            *)
(***************************************************************************)
EXTENDS Integers, Sequences, FiniteSets

CONSTANTS Tasks,      \* the httpd task and the relay task
          Ieees,      \* addresses of the devices in the pool
          KeyMax,     \* the largest number that fits an NVS key
          Base,       \* digits of the key (16 in the code)
          BodyFields, \* the sets of fields a request body may name
          Values,     \* the values of a field
          Wrap,       \* occupancy_timeout is stored in 16 bits: Wrap = 2^16
          Faults,     \* whether setters refuse, NVS calls fail and bodies are
                      \* too long
          MaxRequests,
          None        \* no body stored

FloodLast == <<"occupancy_timeout", "debounce_ms", "flood_protection", "throttle_ms">>
\* In the order apply_opts looks at them: debounce_ms after flood_protection,
\* which sets the same option of device_shadow.
Fields == <<"occupancy_timeout", "flood_protection", "debounce_ms", "throttle_ms">>
Names == {Fields[i] : i \in 1..4}
Bodies == UNION {[S -> Values] : S \in BodyFields}

ASSUME OptionsAssumption ==
  /\ KeyMax \in Nat /\ Base \in Nat \ {0, 1} /\ Wrap \in Nat \ {0}
  /\ Ieees \subseteq Nat \ {0}
  /\ MaxRequests \in Nat
  /\ BodyFields \subseteq SUBSET Names /\ Values \subseteq Nat
  /\ Faults \in BOOLEAN
  /\ None \notin Bodies
  /\ None \notin [ieee : Ieees, body : Bodies, long : BOOLEAN]

VARIABLES shadow,     \* device_shadow, in RAM
          flash,      \* the stored bodies, by key
          pc,         \* what each task is doing
          req,        \* the request a task is serving
          todo,       \* the next field apply_opts will look at
          sent,       \* observer: the bodies that were sent for a device
          dirty,      \* observer: tasks whose request overlapped another one of
                      \* the same device, or was refused a field
          unsettled,  \* observer: devices whose last request was such a one or
                      \* was not stored, or whose body a boot has not restored
          requests    \* requests accepted so far (bound)

observers == <<sent, dirty, unsettled>>
vars == <<shadow, flash, pc, req, todo, observers, requests>>

Options == {"occupancy", "debounce", "throttle"}
Default == [o \in Options |-> 0]

(* snprintf(out, 16, "%014llx"): 15 digits at most, the rest is cut off. *)
KeyFor(ieee) == IF ieee <= KeyMax THEN ieee ELSE ieee \div Base

Keys == {KeyFor(i) : i \in Ieees}

OptionOf == [occupancy_timeout |-> "occupancy", flood_protection |-> "debounce",
             debounce_ms |-> "debounce", throttle_ms |-> "throttle"]

AsSent(f, v) == v
(* The casts of the setter calls: only occupancy_timeout is narrowed. *)
AsPassed(f, v) == IF f = "occupancy_timeout" THEN v % Wrap ELSE v

(* One field of apply_opts: its setter call, if the body has it. *)
SetField(o, body, f) ==
  IF f \in DOMAIN body THEN [o EXCEPT ![OptionOf[f]] = AsPassed(f, body[f])] ELSE o

(* The whole of apply_opts on one device's options, setters in order. *)
ApplyOpts(o, body) ==
  LET half == SetField(SetField(o, body, Fields[1]), body, Fields[2])
  IN  SetField(SetField(half, body, Fields[3]), body, Fields[4])

(* Mutant: a boot looks for each device's body under the device's own key. *)
BodyUnderKey(fl, i) == fl[KeyFor(i)]

(* What a boot applies to a device.  The address comes back from the key, so *)
(* the body of a cut key goes to another device.                             *)
BodyAtBoot(fl, i) == IF i \in Keys THEN fl[i] ELSE None

(* What a boot makes of the stored bodies, when nothing fails. *)
Restored(fl) ==
  [i \in Ieees |-> IF BodyAtBoot(fl, i) # None THEN ApplyOpts(Default, BodyAtBoot(fl, i))
                   ELSE Default]

(* What the boot sets: a field per setter call. *)
AtBoot(fl) ==
  UNION {{<<i, f>> : f \in DOMAIN BodyAtBoot(fl, i)} :
           i \in {j \in Ieees : BodyAtBoot(fl, j) # None}}

(* A body without the fields that were lost. *)
Without(body, i, lost) == [f \in {g \in DOMAIN body : <<i, g>> \notin lost} |-> body[f]]

Init ==
  /\ flash = [k \in Keys |-> None]
  /\ shadow = [i \in Ieees |-> Default]
  /\ pc = [t \in Tasks |-> "idle"]
  /\ req = [t \in Tasks |-> None]
  /\ todo = [t \in Tasks |-> 1]
  /\ sent = [i \in Ieees |-> {}]
  /\ dirty = {}
  /\ unsettled = {}
  /\ requests = 0

Serving(t, i) == pc[t] = "apply" /\ req[t].ieee = i

(* A request that parsed and names a device arrives.  A body of 192 bytes or *)
(* more comes only through REST: the WebSocket command refuses it.           *)
Request(t) ==
  /\ pc[t] = "idle" /\ requests < MaxRequests
  /\ \E i \in Ieees, b \in Bodies, long \in {FALSE, Faults} :
       LET others == {u \in Tasks : Serving(u, i)}
       IN  /\ req' = [req EXCEPT ![t] = [ieee |-> i, body |-> b, long |-> long]]
           /\ sent' = [sent EXCEPT ![i] = @ \cup {b}]
           /\ dirty' = IF others = {} THEN dirty \ {t} ELSE dirty \cup others \cup {t}
  /\ pc' = [pc EXCEPT ![t] = "apply"]
  /\ todo' = [todo EXCEPT ![t] = 1]
  /\ requests' = requests + 1
  /\ UNCHANGED <<shadow, flash, unsettled>>

(* apply_opts: one field, which the body has or has not.  A setter that     *)
(* refuses turns the answer to false; the other fields are set all the same. *)
Apply(t) ==
  /\ pc[t] = "apply" /\ todo[t] <= 4
  /\ \/ /\ shadow' = [shadow EXCEPT ![req[t].ieee] = SetField(@, req[t].body, Fields[todo[t]])]
        /\ UNCHANGED dirty
     \/ /\ Faults /\ Fields[todo[t]] \in DOMAIN req[t].body
        /\ dirty' = dirty \cup {t}
        /\ UNCHANGED shadow
  /\ todo' = [todo EXCEPT ![t] = @ + 1]
  /\ UNCHANGED <<flash, pc, req, sent, unsettled, requests>>

StoresOnce(old, new) == IF old = None THEN new ELSE old
(* The stored body is this request's alone: earlier ones are not merged in. *)
Stored(old, new) == new

(* serializeJson into blob[192], nvs_set_str, nvs_commit: a body that does  *)
(* not fit is skipped and an NVS error is only logged; the answer is that   *)
(* of apply_opts in every case, and a body that was refused is stored too.  *)
Persist(t) ==
  /\ pc[t] = "apply" /\ todo[t] = 5
  /\ LET k == KeyFor(req[t].ieee)
     IN  \/ /\ ~req[t].long
            /\ flash' = [flash EXCEPT ![k] = Stored(@, req[t].body)]
            /\ unsettled' = IF t \in dirty THEN unsettled \cup {req[t].ieee}
                            ELSE unsettled \ {req[t].ieee}
         \/ /\ req[t].long \/ Faults
            /\ unsettled' = unsettled \cup {req[t].ieee}
            /\ UNCHANGED flash
  /\ pc' = [pc EXCEPT ![t] = "idle"]
  /\ req' = [req EXCEPT ![t] = None]
  /\ dirty' = dirty \ {t}
  /\ UNCHANGED <<shadow, todo, sent, requests>>

(* A crash or restart: RAM is gone, app_main restores from NVS before any  *)
(* server task exists.  nvs_open, the iterator and nvs_get_str may fail    *)
(* and a setter may refuse: what is lost is not tried again.               *)
Reboot ==
  /\ \E lost \in SUBSET AtBoot(flash) :
       /\ lost = {} \/ Faults
       /\ shadow' = [i \in Ieees |-> IF BodyAtBoot(flash, i) # None
                                     THEN ApplyOpts(Default, Without(BodyAtBoot(flash, i), i, lost))
                                     ELSE Default]
       /\ unsettled' = {i \in Ieees : \E f \in Names : <<i, f>> \in lost}
  /\ pc' = [t \in Tasks |-> "idle"]
  /\ req' = [t \in Tasks |-> None]
  /\ todo' = [t \in Tasks |-> 1]
  /\ dirty' = {}
  /\ UNCHANGED <<flash, sent, requests>>

Next == (\E t \in Tasks : Request(t) \/ Apply(t) \/ Persist(t)) \/ Reboot

Spec == Init /\ [][Next]_vars

-----------------------------------------------------------------------------
Quiet == \A t \in Tasks : pc[t] = "idle"

(* Every variable is of its type: the stored bodies are bodies that were   *)
(* sent and the options in force are within the widths of the setters.     *)
TypeOK ==
  /\ shadow \in [Ieees -> [Options -> Nat]]
  /\ \A i \in Ieees : shadow[i]["occupancy"] < Wrap
  /\ flash \in [Keys -> Bodies \cup {None}]
  /\ pc \in [Tasks -> {"idle", "apply"}]
  /\ todo \in [Tasks -> 1..5]
  /\ requests \in 0..MaxRequests
  /\ \A t \in Tasks : pc[t] = "apply" => req[t] # None

(* No other device's key reads back as this address. *)
Unshadowed(i) == \A j \in Ieees \ {i} : KeyFor(j) # i

(* A device whose address is its key, and no other device's: an address of *)
(* 16 digits has none.                                                     *)
OwnKey(i) == i <= KeyMax /\ Unshadowed(i)

(* A restart does not change the options in force: outside a request, what *)
(* device_options_restore_all would build is what device_shadow holds      *)
(* ("persisted to NVS so they survive reboot", api_devices.cpp:308), but   *)
(* for devices whose last request or restore went wrong.                   *)
OptionsSurviveReboot ==
  Quiet => \A i \in Ieees \ unsettled : shadow[i] = Restored(flash)[i]

(* The part of it that is true: of a device with a key of its own, whose   *)
(* last request was refused nothing, overlapped no other and was stored,   *)
(* the options that this request named survive a restart; whatever had     *)
(* gone wrong before that request.                                         *)
NamedOptionsSurvive ==
  Quiet => \A i \in Ieees \ unsettled : OwnKey(i) =>
    IF flash[i] = None THEN shadow[i] = Default
    ELSE \A f \in DOMAIN flash[i] :
           shadow[i][OptionOf[f]] = Restored(flash)[i][OptionOf[f]]

(* The body shown for a device (device_options_get_json, used by           *)
(* device.get) is in force on that device, field by field, an explicit     *)
(* debounce_ms before flood_protection (device_options.cpp:38-40), but for *)
(* the same devices: a request that was answered "not applied" is shown as *)
(* if it had been.                                                         *)
ShownIsInForce ==
  Quiet => \A i \in Ieees \ unsettled : OwnKey(i) /\ flash[i] # None => LET b == flash[i] IN
      /\ "occupancy_timeout" \in DOMAIN b =>
           shadow[i]["occupancy"] = b["occupancy_timeout"] % Wrap
      /\ "debounce_ms" \in DOMAIN b => shadow[i]["debounce"] = b["debounce_ms"]
      /\ "flood_protection" \in DOMAIN b /\ "debounce_ms" \notin DOMAIN b =>
           shadow[i]["debounce"] = b["flood_protection"]
      /\ "throttle_ms" \in DOMAIN b => shadow[i]["throttle"] = b["throttle_ms"]

(* Whatever is in force on a device was sent for that device, or is the     *)
(* default: through overlapping requests, refused fields, failed reads and  *)
(* writes, restarts at any point and keys that were cut (key_for), but for  *)
(* a device whose address is what another one's key was cut to.             *)
OptionsAreOwn ==
  \A i \in Ieees : Unshadowed(i) => \A x \in Options :
    \/ shadow[i][x] = Default[x]
    \/ \E b \in sent[i] : \E f \in DOMAIN b :
         OptionOf[f] = x /\ shadow[i][x] = AsPassed(f, b[f])
=============================================================================
