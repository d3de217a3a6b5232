------------------------------ MODULE LogSinks ------------------------------
(***************************************************************************)
(* A log line on its whole way (log_vprintf and log_sinks_publish_p4,      *)
(* main/log_ring.cpp): it is captured in the ring and then handed to       *)
(* dispatch_to_sinks, where the MQTT sink publishes it unless the level    *)
(* filter, the connection or the rate gate says no.                        *)
(*                                                                         *)
(* Every task that logs runs the gate, mqtt_rate_allow, with two relaxed   *)
(* atomics and no lock: the second the count belongs to, and the count,    *)
(* which is a uint8_t.                                                     *)
(***************************************************************************)
EXTENDS LogRing

CONSTANTS
  Tasks,        \* tasks that log
  CapPerSec,    \* MQTT_RATE_CAP_PER_SEC
  CountMod,     \* values of s_rate_count: 2^8
  LastSecond    \* bound: seconds of a behaviour

ASSUME SinksAssumption ==
  /\ CapPerSec \in Nat \ {0} /\ CountMod \in Nat \ {0} /\ LastSecond \in Nat

VARIABLES
  clock,      \* seconds since boot
  epoch,      \* s_rate_epoch
  rateCount,  \* s_rate_count
  step,       \* per task: idle, dispatch, load, store_epoch, store_count, add
  now,        \* per task: its reading of the clock
  gated,      \* lines that entered the gate in this second
  published,  \* lines of this second that were published
  dropped,    \* lines of this second counted in s_mqtt_dropped_rate
  raced       \* observer: two tasks were in the gate at once in this second

gateVars == <<clock, epoch, rateCount, now, gated, published, dropped, raced>>
sinkVars == <<vars, step, gateVars>>

InGate == {t \in Tasks : step[t] \notin {"idle", "dispatch"}}

\* A line belongs to the second in which it entered the gate.
Tally(t, counter) == IF now[t] = clock THEN counter + 1 ELSE counter

GoTo(t, s) == step' = [step EXCEPT ![t] = s]

\* The line goes into the ring before any sink sees it.
Vprintf(t) ==
  /\ step[t] = "idle" /\ CaptureLine
  /\ GoTo(t, "dispatch")
  /\ UNCHANGED gateVars

\* A sink that is off, a level below its minimum, a broker that is away.
Filtered(t) ==
  /\ step[t] = "dispatch"
  /\ GoTo(t, "idle")
  /\ UNCHANGED <<vars, gateVars>>

\* mqtt_rate_allow reads the clock.
Enter(t) ==
  /\ step[t] = "dispatch"
  /\ gated' = gated + 1
  /\ now' = [now EXCEPT ![t] = clock]
  /\ raced' = (raced \/ InGate # {})
  /\ GoTo(t, "load")
  /\ UNCHANGED <<vars, clock, epoch, rateCount, published, dropped>>

\* The epoch is loaded and compared.
LoadEpoch(t) ==
  /\ step[t] = "load"
  /\ GoTo(t, IF epoch # now[t] THEN "store_epoch" ELSE "add")
  /\ UNCHANGED <<vars, gateVars>>

StoreEpoch(t) ==
  /\ step[t] = "store_epoch"
  /\ epoch' = now[t]
  /\ GoTo(t, "store_count")
  /\ UNCHANGED <<vars, clock, rateCount, now, gated, published, dropped, raced>>

StoreCount(t) ==
  /\ step[t] = "store_count"
  /\ rateCount' = 1
  /\ published' = Tally(t, published)
  /\ GoTo(t, "idle")
  /\ UNCHANGED <<vars, clock, epoch, now, gated, dropped, raced>>

\* Mutant: the cap itself is still let through.
AllowsCap(c) == c <= CapPerSec

Allows(c) == c < CapPerSec

\* fetch_add hands out the old value; the counter wraps at its width.
AddAndTest(t) ==
  /\ step[t] = "add"
  /\ rateCount' = (rateCount + 1) % CountMod
  /\ IF Allows(rateCount)
     THEN published' = Tally(t, published) /\ UNCHANGED dropped
     ELSE dropped' = Tally(t, dropped) /\ UNCHANGED published
  /\ GoTo(t, "idle")
  /\ UNCHANGED <<vars, clock, epoch, now, gated, raced>>

Tick ==
  /\ clock < LastSecond
  /\ clock' = clock + 1
  /\ gated' = 0 /\ published' = 0 /\ dropped' = 0
  /\ raced' = (raced /\ InGate # {})
  /\ UNCHANGED <<vars, step, epoch, rateCount, now>>

SinkInit ==
  /\ Init
  /\ clock = 0 /\ epoch = 0 /\ rateCount = 0
  /\ step = [t \in Tasks |-> "idle"] /\ now = [t \in Tasks |-> 0]
  /\ gated = 0 /\ published = 0 /\ dropped = 0 /\ raced = FALSE

Gate(t) == Enter(t) \/ LoadEpoch(t) \/ StoreEpoch(t) \/ StoreCount(t) \/ AddAndTest(t)

Reading == \E r \in Readers : StartWalk(r) \/ ReaderStep(r)

SinkNext ==
  \/ \E t \in Tasks : Vprintf(t) \/ Filtered(t) \/ Gate(t)
  \/ Tick
  \/ (InitRing \/ Reading) /\ UNCHANGED <<step, gateVars>>

SinkSpec == SinkInit /\ [][SinkNext]_sinkVars

(***************************************************************************)
(* Properties                                                              *)
(***************************************************************************)

\* The counter tells its second's lines apart: at most CountMod of them came,
\* and no two tasks opened the second together.
Countable == ~raced /\ gated <= CountMod

\* "50 publishes/sec hard cap" (log_ring.cpp:61): of the lines of one second, no
\* more than the cap are published and none is dropped before the cap is used up,
\* so the window opens afresh every second, as long as the 8-bit counter has not
\* wrapped and no two tasks were in the gate at once.
CapIsExact ==
  Countable => /\ published <= CapPerSec
               /\ dropped > 0 => published = CapPerSec
==============================================================================
