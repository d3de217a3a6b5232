---------------------------- MODULE DeviceEvents ----------------------------
(***************************************************************************)
(* The event bus, its pump and the mirrors it feeds.  Zigbee (joins,       *)
(* leaves, reports), the commands of httpd and the relay, Home Assistant   *)
(* and the rules change devices and publish events; one queue per type     *)
(* holds them until the pump, started last at boot (main.cpp), hands them  *)
(* to the forwarders: ws_bridge.cpp pushes to the browser page, ha_glue.cpp*)
(* tells Home Assistant and publishes the state on the broker, which sends *)
(* our own messages back to us.  The page reads the devices with           *)
(* GET /api/devices (api_devices.cpp).  Rules and their events (RulePush)  *)
(* share the pump and the page.                                            *)
(*                                                                         *)
(* The queues, the device pool, device_cmd, ha_bridge and the broker are   *)
(* external.  The queues of a type's subscribers are drained together, so  *)
(* they are one queue here; queues of different types in any order.        *)
(***************************************************************************)
EXTENDS RulePush, FiniteSets

CONSTANTS Devices,
          DevNames, Quoted,   \* friendly names, and those with a character
                              \* that a JSON string has to escape
          Values, Wide,       \* attribute values, and those whose rendering
                              \* exceeds the forwarders' buffers
          NoValue,            \* the page lists the device without a value
          Mqtt, PumpTask,     \* the MQTT client's task, TaskEventBus
          MaxPageOps, MaxBrokerOps   \* bounds on changes of devices

ASSUME DeviceEventsAssumption ==
  /\ Quoted \subseteq DevNames /\ Wide \subseteq Values /\ Values # {}
  /\ None \notin DevNames \cup Values /\ NoValue \notin Values \cup {None}
  \* "None" is no set of devices, no snapshot and no answer either.
  /\ \A S \in SUBSET Devices : None # S
  /\ None \notin [id : Devices, name : DevNames]
  /\ None \notin [about : SUBSET Devices, left : SUBSET Devices,
                 rows : [Devices -> Values \cup {None}]]
  /\ {Mqtt, PumpTask} \cap Tasks = {} /\ Mqtt # PumpTask
  /\ MaxPageOps \in 0..MaxOps /\ MaxBrokerOps \in 0..MaxOps

VARIABLES mirror,   \* the mirror that is watched: "rules" or "page" in the
                    \* browser, or "broker"; they meet only in the pump
          boot,     \* how far app_main has come
          pool,     \* the name of each live device; None: gone or a tombstone
          shadow,   \* the last value of its attribute
          devQueue, \* events not yet drained, by type
          messages, \* MQTT_MSG events wait; one says no more than several
          devs,     \* what the page shows of each device
          rest,     \* the answer of a GET /api/devices being sent
          devsListed,
          unread,   \* observer: the page could make nothing of the last list
          inbound,  \* commands and states that the broker has for us
          ha,       \* the name Home Assistant shows of each device
          snap,     \* the snapshot each task is about to publish there
          todo,     \* devices for_each_device has yet to visit, None: not
                    \* connected yet
          astray    \* observer: mirrors that may have missed or crossed events

devVars == <<mirror, boot, pool, shadow, devQueue, messages, devs, rest, devsListed, unread,
             inbound, ha, snap, todo, astray>>
allVars == <<vars, devVars>>

Publishers == Tasks \cup {Mqtt, PumpTask}
DevTypes == {"join", "leave", "report", "optimistic"}
Rival == [join |-> "leave", leave |-> "join",
          report |-> "optimistic", optimistic |-> "report"]
\* The mirrors an event type feeds: the page's rows, its values, Home Assistant.
Mirrors(type) == IF type \in {"join", "leave"} THEN {"row", "ha"} ELSE {"value"}
NoRows == [d \in Devices |-> None]

\* The order of app_main: REST routes, ws_bridge_install, ha_glue_start, pump.
Stages == <<"zigbee", "http", "ws", "ha", "up">>
Reached(stage) == boot >= CHOOSE i \in DOMAIN Stages : Stages[i] = stage

Waiting(d, type) == d \in Queued(devQueue[type])
Settled(d, type) == ~Waiting(d, type) /\ ~Waiting(d, Rival[type])

\* ws_bridge_install, ha_glue_start: the forwarders have subscribed.
Subscribed == Reached(IF mirror = "page" THEN "ws" ELSE "ha")

(* event_bus_publish: one event into the queue of its type, if anybody has   *)
(* subscribed.  The observer notes what is not heard, overwritten or out of  *)
(* order; a later event in order puts the mirror right.                      *)
Post(type, d, x) ==
  LET q       == devQueue[type]
      mirrors == {d} \X Mirrors(type)
      over    == IF Len(q) = Depth THEN {q[1].id} \ Queued(Tail(q)) ELSE {}
      crossed == Waiting(d, Rival[type]) \/ (Waiting(d, type) /\ mirrors \cap astray # {})
  IN  IF ~Subscribed
      THEN devQueue' = devQueue /\ astray' = astray \cup mirrors
      ELSE /\ devQueue' = [devQueue EXCEPT ![type] = Enqueue(q, [id |-> d, arg |-> x])]
           /\ astray' = ((astray \cup over \X Mirrors(type)) \ mirrors)
                          \cup (IF crossed THEN mirrors ELSE {})

DevInit ==
  /\ Init
  /\ mirror \in {"rules", "page", "broker"}
  /\ boot = 1 /\ shadow = [d \in Devices |-> CHOOSE v \in Values : TRUE]
  /\ \E n \in {None} \cup (DevNames \ Quoted) : pool = [d \in Devices |-> n]
  /\ devQueue = [type \in DevTypes |-> <<>>] /\ messages = FALSE
  /\ devs = NoRows /\ rest = None /\ devsListed = FALSE /\ unread = FALSE
  /\ inbound = {} /\ ha = NoRows /\ todo = None
  /\ snap = [a \in Publishers |-> None] /\ astray = {}

Boot ==
  /\ boot < Len(Stages) /\ boot' = boot + 1
  /\ UNCHANGED <<vars, mirror, pool, shadow, devQueue, messages, devs, rest, devsListed, unread,
                 inbound, ha, snap, todo, astray>>

-----------------------------------------------------------------------------
(* Changes of devices, and the events about them.                          *)

Op ==
  /\ ops < [rules |-> 0, page |-> MaxPageOps, broker |-> MaxBrokerOps][mirror]
  /\ ops' = ops + 1

\* A step that is over with the pool, the shadow and an event.
Elsewhere == UNCHANGED <<store, queue, pump, found, open, page, listing, listed, lost,
                       mirror, boot, messages, devs, rest, devsListed, unread, ha, todo>>

\* A task serves one command at a time.
Idle(t) == snap[t] = None /\ (t = Httpd => rest = None /\ listing = None)

Join ==
  \E d \in Devices, n \in DevNames :
    /\ Op /\ pool[d] = None /\ pool' = [pool EXCEPT ![d] = n]
    /\ Post("join", d, n)
    /\ Elsewhere /\ UNCHANGED <<shadow, inbound, snap>>

Removed(d) ==
  /\ Op /\ pool[d] # None /\ pool' = [pool EXCEPT ![d] = None]
  /\ Post("leave", d, None)
  /\ Elsewhere /\ UNCHANGED <<shadow, inbound, snap>>

Leave == \E d \in Devices : Removed(d)

(* device_cmd_remove, soft or hard: the device is hidden either way. *)
DeviceDelete(t) == Idle(t) /\ Reached("ws") /\ \E d \in Devices : Removed(d)

Report ==
  \E d \in Devices, v \in Values :
    /\ Op /\ pool[d] # None /\ shadow' = [shadow EXCEPT ![d] = v]
    /\ Post("report", d, v)
    /\ Elsewhere /\ UNCHANGED <<pool, inbound, snap>>

(* device_cmd_set_attr, on a device that does not report: the value is taken *)
(* for granted.  An unknown device or a bad key changes nothing.            *)
SetAttr(d, v) ==
  /\ pool[d] # None /\ shadow' = [shadow EXCEPT ![d] = v]
  /\ Post("optimistic", d, v)

AttrCommand(t) ==
  \E d \in Devices, v \in Values :
    /\ Idle(t) /\ Op /\ SetAttr(d, v)
    /\ Elsewhere /\ UNCHANGED <<pool, inbound, snap>>

\* device.attr.set
AttrSet(t) == Reached("ws") /\ AttrCommand(t)

\* POST /api/device_state
DeviceState == Reached("http") /\ AttrCommand(Httpd)

PumpIdle == Reached("up") /\ pump = None /\ snap[PumpTask] = None

\* zigbee.set, by a rule that a report or the clock triggers, or by a script.
RuleActs == PumpIdle /\ AttrCommand(PumpTask)

-----------------------------------------------------------------------------
(* Home Assistant.                                                         *)

\* Another task is about to publish what it knew of the device.
Publishing(d) == \E b \in Publishers : snap[b] # None /\ snap[b].id = d

(* with_device: a snapshot of the pool now, published in a later step, or    *)
(* not at all without memory for it.  Two publications of one device at once *)
(* may end with the older one; with nothing else under way the new one puts  *)
(* Home Assistant right.                                                     *)
Snapshot(a, d, p) ==
  IF p[d] = None \/ mirror = "page" \/ ~Reached("ha") THEN UNCHANGED <<snap, astray>>
  ELSE \/ /\ snap' = [snap EXCEPT ![a] = [id |-> d, name |-> p[d]]]
          /\ astray' = IF Publishing(d) THEN astray \cup {<<d, "ha">>}
                       ELSE IF Settled(d, "join") THEN astray \ {<<d, "ha">>}
                       ELSE astray
       \/ snap' = snap /\ astray' = astray \cup {<<d, "ha">>}

\* Mutant: the hook reloads the rules and no more.
RulesOnly(t, d, p) == UNCHANGED <<snap, astray>>
\* ha_bridge_device_changed in the changed hook of main.cpp.
ChangedHook(t, d, p) == Snapshot(t, d, p)

(* device_cmd_rename, then the hook, by the same task. *)
DeviceRename(t) ==
  \E d \in Devices, n \in DevNames :
    /\ Idle(t) /\ Reached("ws") /\ Op /\ pool[d] # None /\ pool' = [pool EXCEPT ![d] = n]
    /\ ChangedHook(t, d, pool')
    /\ Elsewhere /\ UNCHANGED <<shadow, devQueue, inbound>>

HaPublish(a) ==
  /\ snap[a] # None
  /\ ha' = [ha EXCEPT ![snap[a].id] = snap[a].name]
  /\ snap' = [snap EXCEPT ![a] = None]
  /\ UNCHANGED <<vars, mirror, boot, pool, shadow, devQueue, messages, devs, rest,
                 devsListed, unread, inbound, todo, astray>>

(* The broker is connected: for_each_device copies the addresses of the live *)
(* devices under the lock, if it has memory for them ...                     *)
MqttConnected ==
  /\ mirror = "broker" /\ Reached("ha") /\ snap[Mqtt] = None
  /\ \/ todo = None /\ UNCHANGED ops
     \/ todo = {} /\ Op                          \* again, after a loss
  /\ LET live == {d \in Devices : pool[d] # None}
     IN  \/ todo' = live /\ astray' = astray
         \/ todo' = {} /\ astray' = astray \cup live \X {"ha"}
  /\ UNCHANGED <<store, queue, pump, found, open, page, listing, listed, lost, mirror,
                 boot, pool, shadow, devQueue, messages, devs, rest, devsListed, unread, inbound,
                 ha, snap>>

(* ... and snapshots each one again: one that has left is skipped. *)
ForEachDevice ==
  /\ todo # None /\ snap[Mqtt] = None
  /\ \E d \in todo : todo' = todo \ {d} /\ Snapshot(Mqtt, d, pool)
  /\ UNCHANGED <<vars, mirror, boot, pool, shadow, devQueue, messages, devs, rest,
                 devsListed, unread, inbound, ha>>

-----------------------------------------------------------------------------
(* The broker.  We subscribe to <root>/#, so our own messages come back.   *)

\* A Home Assistant command, one of our states, or anything else under the root:
\* our log lines under <root>/log/, one every 10 s while nothing else happens, the
\* metrics, what others publish.  The broker never runs out of these.
Topics == {"command", "state", "other"}

\* Somebody else publishes a command.
Published ==
  /\ mirror = "broker" /\ Reached("ha") /\ Op
  /\ inbound' = inbound \cup {"command"}
  /\ Elsewhere /\ UNCHANGED <<pool, shadow, devQueue, snap, astray>>

\* "Our own state echoes are skipped": <root>/devices/, and no other topic.
ForRules(topic) == topic = "other"

(* on_mqtt_rx, unless the same task is still in for_each_device: a command   *)
(* sets an attribute, what the rules may be interested in becomes an MQTT_MSG*)
(* event.                                                                    *)
OnMqttRx ==
  \E topic \in inbound \cup {"other"} :
    /\ mirror = "broker" /\ Reached("ha") /\ snap[Mqtt] = None /\ todo \in {None, {}}
    /\ inbound' = inbound \ {topic}
    /\ \/ /\ topic = "command"
          /\ \/ \E d \in Devices, v \in Values : SetAttr(d, v)
             \/ UNCHANGED <<shadow, devQueue, astray>>      \* not understood
       \/ topic # "command" /\ UNCHANGED <<shadow, devQueue, astray>>
    /\ messages' = (messages \/ ForRules(topic))
    /\ UNCHANGED <<vars, mirror, boot, pool, devs, rest, devsListed, unread, ha, snap, todo>>

-----------------------------------------------------------------------------
(* The page.                                                               *)

OpenPage == mirror # "broker" /\ Reached("http") /\ Open /\ UNCHANGED devVars

ClosePage ==
  /\ Close /\ devs' = NoRows /\ rest' = None /\ devsListed' = FALSE /\ unread' = FALSE
  /\ UNCHANGED <<mirror, boot, pool, shadow, devQueue, messages, inbound, ha, snap, todo, astray>>

(* An answer is about some devices: what it says of them, and those whose    *)
(* attributes are still to be read.                                          *)
Answering(d) == rest # None /\ d \in rest.about
HttpdFree == open /\ rest = None /\ listing = None /\ snap[Httpd] = None

(* handle_get_devices: a copy of the pool under its lock ... *)
CopyPool ==
  /\ mirror = "page" /\ HttpdFree /\ ~devsListed
  /\ rest' = [about |-> Devices, left |-> {d \in Devices : pool[d] # None}, rows |-> NoRows]
  /\ astray' = astray \ {<<d, "row">> : d \in {d \in Devices : Settled(d, "join")}}
  /\ UNCHANGED <<vars, mirror, boot, pool, shadow, devQueue, messages, devs, devsListed, unread,
                 inbound, ha, snap, todo>>

(* ... then a row at a time, with the attributes the shadow has by then. *)
ReadAttrs ==
  /\ rest # None
  /\ \E d \in rest.left :
       /\ rest' = [rest EXCEPT !.left = @ \ {d}, !.rows[d] = shadow[d]]
       /\ astray' = IF Settled(d, "report") THEN astray \ {<<d, "value">>} ELSE astray
  /\ UNCHANGED <<vars, mirror, boot, pool, shadow, devQueue, messages, devs, devsListed, unread,
                 inbound, ha, snap, todo>>

(* cmd_device_get: device and attributes under the lock, the answer later. *)
DeviceGet ==
  /\ mirror = "page" /\ HttpdFree /\ devsListed /\ Reached("ws")
  /\ \E d \in Devices :
       /\ pool[d] # None /\ devs[d] \notin {None, shadow[d]}
       /\ rest' = [about |-> {d}, left |-> {}, rows |-> [NoRows EXCEPT ![d] = shadow[d]]]
       /\ astray' = IF Settled(d, "report") THEN astray \ {<<d, "value">>} ELSE astray
  /\ UNCHANGED <<vars, mirror, boot, pool, shadow, devQueue, messages, devs, devsListed, unread,
                 inbound, ha, snap, todo>>

(* The answer is complete and the page shows it; unless a row was cut at     *)
(* 1024 bytes, so that no page can parse it, or there was no memory for it:  *)
(* then the page may ask again.                                              *)
Answered ==
  /\ rest # None /\ rest.left = {} /\ rest' = None
  /\ \/ /\ devs' = [d \in Devices |-> IF Answering(d) THEN rest.rows[d] ELSE devs[d]]
        /\ devsListed' = TRUE /\ unread' = FALSE
        /\ UNCHANGED astray
     \/ /\ unread' = ~devsListed
        /\ astray' = IF devsListed THEN astray \cup rest.about \X {"row", "value"} ELSE astray
        /\ UNCHANGED <<devs, devsListed>>
  /\ UNCHANGED <<vars, mirror, boot, pool, shadow, devQueue, messages, inbound, ha, snap,
                 todo>>

-----------------------------------------------------------------------------
(* The pump: event_bus_pump_run calls one handler after the other.         *)

\* A push that an answer on its way to the page will overwrite.
Overtakes(d, m) == Answering(d) /\ (m = "value" => d \notin rest.left)

Drained(type) == devQueue' = [devQueue EXCEPT ![type] = Tail(@)]
Note(d, m, wrong) == IF wrong THEN {<<d, m>>} ELSE {}

(* on_device_join pushes device.added; the name goes in as it is, so one    *)
(* with a quote makes a frame no page can parse.  A push without memory for *)
(* its envelope is dropped.  ha_glue.cpp publishes the device to Home       *)
(* Assistant, if it is still there (with_device, as in Snapshot).           *)
DrainJoin ==
  /\ PumpIdle /\ devQueue["join"] # <<>> /\ Drained("join")
  /\ LET d    == Head(devQueue["join"]).id
         bad  == Head(devQueue["join"]).arg \in Quoted
         tell == pool[d] # None /\ mirror = "broker"
     IN  \E heard \in {open, FALSE}, told \in {tell, FALSE} :
         /\ devs' = IF heard /\ ~bad /\ devs[d] = None
                    THEN [devs EXCEPT ![d] = NoValue] ELSE devs
         /\ snap' = IF told THEN [snap EXCEPT ![PumpTask] = [id |-> d, name |-> pool[d]]]
                    ELSE snap
         /\ astray' = astray \cup Note(d, "row", open /\ (~heard \/ bad \/ Overtakes(d, "row")))
                             \cup Note(d, "ha", tell /\ (~told \/ Publishing(d)))
  /\ UNCHANGED <<vars, mirror, boot, pool, shadow, messages, rest, devsListed, unread, inbound, ha, todo>>

\* Mutant: nobody subscribed to DEVICE_LEAVE for the page.
RowStays(d) == devs
RowGone(d) == [devs EXCEPT ![d] = None]

(* on_device_leave pushes device.removed, ha_bridge_device_removed clears    *)
(* what Home Assistant shows.                                                *)
DrainLeave ==
  /\ PumpIdle /\ devQueue["leave"] # <<>> /\ Drained("leave")
  /\ LET d == Head(devQueue["leave"]).id
     IN  \E heard \in {open, FALSE} :
         /\ devs' = IF heard THEN RowGone(d) ELSE devs
         /\ ha' = [ha EXCEPT ![d] = None]
         /\ astray' = astray \cup Note(d, "row", open /\ (~heard \/ Overtakes(d, "row")))
              \cup Note(d, "ha", Publishing(d))
  /\ UNCHANGED <<vars, mirror, boot, pool, shadow, messages, rest, devsListed, unread, inbound, snap, todo>>

\* Mutant: the fixed list of types that the P4's pump once drained.
FixedList == {"report"}
\* "Drain range is derived from the enum" (main.cpp:147).
AttrTypes == {"report", "optimistic"}

(* on_zcl_attr: attr.changed for a row the page has; a value too long for    *)
(* the buffer is not pushed.                                                 *)
PushAttr(d, v) == IF v \notin Wide /\ devs[d] # None THEN [devs EXCEPT ![d] = v] ELSE devs

\* on_attr: the state on the broker, under the same condition.
PublishState(v) ==
  IF v \in Wide \/ mirror = "page" THEN inbound ELSE inbound \cup {"state"}

DrainAttr(type) ==
  /\ PumpIdle /\ devQueue[type] # <<>> /\ Drained(type)
  /\ LET d == Head(devQueue[type]).id
         v == Head(devQueue[type]).arg
     IN  \E heard \in {open, FALSE} :
         /\ devs' = IF heard THEN PushAttr(d, v) ELSE devs
         /\ inbound' = PublishState(v)
         /\ astray' = astray \cup
              Note(d, "value", open /\ (~heard \/ v \in Wide \/ Overtakes(d, "value")))
  /\ UNCHANGED <<vars, mirror, boot, pool, shadow, messages, rest, devsListed, unread, ha, snap, todo>>

(* The rules look at an MQTT message; one may set an attribute, or publish:  *)
(* under our own root it comes back.                                         *)
DrainMessage ==
  /\ PumpIdle /\ messages /\ messages' = FALSE
  /\ \/ Op /\ UNCHANGED inbound /\ \E d \in Devices, v \in Values : SetAttr(d, v)
     \/ Op /\ inbound' = inbound \cup {"command"} /\ UNCHANGED <<shadow, devQueue, astray>>
     \/ UNCHANGED <<ops, inbound, shadow, devQueue, astray>>
  /\ UNCHANGED <<store, queue, pump, found, open, page, listing, listed, lost, mirror, boot,
                 pool, devs, rest, devsListed, unread, ha, snap, todo>>

\* on_rule_changed, by the same task.
DrainRule == PumpIdle /\ PumpTake /\ UNCHANGED devVars
LoadRule  == PumpLoad /\ UNCHANGED devVars
PushRule  == PumpPush /\ UNCHANGED devVars

RuleCommand(t) ==
  /\ mirror = "rules" /\ Idle(t) /\ Reached("ws") /\ UNCHANGED devVars
  /\ CmdRuleCreate(t) \/ CmdRuleUpdate(t) \/ CmdRuleDelete(t) \/ PostRules(t) \/ RulesItem(t)

RuleList == mirror = "rules" /\ rest = None /\ snap[Httpd] = None /\ Reached("ws") /\ ListLoad /\ UNCHANGED devVars
RuleListSent == ListReply /\ UNCHANGED devVars

\* What the pump does for the mirrors.
PumpStep ==
  \/ DrainJoin \/ DrainLeave \/ \E type \in AttrTypes : DrainAttr(type)
  \/ DrainRule \/ LoadRule \/ PushRule \/ HaPublish(PumpTask)

MqttStep == OnMqttRx \/ ForEachDevice \/ HaPublish(Mqtt)

HttpdStep == CopyPool \/ ReadAttrs \/ Answered \/ RuleList \/ RuleListSent \/ HaPublish(Httpd)

DevNext ==
  \/ Boot \/ Join \/ Leave \/ Report \/ DeviceState \/ RuleActs
  \/ Published \/ MqttConnected \/ ForEachDevice \/ OnMqttRx
  \/ \E t \in Tasks : DeviceRename(t) \/ DeviceDelete(t) \/ AttrSet(t) \/ RuleCommand(t)
  \/ \E a \in Publishers : HaPublish(a)
  \/ OpenPage \/ ClosePage \/ CopyPool \/ DeviceGet \/ ReadAttrs \/ Answered \/ RuleList \/ RuleListSent
  \/ DrainJoin \/ DrainLeave \/ \E type \in AttrTypes : DrainAttr(type)
  \/ DrainMessage \/ DrainRule \/ LoadRule \/ PushRule

DevSpec == DevInit /\ [][DevNext]_allVars

(* app_main runs to its end; the pump "sleeps until a publish; never         *)
(* returns": it goes through the types in turn, so that messages do not keep *)
(* it from the others; httpd and the MQTT client go on with what they have   *)
(* begun.  Nothing has to change, and nobody has to open a page.             *)
DevFairSpec ==
  /\ DevSpec /\ WF_allVars(Boot) /\ WF_allVars(PumpStep)
  /\ WF_allVars(MqttStep) /\ WF_allVars(HttpdStep)

-----------------------------------------------------------------------------
(* Every event about a rule or a device has been handled. *)
Quiet ==
  /\ queue = <<>> /\ pump = None /\ \A type \in DevTypes : devQueue[type] = <<>>
  /\ Reached("up")

\* The page shows the devices that are there with their last values, but for
\* those whose events were in two queues at once, overwritten, too long, not
\* pushed for want of memory, malformed or overtaken by an older list, and that
\* of a device.get that no page could parse.
DevicesAgree ==
  \A d \in Devices :
    ~Answering(d) /\ <<d, "row">> \notin astray =>
      /\ devs[d] = None <=> pool[d] = None
      /\ pool[d] # None /\ <<d, "value">> \notin astray => devs[d] \in {shadow[d], NoValue}

(* Once the events are drained, an open page that asked for its list shows   *)
(* the devices as they are, so the pump feeds it every type: "ws_bridge      *)
(* subscriber (attr.changed WS push, device join/leave, optimistic-shadow    *)
(* forward)" (main.cpp:143).                                                 *)
PageShowsDevices == Quiet /\ open /\ devsListed => DevicesAgree

(* Once everything is published, Home Assistant shows every live device      *)
(* under its last name and no other, but for those of which two publications *)
(* overlapped, one had no memory, or whose join and leave were queued at     *)
(* once: "Home Assistant sees the new name" (main.cpp:256).                  *)
HaShowsDevices ==
  Quiet /\ todo = {} /\ (\A a \in Publishers : snap[a] = None) =>
    \A d \in Devices : <<d, "ha">> \notin astray => ha[d] = pool[d]

(* A page that stays open comes to show the rules and the devices as they    *)
(* are, with the same exceptions, unless a list of devices came that it could*)
(* not parse: its list is answered, and every event since is drained.        *)
PageCatchesUp ==
  open ~> (~open \/ IF mirror = "rules" THEN RulesAgree ELSE unread \/ DevicesAgree)

(* No queue waits for ever: once nobody changes a device or a rule any more, *)
(* all their events are handled, of every type (main.cpp:147), though the    *)
(* broker keeps sending us our own log lines, each an event for the rules    *)
(* (ha_glue.cpp:144).                                                        *)
EventsDrain == <>[]Quiet
=============================================================================
