# zhac-mono-core in TLA+

zhac-mono-core is the firmware of a single-chip (ESP32-S3) Zigbee gateway. One chip
runs the Zigbee host, the rule and Lua engines, an HTTP/WebSocket server for the
browser UI, an MQTT/Home Assistant bridge and a relay to the cloud. `src/main`
holds the application: the request handlers, the stores it keeps in NVS flash and the
glue between the components. The components themselves (`zigbee_mgr`, `zigbee_pool`,
`simple_rules`, `rule_store`, `event_bus`, `ws_server`, `remote_client`,
`device_shadow`, `mqtt_gw`, the Lua engine, ESP-IDF) live in sibling repositories; they are
*external* here and modelled only as far as `src/` relies on them.

The modules below are TLA+ specifications of what the application does with its own
state, TLC configurations that check them on small instances, and proof modules
that TLAPS checks for every instance.

    tlc -workers 2 -config <Run>.cfg <Module>.tla      # a run of the table below
    tlapm <Module>Proofs.tla                           # the proofs

## 1. Inventory

### 1.1 Who runs what

| Task | Runs |
|---|---|
| httpd | every REST handler, and the WebSocket commands of browser pages, one at a time |
| task_remote | the same WebSocket commands for the cloud relay (`fd < 0`), one at a time |
| TaskEventBus (`main.cpp:141`) | `on_zcl_attr`, `on_device_*`, `on_rule_changed` (`ws_bridge.cpp`), `ha_glue` |
| MQTT client | `on_mqtt_conn`, `on_mqtt_rx` (`ha_glue.cpp`): the walk over the devices, commands |
| esp_event | `on_wifi_event` (`wifi.cpp:37`), with a 5 s sleep in it |
| esp_timer | the metrics publisher |
| any task | `log_vprintf`, installed as the log sink of the whole system |

httpd and task_remote call the same functions with no common lock except the store
mutex of groups, so two requests really overlap; between two NVS calls the chip may
also reset. These two facts shape most of the models.

### 1.2 Components

| Component | State | Operations | Talks to | Hard part | Correct when |
|---|---|---|---|---|---|
| Group store (`groups_store`, `api_groups`) | NVS bitmap `bmp` and blobs `g%04x`; recursive mutex; static `all[]` | create, get, update, delete, list, group.cmd | NVS, ws_push, device_cmd | two tasks, separate NVS writes, resets, a shared buffer | an acknowledged group stays; bitmap and blobs agree; a list is one snapshot; the mutex is always given back |
| Group pushes (`ws_bridge` group.*) | the list a page shows | reply, then broadcast | group store, ws_server | list and broadcast after the mutex, records that do not fit | the page shows the store |
| Device list (`ws_bridge` device.list, `devlist_page.h`) | reply buffer, cursor held by the cloud | one page, the unpaged list | zigbee_pool | pool changes between pages and between sizing and locking | each live device once, frame size kept, the walk ends |
| JSON strings (`json_buf.h`, `devlist_page.h`) | output buffer, `pos_`, `ok_` | JsonWriter, json_escape, build_body_json; strncpy into `GrpRecord::name` | every reply, log sinks | UTF-8 and escape boundaries, overflow | no character lost but one that a field cuts, valid JSON, all or nothing |
| Log ring and sinks (`log_ring`) | ring, head, count; rate epoch and count | capture, walk, dispatch, rate gate | every task, MQTT, WebSocket | capture between two entries of a walk; lock-free gate; 8-bit counter | old lines in place and once; cap kept |
| Sign-in (`auth`) | token, switch, salt+hash in RAM and NVS; per-socket tokens; failure buckets | boot, setup, login, password, rotate, switch, WebSocket auth, lockout | NVS, setup window, sockets | multi-write NVS updates, RAM before or after flash, reads that fail at boot, a switch tested twice | RAM and flash agree, old passwords stay gone, stale sessions go |
| Device options (`device_options`) | NVS body per device; device_shadow in RAM | set, show, restore at boot | device_shadow, NVS | RAM and flash apart, setters that refuse, two tasks, address-to-key conversion | what a stored request named survives a reboot, nobody gets another's options |
| Rules (`api_rules`, `ws_bridge` rule.*, `on_rule_changed`) | bounded event queue, the list a page shows | create, update, enable, delete, list, push | simple_rules, event_bus, ws_server | list answers racing pushes, queue overflow, lists and pushes that do not fit | the page shows the rules |
| Wi-Fi (`wifi`, `api_wifi`) | NVS ssid/password, driver, `s_sta_connected` | boot, connect, disconnect, status, scan, events | driver, router, esp_restart | two-key writes, fields that cut, restarts cutting other tasks, retry in the event task | nothing but what was asked for is used; outages heal |
| Scripts (`api_scripts`, `ws_bridge` script.*) | script cache, the list a page shows | upload, read, delete, list, run, check | lua_script_cache, sockets | receive in pieces, lookup before receive | an acknowledged source is whole; the page shows the scripts |
| WebSocket bridge (`ws_bridge`) | none of its own besides sockets' tokens | command dispatcher, pushes | all of the above | size of replies and payloads | see the components |
| Settings (`api_system`, `sys_state`) | settings in RAM and NVS | get, apply | NTP, MQTT, HA, auth, log sinks | partial application, RAM before flash, unreported NVS errors | answered = applied = stored |
| Boot and event pump (`main`) | how far the boot has come; the events it drains | init order, event pump, changed hook | everything | events before their subscribers, types drained in another order than published, full queues | a drained pump leaves every mirror with what the hub holds; no queue waits for ever |
| Device events and their page (`ws_bridge` on_*, `api_devices`) | the rows and values a page shows | GET /api/devices, device.get, device_state, device.attr.set, rename, delete; device.added, device.removed, attr.changed | zigbee_pool, device_shadow, device_cmd | a list built over several steps against pushes; values and names that do not fit | the page shows the devices |
| HA/MQTT glue (`ha_glue`) | what Home Assistant and the broker were told | snapshot and publish, walk after a connect, commands, echoes | ha_bridge, mqtt_gw | snapshots published later, echoes of our own messages | Home Assistant shows every device under its last name, however many messages come back |
| Cloud relay, status, metrics, web files (`api_remote`, `api_status`, `metrics_mqtt`, `spa_serve`) | none | hand over, read | external components | – | – |
| HAP shim (`components/`) | none | direct calls of two stubs | boot smoke test | – | – |

## 2. Modules

| Module | Extends / uses | Models |
|---|---|---|
| `GroupsStore` | | NVS bitmap and blobs, mutex, `all[]`, the five group requests of several tasks, NVS errors, resets |
| `GroupsPush` | `GroupsStore` | a page that mirrors the store through group.added/updated/deleted |
| `GroupsStoreProofs` | `GroupsPush`, TLAPS | theorems of section 6.1 |
| `DeviceList` | | `device.list` against a changing pool: the pages the cloud walks, and the unpaged list |
| `LogRing` | | the ring of lines and the walks of `log_ring_to_json` |
| `BoundedLog` | | abstract specification: the last `Size` lines |
| `LogSinks` | `LogRing` | capture, dispatch and the MQTT rate gate, by several tasks |
| `LogSinksProofs` | `LogSinks`, TLAPS | theorems of section 6.4, of the ring and of the gate |
| `AuthStore` | | token, password, sign-in switch, a system flag and sessions, by httpd and the relay, over power cycles |
| `Lockout` | | the failure buckets behind every sign-in |
| `SignInProofs` | `AuthStore`, `Lockout`, TLAPS | theorems of sections 6.6 and 6.7 |
| `DeviceOptions` | | per-device options in RAM and NVS |
| `DeviceOptionsProofs` | `DeviceOptions`, TLAPS | theorems of section 6.9 |
| `RulePush` | | rule changes, event queue, pump, rule.list, the page |
| `DeviceEvents` | `RulePush` | the boot, the event bus and its pump, device changes by every door, GET /api/devices, Home Assistant, the broker and its echoes |
| `DeviceEventsProofs` | `DeviceEvents`, TLAPS | theorems of section 6.2: of `RulePush`, of the composition, which implements it, and of its devices |
| `Wifi` | | credentials, restart, driver events, retry |
| `WifiProofs` | `Wifi`, TLAPS | theorems of section 6.8 |
| `ScriptStore` | | uploads in pieces, deletes, announcements, a page that opens, asks for its list and closes |
| `ScriptStoreProofs` | `ScriptStore`, TLAPS | theorems of section 6.3 |
| `JsonText` | | the string routines, byte by byte |
| `ReplyProofs` | `DeviceList`, `JsonText`, TLAPS | theorems of sections 6.5 and 6.10 |

How to read them: an action is one step between two points at which another task, a
callback, an error or a reset can come in. In `GroupsStore` that is one NVS call, in
`AuthStore` one NVS write, in `DeviceOptions` one setter or the NVS write, in `LogRing`
one critical section, in `LogSinks` one atomic access, in `DeviceList` one row (the pool
is locked per row of a page, and throughout the unpaged list), in `Lockout` one sign-in, in
`RulePush` and `DeviceEvents` one handler cut where it reads shared state and uses it later
(a rule loaded and pushed, a device snapshot published to Home Assistant, a list copied,
filled in and sent). `pc` (or `step`) holds where a task is; its values are named
for what comes next. Data whose content no property looks at is opaque (names,
rule texts; a member list is the bytes its record takes as JSON), lengths are counted in units
(rows, script pieces), a 15-digit NVS key is a bounded number, a `uint16_t` or `uint8_t` is a remainder.

**Observers.** A variable commented "observer" is not in the code; it records what a
property has to speak of (what was acknowledged, what a list request loaded, whether two
requests overlapped). No action reads one in its guard.

**The event system.** `DeviceEvents` composes everything that meets in the pump. Its state
is the product of three mirrors that share nothing but the pump and httpd, so a behaviour
watches one of them: `mirror`, fixed in the initial state, is "rules" or "page" (the two
halves of a browser page) or "broker" (Home Assistant and MQTT). Devices change and report
in all three, the forwarders of the other mirrors then do nothing. How the model treats
what lies outside `src/`:

* `event_bus`: a subscriber has one bounded queue per type, "oldest overwritten" when full
  (`main.cpp:152`). The subscribers of a type are drained together; types are drained in any
  order, since the order of `event_bus_pump_run` is not in `src/`. An event that nobody has
  subscribed to yet is gone.
* `ha_bridge`: a handler copies a device under the pool lock and publishes it afterwards
  (`ha_glue.cpp:48`); whether the bridge serialises publications is not visible, so they may
  overlap.
* The broker delivers everything under `<root>/#` to us, our own messages included, in any
  order, and is reachable once connected; a reconnect starts the walk over the devices
  again. States are skipped by `on_mqtt_rx`; of all other topics (`<root>/log/*`,
  `<root>/metrics/snapshot`, what others publish) there is always one more message, since the
  alive line of `main.cpp:365` alone brings one every 10 s.
* The page applies pushes to the rows it has and takes a list as it comes; one that it cannot
  parse changes nothing. Any push, list or snapshot may find no memory (the failed allocations of
  `ws_bridge.cpp:1124-1125`, `ha_glue.cpp:56,88` and of `ws_push`), and `ws_server` sends in the
  order it is called.

The observer `astray` collects the (device, mirror) pairs for which an event was not heard,
overwritten, drained out of order, too long, without memory, malformed or overtaken by an older
answer; a
later event in order, a list, or a publication puts the mirror right and takes the pair
out again. `lost` and `crossed` are the same for rules and scripts.

Correspondence of the main variables:

| Module | Variable | Code |
|---|---|---|
| GroupsStore | `bmp`, `blob` | NVS keys `bmp`, `g%04x` (`groups_store.cpp:59-69`) |
| | `lock` | `s_grp_mtx`, taken by `GrpLockGuard` and `grp_store_lock` |
| | `all` | the static buffer of `group_list_json` (`api_groups.cpp:44`) |
| | `req[t].rec` | the local `GrpRecord r` of a handler |
| DeviceList | `cursor`, `last`, `pos`, `slot` | argument `cursor`, `last`, `pos` of `cmd_device_list_page`, index `i` of `cmd_device_list` |
| LogRing | `head`, `count`, `n`, `start` | `s_head`, `s_count`, locals of `log_ring_to_json` |
| LogSinks | `epoch`, `rateCount` | `s_rate_epoch`, `s_rate_count` |
| AuthStore | `ram`, `flash`, `sessions` | the `s_*` statics of `auth.cpp` and `sys_state.cpp`, namespaces "zhac_auth" and "sys_cfg", `ws_server`'s per-socket flags |
| | `req[t]` | the locals of a running handler: fresh salt, fresh token, the settings it was given |
| Lockout | `buckets` | `s_buckets`, in 1..`Buckets`; a bucket in use has `lastUse` other than 0 |
| DeviceOptions | `shadow`, `flash`, `todo` | device_shadow, namespace `zhac_opt`, position in `apply_opts` |
| RulePush | `queue`, `pump`, `found`, `listing` | subscriber queue, event in hand, local slot, loaded list |
| DeviceEvents | `boot` | where `app_main` is: Zigbee started, REST routes, `ws_bridge_install`, `ha_glue_start`, pump task |
| | `pool`, `shadow`, `devQueue`, `messages` | names in zigbee_pool, device_shadow, the subscriber queues by type |
| | `rest` | the copied pool and the chunks of `handle_get_devices`, or the reply of `cmd_device_get` |
| | `snap[a]`, `todo` | the local copy of `with_device` in task `a`, the addresses of `for_each_device` |
| Wifi | `sta`, `events`, `delay`, `connected` | driver configuration, event queue, the 5 s sleep, `s_sta_connected` |
| ScriptStore | `up`, `listing` | locals of `handle_scripts_item`, the reply of `cmd_script_list` |
| JsonText | `out`, `ok`, `read`, `size` | `buf_[0..pos_)`, `ok_`, the read index, the size of the destination |

## 3. Runs

Deadlock is checked in every run except where behaviours end by design: `AuthStore`
(tokens and salts are bounded), `Lockout` (time is), `LogSinks` (lines and seconds are bounded),
`Wifi` (requests are), `DeviceEvents` (changes are bounded, and before the broker is connected a
drained hub without a page rests) and `JsonText` (a routine returns); the configuration files say so.

| Run | Question | Bounds, and why they are enough |
|---|---|---|
| `groups_store` | Is a list one snapshot although `all[]` is shared, and what can be read of one that does not fit its buffer? Does every error path give the mutex back, so that every request is answered (liveness)? | two tasks (all that exist), every request but update (which groups_push runs), 2 slots, records of two sizes, any one of seven NVS calls failing, one reset. Two slots make a list that mixes two loads different from both; two small records fit the list buffer together, a small and a large one leave a comma before a missing row, a large one alone leaves an empty list (rows over `RowCap` are in groups_push, and in the theorem); each error path is reached with one error |
| `groups_push` | Does an acknowledged group stay? Do bitmap and blobs disagree only in mid-operation? Does the page show the store? | 1 slot, a record that fits everything, one that fits its row but not the frame, one that fits neither its row nor `rsp[512]`; one NVS error, one reset. Two tasks fighting for one slot is the conflict; other slots are what the theorems of section 6 cover. `httpd` answers REST or WebSocket, the relay WebSocket only |
| `device_list` | Each steadily live device exactly once, in order; frame size; termination of the walk; is the unpaged list complete unless the pool outgrew it, and inside its buffer? | table of 3, rows that fit, just fit or never fit, bounded pool changes, one lost page: a device can leave and come back at another slot during the walk, and the pool can outgrow its spare rows between sizing and locking |
| `log_sinks` | Are walks faithful under capture? Does the ring implement `BoundedLog`? Is the cap kept, and nothing dropped below it? | ring of 3, 7 lines (two wraps), two logging tasks, cap 2, counter modulo 4, three seconds |
| `auth_store` | Do RAM, flash, passwords and sessions stay consistent over errors, power cycles and overlapping requests of the two tasks? | one password (a change replaces it under a new salt, which is what tells old from new), one socket, one error (any NVS call, reads at boot included), one power cycle, 2 tokens, 3 salts; both tasks may rotate and change settings, a sign-in shows any token, and section 6.6 proves the same for any number. The flag is only set, the switch goes both ways |
| `lockout` | Does the lock bound the guesses, and does it refuse only those who earned it? | three peers for two buckets (eviction), limit 2, window 2, a clock that wraps at 4 and runs to 6: a failure at tick 0, failures across the wrap and failures a whole turn old all occur |
| `device_options` | What survives a reboot, and is what is shown in force? Is it the right device's? | two tasks; three addresses, of which one is cut and its key names another one; two bodies, two values across the 16-bit wrap, two requests, setters that refuse, long bodies, NVS errors and restarts that lose any part of what is stored |
| `options_partial` | Is what a reboot restores all that was in force, with bodies that name different fields? **Violated**, see section 5 | one task, two requests, no errors, addresses that fit their keys |
| `event_pump` | Do the page and Home Assistant show the rules, devices, values and names the hub holds, once everything is drained? Does a page that stays open catch up, and is every queue drained although our own messages keep coming back (liveness)? | two devices or two rules, two names of which one needs escaping, two values of which one is too long, queues of 2, any push, list or snapshot failing; 4 rule changes, or 3 changes of devices (2 with the broker): enough to overflow a queue while a list is under way, to join, leave and join again, and to rename during a publication. Changes may come at every stage of the boot from the Zigbee start on |
| `wifi` | Does the flag follow the link? Is nothing used but what was answered? Does an outage heal (liveness)? | two tasks, 3 requests, a network that fits its fields, one with an SSID of 32 characters and a password of 64, one that is longer; an outage, an NVS error (of a read at boot too), a reset, a driver that may refuse |
| `script_store` | Is an acknowledged source whole? Does the page list the scripts? | three names for lists of two rows, bodies around the buffer size, receive and write errors, two deleting tasks, 5 requests, a page that comes and goes at any moment |
| `json_text` | Do the string routines show whole names, lose one character at most where the field is too short, and send valid JSON or nothing? | every string of up to 4 bytes over fourteen bytes at the edges of the UTF-8 ranges (overlong forms, surrogates, beyond U+10FFFF, stray and missing continuations, quote, backslash, controls), four buffer sizes, fields of 4 and 5 bytes (a name that is cut, one that just fits) |

Properties are commented where they are defined; every one is refuted by at least
one small change of the code that the modules define as a "Mutant" operator next to
the definition it would replace.

### Conditions inside properties

Some properties name the circumstances in which the code does *not* do what one
would like; the model contains those circumstances, so dropping the condition makes
TLC produce the trace.

| Property | Exception | Why it fails in the code |
|---|---|---|
| `ListIsSnapshot` | rows of 256 bytes, lists of 4096: only what stands before the first row that did not fit can be read, and of a single group without a row the list reads as empty | `grp_to_json` returns 0 after the comma was written (`api_groups.cpp:51-55`); five members suffice |
| `AckedGroupKept` (run and theorem) | `nvs_open`, `nvs_get_u32`, `nvs_set_u32` failing | an unreadable bitmap reads as 0 (`groups_store.cpp:59-63,74`), the result of `nvs_set_u32` in `grp_save` is not used (`:115`) |
| `DivergenceIsMidOperation` | after the first NVS error or reset | two writes without a transaction (`groups_store.cpp:108-115,137-147`); acknowledged groups stay intact all the same |
| `PageShowsStore` (`behind`, `late`, `crossed`) | groups changed by REST, or by two tasks at once; a record of 512 bytes; a change announced between the load of a list and its sending; a list that does not fit its row, buffer or frame; after the first NVS error | REST handlers push nothing (`api_groups.cpp:139-191`); broadcasts and lists leave after the mutex (`ws_bridge.cpp:222`, `:207-211`); `null` is pushed for what `rsp[512]` cannot hold (`:217-222`, `:234-239`); `:210` cuts the frame |
| `CapIsExact` | more than 256 lines in a second; two tasks in the gate at once | 8-bit counter; epoch and count are separate atomics (`log_ring.cpp:165-172`) |
| `AckedPasswordKept` (`torn`, `unread`) | a write cut between salt and hash; of RAM: a boot that could not open the storage or read the password | two NVS entries (`auth.cpp:145-147`); a failed read counts as "no password" (`:307-308`), which also opens the setup window again until it closes |
| `RamMatchesFlash` (`raced`) | after the first NVS error; requests of both tasks that overlap on one key | failed writes leave RAM as it is or ahead of flash, failed reads are taken for absent values and a new token is stored (`auth.cpp:298-308`); no lock spans NVS and RAM (`:351-364`, `:333-343`, `sys_state.cpp:64-72`): of two rotations, flash may keep one token and RAM the other until the next boot |
| `SessionsCurrent` (`excused`) | sockets that a rotation found signed in with sign-in off, or past the comparison; sockets compared when sign-in had just been switched off | `deauth_all` is called only with sign-in on (`auth.cpp:357`), and the switch ends no session; `auth_check_token` and `ws_server_fd_set_authed` are two calls (`ws_bridge.cpp:973-974`); the dispatcher tests the switch (`:971`) and `auth_check_token` tests it again and then takes any token (`auth.cpp:367`) |
| `GuessesAreBounded` | as many other peers as buckets failed meanwhile; after the first wrap of the clock (49.7 days) | eviction by `last_use_ms`, which is compared without regard to the wrap (`auth.cpp:74`); a failure at tick 0 counts for nothing |
| `RefusedForCause` | a failure a whole turn of the clock old | `now - t` is small again (`auth.cpp:89`) and buckets are never cleared |
| `NamedOptionsSurvive`, `ShownIsInForce` (`dirty`, `unsettled`) | a device whose last request was refused a field, overlapped another one or was not stored, or whose body a restart could not read or set; addresses of 16 hex digits | setters' refusals are answered and the body is stored all the same (`device_options.cpp:42-58,68-82`); NVS errors and bodies of 192 bytes or more are not reported; no lock spans apply and store; `:101-102,115` skip what cannot be read; `key_for` cuts the key (`:35`) |
| `OptionsAreOwn` | a device whose address is what the key of another one was cut to | `key_for` cuts the key to 15 characters (`device_options.cpp:35`), and the address comes back from the key |
| `PageShowsRules`, `PageCatchesUp` (`lost`) | events overwritten in the full queue; a push over 1024 bytes or without memory; a list older than a push, cut at 16 KB or that no page can parse | `main.cpp:152`; `ws_bridge.cpp:797-800,1124-1125`; `:810`, `:819-820` |
| `PageShowsDevices`, `PageCatchesUp` (`astray`, `unread`) | events overwritten; a join and a leave, or a report and an optimistic value, queued at once; values too long; pushes without memory; a name with a quote; a list or `device.get` older than a push; a list or `device.get` that no page can parse | `main.cpp:152`; separate queues by type; the forwarders' buffers; `device.added` prints the name unescaped (`ws_bridge.cpp:1099`); `api_devices.cpp:54` copies first and reads attributes later, and cuts a row at 1024 bytes (`:105-109`) |
| `HaShowsDevices` (`astray`) | events nobody heard during the boot, overwritten or crossed; two publications of one device at once; a snapshot without memory | as above; a snapshot is published later (`ha_glue.cpp:48`), `:56,88` return without one |
| `AnsweredIsUsed` (`clean`, `misread`) | two overlapping requests; an erase error that was passed over; that it is *all* in use: an SSID of 32 characters and a password of 64 lose the last one (such a network is never found), longer ones and keys that cannot be read are left out | no lock around the two keys; `wifi_forget_and_reboot` ignores the result (`wifi.cpp:203`); `snprintf` into 32 and 64 bytes (`:111-114`); `load_creds` (`:69-74`) |
| `Reconnects` (`refused`) | `esp_wifi_connect` refused | its result is ignored and no event follows (`wifi.cpp:48`) |
| `AckedSourceIsWhole` | a receive error; a body over the buffer; a delete of the same script at the same time | the loop ends alike for "all received" and "failed" (`api_scripts.cpp:118-122`) |
| `PageListsScripts` | a script deleted by the other task while it is uploaded or listed; a list over 1024 bytes | `existed` is read before the body is received (`:111`); the list is read before it is sent (`ws_bridge.cpp:861`) and cut at its buffer, so that no page can read it |
| `NameShownWhole` | names that are not UTF-8 | `json_escape` passes bytes >= 0x80 through |
| `CutNameShown` | up to three U+FFFD for a character that the field cut | `strncpy` (`api_groups.cpp:66,89`); `JsonWriter::str` replaces each byte that belongs to no character |

Also seen while modelling: an update that read a group before another task deleted it
writes it back (`api_groups.cpp:88-91`; there is no lock over find and save). Rows that
`rule.list` has no room for are left out of a list that is valid JSON (`ws_bridge.cpp:820`), so a
page cannot tell that it is incomplete.

## 4. Fairness

Liveness is claimed in four runs, always with fairness of the firmware's own steps and
never of a user, the cloud, the router or a fault.

* `GroupsStore!Fairness`: weak fairness of every step of a running request, because
  FreeRTOS keeps a ready task running; strong fairness of taking the mutex, because
  FreeRTOS hands a mutex to a waiting task when it is given, so one that is given again and
  again is in the end given to the waiter.
* `DeviceList!Fairness`: the handler's steps and the cloud asking for the next page of a
  walk it has begun; pool changes and losses are bounded by constants. Pages may be lost.
* `DeviceEvents!DevFairSpec`: `app_main` going on (`Boot`), the pump, which "sleeps until a
  publish; never returns" (`main.cpp:141`, `PumpStep`), the MQTT client (`MqttStep`: what the
  broker delivered is handled, the walk over the devices goes on) and httpd (`HttpdStep`: a list
  a page asked for is answered). Each is one task, so weak fairness of the disjunction of its
  steps is what its scheduling gives. Joins, reports, commands, rule changes, connects and
  pages are not fair.
* `Wifi!FairSpec`: the event task and the driver. `Reconnects` assumes that the router stays
  reachable from some time on.

## 5. Finding

`options_partial`: `device_options_set` applies the fields a request names on top of those
in force, but stores this request's body alone (`device_options.cpp:62-83`). After
`{"occupancy_timeout":…}` and then `{"debounce_ms":…}`, both are in force and both
were answered ok; a reboot restores only the second. `api_devices.cpp:308` says the options
are "persisted to NVS so they survive reboot".

One more disagreement, without a run of its own: `group_create` and `group_update` fill the name
of a record with `strncpy` (`api_groups.cpp:66,89`), which cuts inside a character.
`json_buf.h:46-48` describes `utf8_safe_copy` as the copy "into a fixed field (e.g.
GrpRecord::name[32])" whose "truncation lands on a code-point boundary"; nothing in `src/`
calls it. `JsonText!StoreName` models the `strncpy`, and `CutNameShown` (run `json_text`) with
`CutSpoilsOneCharacter` (section 6.10) bound the damage: one character is lost and shown as up to
three U+FFFD.

## 6. Proofs

Each proof module holds an inductive invariant in named parts, one lemma per action that
keeps it, and the theorems. The assumptions are the `ASSUME`s of the modules, which TLC
evaluates in every run, and nothing else unless said.

### 6.1 Groups (`GroupsStoreProofs`)

For every set of tasks, table size, names, member lists, sizes of rows, buffers and frames, fault
sets and bounds, and every set of tasks that also serve REST:

| Theorem | States |
|---|---|
| `TypeCorrect` | `Spec => []TypeOK` |
| `BaseInvariance` | `Spec => []BaseInv`: typing, mutual exclusion, well-formed requests, and the blob of the slot in work is what its operation made it, whatever fails |
| `AckedGroupIsKept` | `Spec => []AckedGroupKept`, assuming `BitmapIsReliable` (no failing `nvs_open`, `nvs_get_u32`, `nvs_set_u32`) |
| `DivergenceOnlyMidOperation` | `Spec => []DivergenceIsMidOperation` |
| `ListShowsOneMoment` | `Spec => []ListIsSnapshot` |
| `PagesImplementStore` | `PushSpec => Spec`: so all of the above with the pages and broadcasts of `GroupsPush` along |
| `PageFollowsGroups` | `PushSpec => []PageShowsStore` |

`AckedGroupKept` is not inductive: that a create does not overwrite an
acknowledged group depends on the slot having been free when the bitmap was read *and*
on nobody else writing since. The inductive invariant says so in parts:

* `LockInv`: a task inside a store operation holds the mutex; hence (`AloneInStore`) at
  most one is inside.
* `ReqInv`: what the request record holds at each step (an id within the table before any
  write, a record before any save).
* `BlobInv`: between the writes, the blob of the slot in work is already the new one
  (save) or already gone and no longer promised (delete).
* `BitInv` (needs `BitmapIsReliable`): at the commit of a save the bit is set, and a create
  writes a blob only where the bit is clear. With `AckedGroupKept` this shows that the slot
  a create writes was promised to nobody.

Each is preserved per action: `StoreMoves` describes how a store step moves its task,
`OutsideMoves` that requests, replies and resets touch no blob and no step the
invariants speak of, and `LockStep`, `ReqStep`, `BlobStep`, `BitStep`, `AckedStep`,
`DivergenceStep` take the disjuncts of `Next` one by one. `DivergenceOnlyMidOperation`
uses a further invariant, that before the first error only the slot of the mutex holder
may differ between bitmap and blobs (`AgreeBeforeWrite`, `DivergenceStays`).

`ListIsSnapshot` rests on `SnapInv`: from the load to the last row the static buffer holds
what this task loaded, because whoever else would write it is kept out by the mutex. What can be
read of it is then a matter of `Serialised` alone (`SerialisedPart`): each row is the loaded one or
missing, and a list with a missing row has a comma too many unless that row was the only one.

`PageShowsStore` speaks of the moment when every request is answered; `PageInv` says what a
page is owed before. A slot is `Midway` from the first write to it up to the commit, and then
`Unsaid` until its task has answered. `ShowInv`: the page is right about every slot that is
neither (and not in `behind`). `DueInv` says the same of a list that is loaded and not yet sent,
but for the slots in `late`, whose changes were announced since; when it is sent these become what
the page is behind on. `SayInv`: the only task that is still to speak of a slot, if it
was not overtaken, will say what is stored. `MidInv` gives the bit at the commit, `BlobInv` the
blob, so that what is said is what is listed. `StoreChanges` sums up every step in the
store: what is listed of a slot changes only on the way to a commit, and a change once begun
ends as one to be announced (before the first error). Then a store step and an
answer are argued for one slot at a time.

### 6.2 Rules and devices (`DeviceEventsProofs`)

For every set of tasks, rules and contents, devices, names and values, every queue length and
any number of changes:

| Theorem | States |
|---|---|
| `RuleInvariance` | `Spec => []RuleInv` |
| `RulesTyped` | `Spec => []TypeOK`: also that the queue never exceeds its depth |
| `PageFollowsStore` | `Spec => []PageShowsRules` |
| `SystemImplementsRules` | `DevSpec => Init /\ [][Next]_ruleVars`: as far as the rules go, the whole event system does what `RulePush` says |
| `PageFollowsRules` | `DevSpec => []PageShowsRules` |
| `DevicesInvariance` | `DevSpec => []DevInv` |
| `PageFollowsDevices` | `DevSpec => []PageShowsDevices` |
| `HaFollowsDevices` | `DevSpec => []HaShowsDevices` |

`PageShowsRules` speaks only of states in which everything is drained. What makes it true is
that the pump reads the store again when it handles an event, so the *last* event about a rule
is the one that counts, if it is pushed. `RuleInv` says so from the queue to the page: `LastAgree` (an event
with none about the same rule behind it is a deletion exactly if the rule is gone), `PumpInv`
(the same of the event in hand unless a later one waits, and the rule loaded for it is the stored
one), `PageInv` (the
page agrees with the store on every rule no event is under way about). `EnqueueAgrees` carries
this over a publication, overwriting included: the rule of the overwritten event is one the
queue is still about, or is counted as lost. So is the rule of a push that was dropped
(`Missed`), and what a list left out, unless an event about the rule is still to be pushed. That `PumpLoad` may drop an event whose rule is
gone follows from `PumpInv`: the deletion is still queued.

Every step of the composition is a step of `RulePush` or leaves its variables alone
(`RulesPart`), so the theorem carries over without a second proof.

`DevInv` does for devices what `RuleInv` does for rules, where a device has two queues per
mirror (join and leave, report and optimistic) and each has an order of its own. Per device
that is not in `astray`:

* `PresenceInv`: not both joins and leaves wait, and those that wait say whether it is there.
  This is what makes the order between the queues harmless.
* `HaInv`: once neither waits, at most one task is about to publish the device, with its
  present name, or none is and Home Assistant shows it as it is. A device that
  `for_each_device` has yet to reach after a connection is exempt (`Owed`).
* `RowInv`: once neither waits, the answer under way will give the page a row just when the
  device is there; without an answer the page already has it so.
* `ValueInv`: not both reports and optimistic values wait, the last one is the value of the
  shadow (`Latest`), and once none waits the row has that value, no value yet, or will have it
  by the answer.

`ScopeInv` ties the mirrors to the boot and to the page: only an open page has an answer or a
list, its first answer is about every device, and nobody walks the devices before
`ha_glue_start`. `PostEffect` and `DrainEffect` say once what a publication and a drain do to a
queue, to the last events in it and to `astray`; the lemma of each action rests on them. The
theorems assume that there is a value (`Values # {}`: a shadow always holds one) and that
`None` is neither a set of devices nor an answer, which `DeviceEventsAssumption` states.

### 6.3 Scripts (`ScriptStoreProofs`)

For every set of tasks and names, every length of a body and of the buffer, any number of
requests and whatever fails:

| Theorem | States |
|---|---|
| `ScriptInvariance` | `Spec => []IInv` |
| `ScriptsTyped` | `Spec => []TypeOK`: also that an upload never receives more than was sent or than its buffer holds |
| `AckedSourceIsStored` | `Spec => []AckedSourceIsWhole` |
| `PageFollowsScripts` | `Spec => []PageListsScripts` |

The two properties speak of quiet states; `IInv` says what holds in between. `WrittenInv`: from
the write to the answer what was received is stored. `AckedInv`: an acknowledged source is
whole except while a newer write of it waits for its answer. `ExistInv` and the second half of
`PageInv`: whether the script existed, looked up before the body arrived, is still true when it
is written and still tells whether the page has the row. `CrossInv` is what makes these
inductive: a script that is both uploaded and deleted at once is in `crossed`, and every other
script whose deletion is still to be announced is gone. `ListInv`: a list under way has every
script that is stored, because only httpd, which sends it, stores scripts.

### 6.4 Log ring and rate gate (`LogSinksProofs`)

For every size of the ring, any number of readers, logging tasks, lines and seconds, every
cap and every width of the counter:

| Theorem | States |
|---|---|
| `RingInvariance`, `RingTyped` | `Spec => []RInv`, `Spec => []TypeOK` |
| `WalksAreFaithful` | `Spec => []WalkIsFaithful` |
| `RingImplementsBoundedLog` | `Spec => ImplementsBoundedLog`: the ring read from its oldest slot is the abstract log |
| `SinksImplementRing` | `SinkSpec => Spec`: logging and publishing do to the ring what `LogRing` says, so the two theorems above hold there too (`LoggedWalksAreFaithful`, `LoggedRingImplementsBoundedLog`) |
| `CapIsKept` | `SinkSpec => []CapIsExact` |

The ring: `RingInv` gives the line in each slot by its `Age`, the distance behind `head`;
as lines are numbered as they come, a line's number modulo `Size` is its slot. `WalkInv` says
of a reader between two critical sections that each row it has copied is the line that was at
its place when the walk began or a newer one *of the same slot*, and that what it will
still find is so too. No line can then come twice, because its number tells its slot and the
walk visits each slot once. The refinement needs the invariant in both states of a step
(`ContentsAre`: the ring's contents are the last `count` numbers), after which a capture appends
(`RecentGrows`) or drops the oldest and appends (`RecentSlides`).

The gate: `CapIsExact` is about counters while tasks are between two atomics. `Passed(g)` is
what the counters show when g lines of this second have left the gate, `Entered(t)` what task t
in the gate has found; `SoloInv` (without a race one task at a time is inside) ties the two
together. That the counter may have any width depends on `Countable`: an addition wraps
only after `CountMod` lines of one second.

### 6.5 Device list (`ReplyProofs`)

For every pool size, set of addresses, row lengths and buffer sizes that satisfy
`PageAssumption` (an empty page, a full row and the longest tail fit the reply together:
59 + 640 + 48 bytes of 8192 in the code; a row is at least a byte), and any number of joins, leaves and
losses:

| Theorem | States |
|---|---|
| `ListInvariance`, `ListTyping` | `Spec => []IInv`, `Spec => []TypeOK` |
| `NoDeviceTwice` | `Spec => []EachDeviceOnce` |
| `NobodySkipped` | `Spec => []NoLiveDeviceSkipped` |
| `EveryReplyFits` | `Spec => []ReplyFits` |
| `WholeListOrManyJoins` | `Spec => []FullListIsComplete` |

The properties speak of what the cloud has received; the pages under way decide what it
will have. `OrderInv` splits the addresses at `cursor` and `last`: what was received is at most
the first, what the page adds is between the two, both in order. A repeated page (its reply was
lost) starts at the same cursor and so adds nothing twice. `SteadyInv`: a device that is live
throughout the walk and not above that place is in one or the other; `devlist_next` takes the
lowest live address above the place, so it cannot pass one. `PoolInv` (slots in use are the
first ones, live devices have different addresses) is what makes "lowest" one device.
`FitInv` bounds the unpaged list by a full row for each slot passed, so that it is cut only when
more slots are in use than were counted and the slack covers, and `FullInv` says which live
devices its rows are. What a sequence of addresses in order gains by an append is in lemmas of
its own at the head of the module.

### 6.6 Sign-in store (`SignInProofs`)

For every set of passwords and sockets, any number of tokens, salts, NVS errors (of the reads at
boot too) and resets:

| Theorem | States |
|---|---|
| `AuthInvariance`, `AuthTyping` | `Spec => []IInv`, `Spec => []TypeOK` |
| `RamAgreesWithFlash` | `Spec => []RamMatchesFlash` |
| `PasswordSurvives` | `Spec => []AckedPasswordKept` |
| `SessionsFollowToken` | `Spec => []SessionsCurrent` |

`RamMatchesFlash` speaks of idle tasks. In between, one task may be between the two writes of
a key: `TokenInv`, `SwitchInv` and `FlagInv` say for each key what that task has written already
and that the key agrees when there is no such task; `RaceInv` makes sure there is at most
one, unless the observer `raced` has noticed. `SysInv` covers the boot, where `sys_state_init`
reads its flag before `auth_init` reads the rest; without it the invariant does not survive the
second half of the boot.

`AckedPasswordKept` needs an order of the salts. Each change draws a newer one and writes salt,
then hash. `FlashPwInv`: the stored hash never has a newer salt than the one stored beside it,
and an older one only if a write was cut (`torn`) or is under way. `AckedInv`: the stored
hash is the acknowledged one or newer. `RamPwInv`: the pair in RAM goes together, or a boot
loaded a cut one, and then no password gets past the comparison that a change begins with,
so the cut stays; there is a password in RAM once one was acknowledged, but in a power-on that
could not open the storage or not read the pair, until a new one is set. That a boot whose reads
fail does not disturb what is stored is `FlashPwInv` again: it writes the token alone.
`SessionInv`: sessions and a sign-in about to be marked showed the token in
RAM, but for the sockets in `excused` and between a new token and the end of the old sessions.

`AuthAssumption` says of `None` only that it is none of the values it stands beside.

### 6.7 Lockout (`SignInProofs`)

The definitions of `Lockout` are named `LockInit`, `LockNext`, `LockSpec`, so that one module can
extend both specifications.

For every finite set of addresses, any number of buckets, any limit, window and width of the
clock (`Window < Wrap`):

| Theorem | States |
|---|---|
| `LockoutInvariance` | `LockSpec => []LockInv` |
| `GuessesBounded` | `LockSpec => []GuessesAreBounded` |
| `RefusedOnlyForCause` | `LockSpec => []RefusedForCause` |

The observer keeps the last failures of each peer with their true times; the code keeps
remainders of them in rings that other peers may take over. `Mirrors` (always): a slot
of a ring holds the failure of its place or nothing. This gives `RefusedForCause`, since two
times with close remainders are close or a turn apart. `Keeps` (before the first wrap):
a bucket holds the last m failures of its peer, and if there are older ones that it does not
hold, though it has room, a `Crowd` of as many other peers as there are buckets has failed since:
`Holds` says the same of a peer without a bucket. A peer loses its bucket only to a newcomer
that finds all others used more recently, each by another peer, and these and the
newcomer are the crowd (`Cardinality` of an image of the buckets). `Spread` puts the two
together: one failure more than the limit takes a window, because the comparison would
have refused it, or a crowd. Only a failure adds to the observer, so `Spread` need be shown
for one peer in one action.

### 6.8 Wi-Fi (`WifiProofs`)

For every set of tasks and networks, whatever their lengths, and any number of requests, errors,
outages and crashes:

| Theorem | States |
|---|---|
| `WifiInvariance` | `Spec => []IInv` |
| `FlagIsLink` | `Spec => []FlagFollowsLink` |
| `AnswerIsUsed` | `Spec => []AnsweredIsUsed` |

`FlagFollowsLink` speaks of an empty event queue. `LinkInv` lists what may be queued in each
state of the link, so that handling it ends with the flag right: at most an address and its
loss (`GotAndLost`) or one event, and nothing while the event task sleeps. `CredsInv` follows
a request through its NVS writes (`Progress`): what it has stored at each step, and that what a
restart will load is what it was asked for. What the driver then runs with (`Uses`) is what
`Creds` makes of that, or of a key that could not be read: another network's SSID or password is
never among it.

### 6.9 Device options (`DeviceOptionsProofs`)

For every set of tasks, addresses, bodies and values, any number of requests, and setters, NVS
calls and restarts that fail at will; no theorem has a hypothesis:

| Theorem | States |
|---|---|
| `OptionsInvariance`, `OptionsTyping` | `Spec => []IInv`, `Spec => []TypeOK` |
| `OwnOptionsOnly` | `Spec => []OptionsAreOwn` |
| `StoredInvariance` | `Spec => [](IInv /\ StoredInv)` |
| `ShownOptionsHold` | `Spec => []ShownIsInForce` |
| `NamedSurvive` | `Spec => []NamedOptionsSurvive` |

`key_for` prints at most 15 hexadecimal digits: an address of 16 is cut, and a restart then
gives its options to the device that the key names, if there is one. The addresses are arbitrary
here, so the properties name the devices they speak of: `OwnKey`, a device whose address is
its key and nobody else's, and `Unshadowed`, one that nobody else's key reads back as.

`ServedInv` speaks of a request half applied: `SoFar(o, b, n)` says that the options o hold what
the body b says in the fields before the n-th, `flood_protection` only until `debounce_ms`
takes its place. At the fifth field this is what `StoredInv` says of the stored body, so that
`Persist` hands over from one to the other; a task that was refused a field or met another request
for its device is `dirty` and exempt, and leaves its device `unsettled` until the next good
request. A restart applies the body to the defaults, and `Applied` gives `SoFar` of the
result, or leaves the device `unsettled` if a field was lost: two options that both hold what a
body says agree in all it names.

`OptionsAreOwn` has no such exceptions. `SentInv` follows a body from its request to flash and to
RAM: it was sent for a device that has its key, and what is in force is the default or comes, option
by option, from a body sent for the device. A restart keeps this because the address read
back from a key is the address of the only device with that key, unless another one's was cut to it.

### 6.10 JSON strings (`ReplyProofs`)

For every alphabet within 1..255, every length of a source and every size of a field and of a
destination:

| Theorem | States |
|---|---|
| `SeqLenIsUtf8` | `utf8_seq_len` accepts exactly the bytes that are a character by the definition of UTF-8 (`IsChar`: the shortest form of a code point that is no surrogate and at most U+10FFFF) |
| `TextTyping` | `TextSpec => []TextTypeOK`: nothing is written past a destination |
| `CutSpoilsOneCharacter` | `TextSpec => []OneCharacterCut`: of a name that is text, what is stored is a start of it, the whole when it fits, and all but three bytes of it at most are text: the cut costs one character |
| `GroupRowIsText` | `TextSpec => []RowIsText`: a group row is sent whole or is empty, is empty only when it does not fit, and is then valid UTF-8 without control bytes between two quotes |
| `DeviceFieldIsText` | `TextSpec => []FieldIsText`: of a name that is text the row field shows text, at every point of the loop |

`SeqLenIsUtf8` is arithmetic: the table of second bytes in the code is what "shortest form", "no
surrogate" and "at most U+10FFFF" come to, byte range by byte range. The rest turns on
`CharAt(s, i, j)`, a character of j bytes behind the first i of s, and `Whole(s, n)`, every one
of the first n bytes is in a character that ends among them. Characters do not overlap (a
continuation byte leads none), so a whole start of s grows by exactly one character at a time. The last
character that ends within a field is then at most three bytes before its end
(`CutLeavesThree`). `json_escape` cuts by continuation bytes and not by
`utf8_seq_len`; in a source that is text both cut at the same places. That a piece ends at all is
the one induction, done by the least element of a set of indices (`WellFoundedInduction`'s
`WFMin`), which takes no operator. `GroupInv` says of the bytes written so far that they are text
as long as `ok_` holds.

### 6.11 Only model-checked

* Of `NameShownWhole`, `CutNameShown` and `RowOrNothing`, that the text *reads* as the source:
  `TextOf` and `Parsed`, which decode UTF-8 and a JSON string, are recursive functions, and what
  they give for every text needs induction over them. The bytes of a log body likewise.
* Liveness (`RequestIsAnswered`, `WalkEnds`, `PageCatchesUp`, `EventsDrain`, `Reconnects`):
  fairness and `ENABLED` are outside what the prover's back ends decide.

Every other invariant and action property of a passing run is stated by a theorem.

## 7. Plan

Next modelling, if the components it depends on are read along: `settings.set` with its
handovers to the time, MQTT and Home Assistant components, group.cmd over `device_cmd`, and the
WebSocket log sink.

## 8. Not modelled

* What the init functions of the boot do, and a failing one: outside `src/`. Between the
  registration of the REST routes and `ws_bridge_install`, rule changes by REST reach no
  page; no page has been served yet (rule commands start at stage "ws" in the model).
* Discovery texts and availability topics: `ha_bridge`, outside `src/`.
* `device.get` is asked of live devices only. A failed allocation in `cmd_group_list` or
  `cmd_rule_list` is answered with an error: in `GroupsPush` the page would then keep what it has,
  as after a cut frame.
* `utf8_safe_copy` (`json_buf.h:54`): nothing in `src/` calls it.
* That the station keeps its association and loses its address: `wifi.cpp` has no handler for
  `IP_EVENT_STA_LOST_IP`, and the model has the two as one state.
* What the log lines and metrics that come back say: they are one topic, "other", on which a rule
  may act.
* group.cmd: a loop over `device_cmd` that counts failures (`api_groups.cpp:119`).
* Of the settings, the time zone and the log sinks; broker, Home Assistant and time server
  settings are kept by components outside `src/`. `system.storage_reset` and the Zigbee
  settings end in a restart of an erased or reconfigured hub.
* A token is copied in one step; that a reader may see it half copied (it then
  refuses the caller) is left out.
* Scan, access-point configuration, status, diagnostics, metrics, web files: read-only or
  pure I/O, no state of their own.
* Device commands and relay configuration: one call into a component outside `src/`.
* The WebSocket log sink and the recursion of a log line caused by publishing a log line:
  depends on whether `ws_server` and `mqtt_gw` log, which is outside `src/`.
* The HAP shim and the build scripts: stubs and tooling.
* What external components do inside: rule parsing, Lua, Zigbee, MQTT, sockets.
