-------------------------------- MODULE Wifi --------------------------------
(***************************************************************************)
(* wifi.cpp and the handlers that change its credentials (api_wifi.cpp,    *)
(* wifi.connect / wifi.disconnect of ws_bridge.cpp).  The stored SSID and  *)
(* password are two NVS keys written one after the other; a boot hands     *)
(* them to the driver, or starts the access point alone.  The driver       *)
(* reports through the event task, which runs on_wifi_event for one event  *)
(* at a time and sleeps 5 s in it before it connects again.                *)
(*                                                                         *)
(* The driver, the router, NVS and esp_restart are external.               *)
(***************************************************************************)
EXTENDS Naturals, Sequences

CONSTANTS Tasks,          \* httpd, and the relay task
          Nets,           \* networks a user may ask for: an SSID with its password
          Home,           \* the one whose router is there
          FullSsid, FullPwd,   \* those with an SSID of 32 characters, with a
                          \* password of 64
          HugeSsid, HugePwd,   \* those with a longer one
          None,           \* key erased, no credentials, an empty password
          Unknown,        \* no request was answered since something failed
          MaxRequests, MaxOutages, MaxFaults, MaxCrashes,
          ConnectMayFail  \* whether esp_wifi_connect may refuse

ASSUME WifiAssumption ==
  /\ Home \in Nets /\ None \notin Nets /\ Unknown \notin Nets \cup {None}
  /\ FullSsid \cup HugeSsid \cup FullPwd \cup HugePwd \subseteq Nets
  /\ FullSsid \cap HugeSsid = {} /\ FullPwd \cap HugePwd = {}
  /\ {MaxRequests, MaxOutages, MaxFaults, MaxCrashes} \subseteq Nat
  /\ ConnectMayFail \in BOOLEAN

VARIABLES ssid, pwd,      \* NVS namespace "wifi"
          sta,            \* <<ssid, password>> the driver runs with; None: AP only
          link,           \* the station: "idle", "connecting", "up" (has an address)
          events,         \* posted to the event task, not yet handled
          delay,          \* on_wifi_event is in its 5 s sleep
          connected,      \* s_sta_connected
          router,         \* the router of Home is up
          pc, net,        \* each task: its step, the network asked for
          status,         \* "ok" or "failed" so far, or "answered" already
          goal,           \* observer: what the last answered request asked for
          clean,          \* observer: no two requests overlapped and no error in
                          \* clearing the credentials was passed over
          refused,        \* observer: esp_wifi_connect refused since the boot
          misread,        \* observer: the boot could not read what NVS holds
          requests, outages, faults, crashes

flash == <<ssid, pwd>>
station == <<sta, link, events, delay, connected, refused, misread>>
request == <<pc, net, status, goal, clean>>
bounds == <<requests, outages, faults, crashes>>
vars == <<flash, station, router, request, bounds>>

Stages == {"idle", "open", "ssid", "pwd", "reply", "eraseSsid", "erasePwd", "restart"}

-----------------------------------------------------------------------------
\* All but the last character of a network's SSID or password.
Cut(n) == <<"cut", n>>

\* snprintf into a field of 32 or 64 bytes, the NUL included.
InField(n, full) == IF n \in full THEN Cut(n) ELSE n

\* load_creds, then wifi_start: no SSID, or one that its 33 bytes do not hold,
\* means no station; a missing or too long password is an empty one.
Creds(s, p) ==
  IF s \in HugeSsid \cup {None} THEN None
  ELSE <<InField(s, FullSsid), IF p \in HugePwd THEN None ELSE InField(p, FullPwd)>>

MayFail == faults < MaxFaults /\ faults' = faults + 1

\* A restart: wifi_start with the stored credentials.  A key that cannot be read
\* counts as missing.  STA_START follows.
Booted ==
  /\ \E s \in {ssid', None}, p \in {pwd', None} :
       /\ sta' = Creds(s, p) /\ misread' = (<<s, p>> # <<ssid', pwd'>>)
       /\ IF misread' THEN MayFail ELSE UNCHANGED faults
  /\ link' = "idle"
  /\ events' = IF sta' = None THEN <<>> ELSE <<"start">>
  /\ delay' = FALSE /\ connected' = FALSE /\ refused' = FALSE
  /\ pc' = [t \in Tasks |-> "idle"]
  /\ net' = [t \in Tasks |-> None]
  /\ status' = [t \in Tasks |-> "ok"]

Init ==
  /\ \E n \in Nets \cup {None} : ssid = n /\ pwd = n /\ goal = n
  /\ sta = Creds(ssid, pwd) /\ link = "idle"
  /\ events = IF sta = None THEN <<>> ELSE <<"start">>
  /\ delay = FALSE /\ connected = FALSE /\ refused = FALSE /\ misread = FALSE
  /\ router = TRUE
  /\ clean = TRUE
  /\ pc = [t \in Tasks |-> "idle"] /\ net = [t \in Tasks |-> None]
  /\ status = [t \in Tasks |-> "ok"]
  /\ requests = 0 /\ outages = 0 /\ faults = 0 /\ crashes = 0

-----------------------------------------------------------------------------
(* The event task. *)

\* esp_wifi_connect: its result is not looked at.
Connect ==
  \/ link' = "connecting" /\ UNCHANGED refused
  \/ ConnectMayFail /\ refused' = TRUE /\ UNCHANGED link

Handle(e) == events # <<>> /\ Head(events) = e /\ ~delay /\ events' = Tail(events)

OnStart ==
  /\ Handle("start") /\ Connect
  /\ UNCHANGED <<flash, sta, delay, connected, misread, router, request, bounds>>

\* Mutant: the flag is left as it is.
StaysUp == connected
FlagOnLoss == FALSE

\* Mutant: nobody connects again after a loss.
GivesUp == FALSE
SleepsThenRetries == TRUE

\* STA_DISCONNECTED: the flag falls, then the task sleeps.
OnDisconnected ==
  /\ Handle("disconnected") /\ delay' = SleepsThenRetries /\ connected' = FlagOnLoss
  /\ UNCHANGED <<flash, sta, link, refused, misread, router, request, bounds>>

\* The 5 s are over.
Retry ==
  /\ delay /\ delay' = FALSE /\ Connect
  /\ UNCHANGED <<flash, sta, events, connected, misread, router, request, bounds>>

OnGotIp ==
  /\ Handle("gotIp") /\ connected' = TRUE
  /\ UNCHANGED <<flash, sta, link, delay, refused, misread, router, request, bounds>>

-----------------------------------------------------------------------------
(* The driver and the world. *)

Reachable == router /\ sta = <<Home, Home>>

Associate ==
  /\ link = "connecting" /\ Reachable
  /\ link' = "up" /\ events' = Append(events, "gotIp")
  /\ UNCHANGED <<flash, sta, delay, connected, refused, misread, router, request, bounds>>

\* A connection attempt fails, or the link is lost: one event either way.
Drop ==
  /\ link \in {"connecting", "up"} /\ ~Reachable
  /\ link' = "idle" /\ events' = Append(events, "disconnected")
  /\ UNCHANGED <<flash, sta, delay, connected, refused, misread, router, request, bounds>>

Outage ==
  /\ outages < MaxOutages /\ router' = ~router
  /\ outages' = IF router THEN outages ELSE outages + 1
  /\ UNCHANGED <<flash, station, request, requests, faults, crashes>>

-----------------------------------------------------------------------------
(* The request handlers. *)

Goto(t, stage) == pc' = [pc EXCEPT ![t] = stage]
Finish(t) == IF status[t] = "answered" THEN "restart" ELSE "reply"
Fail(t) == status' = [status EXCEPT ![t] = IF @ = "ok" THEN "failed" ELSE @]

\* wifi.connect with a network, or with None for an empty SSID.
AskConnect(t) ==
  /\ \E n \in Nets \cup {None} : net' = [net EXCEPT ![t] = n]
  /\ status' = [status EXCEPT ![t] = "ok"]
  /\ UNCHANGED goal

\* wifi.disconnect answers before it clears anything.
AskDisconnect(t) ==
  /\ net' = [net EXCEPT ![t] = None]
  /\ status' = [status EXCEPT ![t] = "answered"]
  /\ goal' = None

Request(t) ==
  /\ pc[t] = "idle" /\ requests < MaxRequests
  /\ requests' = requests + 1
  /\ Goto(t, "open")
  /\ AskConnect(t) \/ AskDisconnect(t)
  /\ clean' = (clean /\ \A u \in Tasks : pc[u] = "idle")
  /\ UNCHANGED <<flash, station, router, outages, faults, crashes>>

\* nvs_open in wifi_save_sta; wifi_forget_and_reboot ignores its result.
OpenNvs(t) ==
  /\ pc[t] = "open"
  /\ \/ /\ Goto(t, IF net[t] = None THEN "eraseSsid" ELSE "ssid")
        /\ UNCHANGED <<status, clean, faults>>
     \/ /\ MayFail /\ Fail(t) /\ Goto(t, Finish(t))
        /\ clean' = (clean /\ status[t] # "answered")
  /\ UNCHANGED <<flash, station, router, net, goal, requests, outages, crashes>>

\* nvs_set_str "ssid": on an error the password is written all the same.
SetSsid(t) ==
  /\ pc[t] = "ssid" /\ Goto(t, "pwd")
  /\ \/ ssid' = net[t] /\ UNCHANGED <<status, faults>>
     \/ MayFail /\ Fail(t) /\ UNCHANGED ssid
  /\ UNCHANGED <<pwd, station, router, net, goal, clean, requests, outages, crashes>>

SetPwd(t) ==
  /\ pc[t] = "pwd" /\ Goto(t, "reply")
  /\ \/ pwd' = net[t] /\ UNCHANGED <<status, faults>>
     \/ MayFail /\ Fail(t) /\ UNCHANGED pwd
  /\ UNCHANGED <<ssid, station, router, net, goal, clean, requests, outages, crashes>>

\* Mutant: clearing leaves the SSID.
SsidKept == ssid
SsidErased == None

\* nvs_erase_key "ssid", "pwd": errors are ignored.
EraseSsid(t) ==
  /\ pc[t] = "eraseSsid" /\ Goto(t, "erasePwd")
  /\ \/ ssid' = SsidErased /\ UNCHANGED <<faults, clean>>
     \/ MayFail /\ clean' = FALSE /\ UNCHANGED ssid
  /\ UNCHANGED <<pwd, station, router, net, status, goal, requests, outages, crashes>>

ErasePwd(t) ==
  /\ pc[t] = "erasePwd" /\ Goto(t, Finish(t))
  /\ \/ pwd' = None /\ UNCHANGED <<faults, clean>>
     \/ MayFail /\ clean' = FALSE /\ UNCHANGED pwd
  /\ UNCHANGED <<ssid, station, router, net, status, goal, requests, outages, crashes>>

\* "nvs write failed", or the answer that announces the restart.
Reply(t) ==
  /\ pc[t] = "reply"
  /\ IF status[t] = "ok" THEN Goto(t, "restart") /\ goal' = net[t]
              ELSE Goto(t, "idle") /\ goal' = Unknown
  /\ UNCHANGED <<flash, station, router, net, status, clean, bounds>>

\* vTaskDelay, esp_restart: whatever other tasks are doing is cut off.
Restart(t) ==
  /\ pc[t] = "restart" /\ UNCHANGED flash /\ Booted
  /\ goal' = IF \E u \in Tasks \ {t} : pc[u] \notin {"idle", "restart"} THEN Unknown ELSE goal
  /\ UNCHANGED <<router, clean, requests, outages, crashes>>

Crash ==
  /\ crashes < MaxCrashes /\ crashes' = crashes + 1
  /\ UNCHANGED flash /\ Booted
  /\ goal' = IF \E u \in Tasks : pc[u] \notin {"idle", "restart"} THEN Unknown ELSE goal
  /\ UNCHANGED <<router, clean, requests, outages>>

EventTask == OnStart \/ OnDisconnected \/ Retry \/ OnGotIp
Driver == Associate \/ Drop

Next ==
  \/ OnStart \/ OnDisconnected \/ Retry \/ OnGotIp
  \/ Associate \/ Drop \/ Outage \/ Crash
  \/ \E t \in Tasks : \/ Request(t) \/ OpenNvs(t) \/ SetSsid(t) \/ SetPwd(t)
                      \/ EraseSsid(t) \/ ErasePwd(t) \/ Reply(t) \/ Restart(t)

Spec == Init /\ [][Next]_vars

\* The event task and the driver run; the router may stay away for good.
FairSpec == Spec /\ WF_vars(EventTask) /\ WF_vars(Driver)

-----------------------------------------------------------------------------
\* With every event handled, s_sta_connected says whether the station has an
\* address: wifi.status never shows an old address for longer than the event
\* task needs (wifi.cpp:161-178).
FlagFollowsLink == events = <<>> => (connected <=> link = "up")

Quiet == \A t \in Tasks : pc[t] = "idle"

\* The driver runs with what the last answered request asked for, never with
\* parts of two networks or with one that was cleared: a restart follows every
\* change (wifi.h:13-14), and "Clear stored STA credentials and reboot (factory
\* wifi reset -> AP-only)" (wifi.h:37) leaves the AP alone, if the erasing worked
\* and no two requests overlapped.  An SSID or a password that fills its field
\* loses its last character (wifi.cpp:111-114), one that is longer or cannot be
\* read is left out (wifi.cpp:69-74); nothing takes its place.
AnsweredIsUsed ==
  Quiet /\ clean /\ goal # Unknown =>
    /\ goal = None => sta = None
    /\ goal # None /\ sta # None => /\ sta[1] \in {goal, Cut(goal)}
                                    /\ sta[2] \in {goal, Cut(goal), None}
    /\ goal \in Nets \ (FullSsid \cup HugeSsid \cup FullPwd \cup HugePwd) /\ ~misread =>
         sta = <<goal, goal>>

\* "a router reboot or short outage recovers on its own" (wifi.cpp:14-16): when
\* the router is back for good, the station gets its address for good, unless
\* another network is in use or esp_wifi_connect refused since the boot.
Reconnects == <>[](Reachable /\ ~refused) => <>[](connected /\ link = "up")
=============================================================================
