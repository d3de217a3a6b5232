----------------------------- MODULE WifiProofs -----------------------------
(***************************************************************************)
(* What Wifi promises about the connected flag and about the credentials   *)
(* in use, for any tasks, any networks and any number of requests, errors, *)
(* outages and crashes.                                                    *)
(***************************************************************************)
EXTENDS Wifi, SequenceTheorems, TLAPS

(***************************************************************************)
(* The inductive invariant                                                 *)
(***************************************************************************)

TypeInv ==
  /\ link \in {"idle", "connecting", "up"}
  /\ delay \in BOOLEAN /\ connected \in BOOLEAN /\ clean \in BOOLEAN
  /\ pc \in [Tasks -> Stages]
  /\ net \in [Tasks -> Nets \cup {None}]
  /\ status \in [Tasks -> {"ok", "failed", "answered"}]

\* An address, and lost again before the event task saw it.
GotAndLost == Append(<<"gotIp">>, "disconnected")

\* The events not yet handled are those since the flag was right, and no attempt is
\* made while the loss of the last link waits to be handled or slept over.
LinkInv ==
  /\ delay => link = "idle" /\ events = <<>>
  /\ link = "idle" =>
       \/ events = <<>> /\ ~connected
       \/ events \in {<<"start">>, GotAndLost} /\ ~connected
       \/ events = <<"disconnected">>
  /\ link = "connecting" => events = <<>> /\ ~connected
  /\ link = "up" =>
       \/ events = <<"gotIp">> /\ ~connected
       \/ events = <<>> /\ connected

\* NVS holds these credentials.
Holds(n) == ssid = n /\ (n # None => pwd = n)

\* The driver runs with them, or with what of them the last boot could read.
Uses(n) ==
  /\ \E s, p \in {n, None} : sta = Creds(s, p)
  /\ ~misread => sta = Creds(n, n)

\* What a task has stored of the network asked for, at each of its steps.
Progress(t) ==
  /\ pc[t] = "open" => status[t] # "failed"
  /\ pc[t] \in {"ssid", "pwd"} => net[t] # None
  /\ pc[t] = "pwd" /\ status[t] = "ok" => ssid = net[t]
  /\ pc[t] \in {"eraseSsid", "erasePwd"} => net[t] = None
  /\ pc[t] = "erasePwd" => ssid = None
  /\ pc[t] = "reply" /\ status[t] = "ok" => Holds(net[t])
  /\ pc[t] = "restart" => Holds(goal) /\ goal # Unknown
  /\ pc[t] # "idle" /\ status[t] = "answered" => net[t] = None /\ goal = None

\* One request at a time, and between two of them NVS and the driver have what the
\* last one asked for.
CredsInv ==
  clean =>
    /\ \A t, u \in Tasks : pc[t] # "idle" /\ pc[u] # "idle" => t = u
    /\ \A t \in Tasks : Progress(t)
    /\ Quiet /\ goal # Unknown => Holds(goal) /\ Uses(goal)

IInv == TypeInv /\ LinkInv /\ CredsInv

(***************************************************************************)
(* Boots                                                                   *)
(***************************************************************************)

LEMMA IInit == Init => IInv
<1> SUFFICES ASSUME Init PROVE IInv
  OBVIOUS
<1>1. TypeInv
  BY DEF Init, TypeInv, Stages
<1>2. LinkInv
  BY DEF Init, LinkInv
<1>3. PICK n \in Nets \cup {None} : ssid = n /\ pwd = n /\ goal = n
  BY DEF Init
<1>4. Holds(goal) /\ Uses(goal)
  BY <1>3 DEF Init, Holds, Uses
<1>5. \A t \in Tasks : pc[t] = "idle"
  BY DEF Init
<1>6. CredsInv
  BY <1>4, <1>5 DEF CredsInv, Progress
<1>7. QED BY <1>1, <1>2, <1>6 DEF IInv

\* After a boot no request is under way, and the driver has what NVS holds.
LEMMA BootStep ==
  ASSUME IInv, Booted, UNCHANGED <<flash, clean>>,
         clean /\ goal' # Unknown => goal' = goal /\ Holds(goal)
  PROVE  IInv'
<1>1. TypeInv'
  BY DEF IInv, TypeInv, Booted, Stages
<1>2. LinkInv'
  BY DEF LinkInv, Booted
<1>3. \A t \in Tasks : pc'[t] = "idle"
  BY DEF Booted
<1>4. PICK s \in {ssid, None}, p \in {pwd, None} :
        sta' = Creds(s, p) /\ (~misread' => s = ssid /\ p = pwd)
  BY DEF Booted, flash
<1>5. ssid' = ssid /\ pwd' = pwd /\ clean' = clean
  BY DEF flash
<1>6. CredsInv'
  <2>1. ASSUME clean, goal' # Unknown
        PROVE  Holds(goal)' /\ Uses(goal)'
    <3>1. goal' = goal /\ ssid = goal /\ (goal # None => pwd = goal)
      BY <2>1 DEF Holds
    <3>2. Holds(goal)'
      BY <1>5, <3>1 DEF Holds
    <3>3. CASE goal = None
      <4>1. sta' = None /\ Creds(goal, goal) = None
        BY <1>4, <3>1, <3>3 DEF Creds
      <4>2. QED BY <3>1, <3>2, <3>3, <4>1 DEF Uses
    <3>4. CASE goal # None
      BY <1>4, <3>1, <3>2, <3>4 DEF Uses
    <3>5. QED BY <3>3, <3>4
  <2>2. QED BY <1>3, <1>5, <2>1 DEF CredsInv, Progress
<1>7. QED BY <1>1, <1>2, <1>6 DEF IInv

LEMMA RestartStep ==
  ASSUME IInv, NEW t \in Tasks, Restart(t)
  PROVE  IInv'
<1>1. clean => Holds(goal)
  BY DEF Restart, IInv, CredsInv, Progress
<1>2. QED BY <1>1, BootStep DEF Restart

LEMMA CrashStep ==
  ASSUME IInv, Crash
  PROVE  IInv'
<1>1. ASSUME clean, goal' # Unknown
      PROVE  goal' = goal /\ Holds(goal)
  <2>1. goal' = goal /\ \A u \in Tasks : pc[u] \in {"idle", "restart"}
    BY <1>1 DEF Crash
  <2>2. CASE Quiet
    BY <1>1, <2>1, <2>2 DEF IInv, CredsInv
  <2>3. CASE ~Quiet
    <3>1. PICK u \in Tasks : pc[u] = "restart"
      BY <2>1, <2>3 DEF Quiet
    <3>2. QED BY <1>1, <2>1, <3>1 DEF IInv, CredsInv, Progress
  <2>4. QED BY <2>2, <2>3
<1>2. QED BY <1>1, BootStep DEF Crash

(***************************************************************************)
(* The event task, the driver and the router                               *)
(***************************************************************************)

\* They leave the credentials and the requests alone.
LEMMA CredsLeft ==
  ASSUME CredsInv, UNCHANGED <<flash, sta, misread, request>>
  PROVE  CredsInv'
BY DEF CredsInv, Progress, Holds, Uses, Quiet, flash, request

\* The queue at an event, and after it.
LEMMA Queues ==
  /\ Head(<<"start">>) = "start" /\ Tail(<<"start">>) = <<>>
  /\ Head(<<"gotIp">>) = "gotIp" /\ Tail(<<"gotIp">>) = <<>>
  /\ Head(<<"disconnected">>) = "disconnected" /\ Tail(<<"disconnected">>) = <<>>
  /\ Head(GotAndLost) = "gotIp" /\ Tail(GotAndLost) = <<"disconnected">>
  /\ Append(<<>>, "gotIp") = <<"gotIp">> /\ Append(<<>>, "disconnected") = <<"disconnected">>
  /\ <<"gotIp">> # <<>> /\ <<"disconnected">> # <<>> /\ <<"start">> # <<>> /\ GotAndLost # <<>>
<1>1. Head(<<"start">>) = "start" /\ Tail(<<"start">>) = <<>> /\ <<"start">> # <<>>
  OBVIOUS
<1>2. Head(<<"gotIp">>) = "gotIp" /\ Tail(<<"gotIp">>) = <<>> /\ <<"gotIp">> # <<>>
  OBVIOUS
<1>3. /\ Head(<<"disconnected">>) = "disconnected" /\ Tail(<<"disconnected">>) = <<>>
      /\ <<"disconnected">> # <<>>
  OBVIOUS
<1>4. Append(<<>>, "gotIp") = <<"gotIp">>
  OBVIOUS
<1>5. Append(<<>>, "disconnected") = <<"disconnected">>
  OBVIOUS
<1>6. Head(GotAndLost) = "gotIp" /\ Tail(GotAndLost) = <<"disconnected">> /\ GotAndLost # <<>>
  <2> DEFINE S == {"gotIp", "disconnected"}
  <2>1. <<"gotIp">> \in Seq(S) /\ "disconnected" \in S
    OBVIOUS
  <2> HIDE DEF S
  <2>2. /\ Head(GotAndLost) = Head(<<"gotIp">>)
        /\ Tail(GotAndLost) = Append(Tail(<<"gotIp">>), "disconnected")
    BY <1>2, <2>1, HeadTailAppend DEF GotAndLost
  <2>3. GotAndLost # <<>>
    BY <2>1, AppendProperties DEF GotAndLost
  <2>4. QED BY <1>2, <1>5, <2>2, <2>3
<1>7. QED BY <1>1, <1>2, <1>3, <1>4, <1>5, <1>6

LEMMA EventStep ==
  ASSUME IInv, EventTask
  PROVE  IInv'
<1> USE DEF IInv
<1>1. CASE OnStart
  <2>1. link = "idle" /\ events = <<"start">> /\ ~connected
    BY <1>1, Queues DEF OnStart, Handle, LinkInv, TypeInv
  <2>2. events' = <<>> /\ UNCHANGED <<delay, connected>> /\ ~delay
        /\ link' \in {"idle", "connecting"}
    BY <1>1, <2>1, Queues DEF OnStart, Handle, Connect
  <2>3. LinkInv'
    BY <2>1, <2>2 DEF LinkInv
  <2>4. TypeInv'
    BY <1>1, <2>2 DEF OnStart, TypeInv, request
  <2>5. QED BY <1>1, <2>3, <2>4, CredsLeft DEF OnStart
<1>2. CASE OnDisconnected
  <2>1. link = "idle" /\ events = <<"disconnected">>
    BY <1>2, Queues DEF OnDisconnected, Handle, LinkInv, TypeInv
  <2>2. events' = <<>> /\ delay' = TRUE /\ connected' = FALSE /\ link' = link
    BY <1>2, <2>1, Queues DEF OnDisconnected, Handle, SleepsThenRetries, FlagOnLoss
  <2>3. LinkInv'
    BY <2>1, <2>2 DEF LinkInv
  <2>4. TypeInv'
    BY <1>2, <2>2 DEF OnDisconnected, TypeInv, request
  <2>5. QED BY <1>2, <2>3, <2>4, CredsLeft DEF OnDisconnected
<1>3. CASE Retry
  <2>1. link = "idle" /\ events = <<>> /\ ~connected
    BY <1>3, Queues DEF Retry, LinkInv
  <2>2. /\ events' = events /\ delay' = FALSE /\ connected' = connected
        /\ link' \in {"idle", "connecting"}
    BY <1>3, <2>1 DEF Retry, Connect
  <2>3. LinkInv'
    BY <2>1, <2>2 DEF LinkInv
  <2>4. TypeInv'
    BY <1>3, <2>2 DEF Retry, TypeInv, request
  <2>5. QED BY <1>3, <2>3, <2>4, CredsLeft DEF Retry
<1>4. CASE OnGotIp
  <2>1. /\ ~connected
        /\ \/ link = "idle" /\ events = GotAndLost
           \/ link = "up" /\ events = <<"gotIp">>
    BY <1>4, Queues DEF OnGotIp, Handle, LinkInv, TypeInv
  <2>2. events' = Tail(events) /\ connected' = TRUE /\ UNCHANGED <<link, delay>> /\ ~delay
    BY <1>4 DEF OnGotIp, Handle
  <2>3. LinkInv'
    BY <2>1, <2>2, Queues DEF LinkInv
  <2>4. TypeInv'
    BY <1>4, <2>2 DEF OnGotIp, TypeInv, request
  <2>5. QED BY <1>4, <2>3, <2>4, CredsLeft DEF OnGotIp
<1>5. QED BY <1>1, <1>2, <1>3, <1>4 DEF EventTask

LEMMA DriverStep ==
  ASSUME IInv, Driver \/ Outage
  PROVE  IInv'
<1> USE DEF IInv
<1>1. CASE Associate
  <2>1. events = <<>> /\ ~connected /\ ~delay
    BY <1>1 DEF Associate, LinkInv
  <2>2. link' = "up" /\ events' = <<"gotIp">> /\ UNCHANGED <<delay, connected>>
    BY <1>1, <2>1, Queues DEF Associate
  <2>3. LinkInv'
    BY <2>1, <2>2 DEF LinkInv
  <2>4. TypeInv'
    BY <1>1, <2>2 DEF Associate, TypeInv, request
  <2>5. QED BY <1>1, <2>3, <2>4, CredsLeft DEF Associate
<1>2. CASE Drop
  <2>1. /\ ~delay
        /\ \/ events = <<>>
           \/ events = <<"gotIp">> /\ ~connected
    BY <1>2 DEF Drop, LinkInv, TypeInv
  <2>2. /\ link' = "idle" /\ events' = Append(events, "disconnected")
        /\ UNCHANGED <<delay, connected>>
    BY <1>2 DEF Drop
  <2>3. LinkInv'
    <3>1. events' = <<"disconnected">> \/ (events' = GotAndLost /\ ~connected)
      BY <2>1, <2>2, Queues DEF GotAndLost
    <3>2. QED BY <2>1, <2>2, <3>1 DEF LinkInv
  <2>4. TypeInv'
    BY <1>2, <2>2 DEF Drop, TypeInv, request
  <2>5. QED BY <1>2, <2>3, <2>4, CredsLeft DEF Drop
<1>3. CASE Outage
  <2>1. UNCHANGED <<flash, station, request>>
    BY <1>3 DEF Outage
  <2>2. LinkInv' /\ TypeInv'
    BY <2>1 DEF LinkInv, TypeInv, station, request
  <2>3. UNCHANGED <<sta, misread>>
    BY <2>1 DEF station
  <2>4. QED BY <2>1, <2>2, <2>3, CredsLeft
<1>4. QED BY <1>1, <1>2, <1>3 DEF Driver

(***************************************************************************)
(* The requests                                                            *)
(***************************************************************************)

\* They leave the station alone,
LEMMA LinkLeft ==
  ASSUME LinkInv, UNCHANGED station
  PROVE  LinkInv'
BY DEF LinkInv, station

\* and the requests of other tasks, of which there are none while all is clean.
LEMMA Alone ==
  ASSUME IInv, clean, NEW t \in Tasks, pc[t] # "idle",
         \A u \in Tasks \ {t} : pc'[u] = pc[u],
         Progress(t)',
         pc'[t] = "idle" /\ goal' # Unknown => Holds(goal)' /\ Uses(goal)'
  PROVE  CredsInv'
<1>1. \A u \in Tasks \ {t} : pc'[u] = "idle"
  BY DEF IInv, CredsInv
<1>2. \A u \in Tasks \ {t} : Progress(u)'
  BY <1>1 DEF Progress
<1>3. \A u \in Tasks : Progress(u)'
  BY <1>2
<1>4. \A u, v \in Tasks : pc'[u] # "idle" /\ pc'[v] # "idle" => u = v
  BY <1>1
<1>5. QED BY <1>3, <1>4 DEF CredsInv, Quiet

LEMMA RequestStep ==
  ASSUME IInv, NEW t \in Tasks, Request(t)
  PROVE  IInv'
<1> USE DEF IInv
<1>1. /\ pc[t] = "idle" /\ pc' = [pc EXCEPT ![t] = "open"]
      /\ clean' = (clean /\ \A u \in Tasks : pc[u] = "idle")
      /\ UNCHANGED <<flash, station>>
      /\ AskConnect(t) \/ AskDisconnect(t)
  BY DEF Request, Goto
<1>2. /\ net' \in [Tasks -> Nets \cup {None}]
      /\ status' \in [Tasks -> {"ok", "failed", "answered"}]
      /\ status'[t] = "ok" \/ (status'[t] = "answered" /\ net'[t] = None /\ goal' = None)
  <2>1. CASE AskConnect(t)
    BY <2>1 DEF AskConnect, TypeInv
  <2>2. CASE AskDisconnect(t)
    BY <2>2 DEF AskDisconnect, TypeInv
  <2>3. QED BY <1>1, <2>1, <2>2
<1>3. TypeInv'
  BY <1>1, <1>2 DEF TypeInv, station, Stages
<1>4. LinkInv'
  BY <1>1, LinkLeft
<1>5. ASSUME clean'
      PROVE  /\ \A u \in Tasks \ {t} : pc'[u] = "idle"
             /\ pc'[t] = "open"
  BY <1>1, <1>5 DEF TypeInv
<1>6. ASSUME clean'
      PROVE  \A u \in Tasks : Progress(u)'
  <2>1. \A u \in Tasks \ {t} : Progress(u)'
    BY <1>5, <1>6 DEF Progress
  <2>2. Progress(t)'
    BY <1>2, <1>5, <1>6 DEF Progress
  <2>3. QED BY <2>1, <2>2
<1>7. CredsInv'
  BY <1>5, <1>6 DEF CredsInv, Quiet
<1>8. QED BY <1>3, <1>4, <1>7

\* A handler writes, or fails and notes it.
LEMMA FailTypes ==
  ASSUME TypeInv, NEW t \in Tasks, Fail(t)
  PROVE  /\ status' \in [Tasks -> {"ok", "failed", "answered"}]
         /\ status'[t] # "ok" /\ (status'[t] = "answered" => status[t] = "answered")
         /\ status[t] = "answered" => status'[t] = "answered"
BY DEF TypeInv, Fail

LEMMA OpenStep ==
  ASSUME IInv, NEW t \in Tasks, OpenNvs(t)
  PROVE  IInv'
<1> USE DEF IInv
<1>1. /\ pc[t] = "open" /\ UNCHANGED <<flash, station, net, goal>>
      /\ \/ /\ pc' = [pc EXCEPT ![t] = IF net[t] = None THEN "eraseSsid" ELSE "ssid"]
            /\ UNCHANGED <<status, clean>>
         \/ /\ Fail(t) /\ pc' = [pc EXCEPT ![t] = Finish(t)]
            /\ clean' = (clean /\ status[t] # "answered")
  BY DEF OpenNvs, Goto
<1>2. /\ \A u \in Tasks \ {t} : pc'[u] = pc[u]
      /\ pc'[t] \in {"eraseSsid", "ssid", "restart", "reply"}
      /\ pc' \in [Tasks -> Stages]
      /\ status' \in [Tasks -> {"ok", "failed", "answered"}]
      /\ clean' \in BOOLEAN /\ (clean' => clean)
  <2>1. clean' \in BOOLEAN /\ (clean' => clean)
    <3>1. clean' = clean \/ clean' = FALSE
      BY <1>1
    <3>2. clean \in BOOLEAN
      BY DEF TypeInv
    <3>3. CASE clean' = clean
      BY <3>2, <3>3
    <3>4. CASE clean' = FALSE
      BY <3>4
    <3>5. QED BY <3>1, <3>3, <3>4
  <2>2. status' \in [Tasks -> {"ok", "failed", "answered"}]
    BY <1>1, FailTypes DEF TypeInv
  <2>3. PICK to \in {"eraseSsid", "ssid", "restart", "reply"} : pc' = [pc EXCEPT ![t] = to]
    BY <1>1 DEF Finish
  <2>4. to \in Stages
    BY DEF Stages
  <2>5. QED BY <2>1, <2>2, <2>3, <2>4 DEF TypeInv
<1>3. TypeInv'
  BY <1>1, <1>2 DEF TypeInv, station
<1>4. LinkInv'
  BY <1>1, LinkLeft
<1>5. ASSUME clean'
      PROVE  Progress(t)'
  <2>1. net'[t] = net[t] /\ ssid' = ssid /\ pwd' = pwd /\ goal' = goal
    BY <1>1 DEF flash
  <2>2. Progress(t) /\ status[t] # "failed"
    BY <1>1, <1>2, <1>5 DEF CredsInv, Progress
  <2>3. CASE UNCHANGED status /\ pc'[t] = IF net[t] = None THEN "eraseSsid" ELSE "ssid"
    BY <1>1, <2>1, <2>2, <2>3 DEF Progress
  <2>4. CASE Fail(t) /\ pc'[t] = "reply" /\ status[t] # "answered"
    BY <2>1, <2>4, FailTypes DEF Progress
  <2>5. QED BY <1>1, <1>5, <2>3, <2>4 DEF TypeInv, Finish
<1>6. CredsInv'
  <2>1. CASE clean'
    BY <1>1, <1>2, <1>5, <2>1, Alone
  <2>2. QED BY <2>1 DEF CredsInv
<1>7. QED BY <1>3, <1>4, <1>6

LEMMA WriteStep ==
  ASSUME IInv, NEW t \in Tasks, SetSsid(t) \/ SetPwd(t)
  PROVE  IInv'
<1> USE DEF IInv
<1>1. /\ UNCHANGED <<station, net, goal, clean>>
      /\ \/ pc[t] = "ssid" /\ pc' = [pc EXCEPT ![t] = "pwd"] /\ pwd' = pwd
         \/ pc[t] = "pwd" /\ pc' = [pc EXCEPT ![t] = "reply"] /\ ssid' = ssid
      /\ \/ /\ status' = status
            /\ pc[t] = "ssid" => ssid' = net[t]
            /\ pc[t] = "pwd" => pwd' = net[t]
         \/ Fail(t) /\ ssid' = ssid /\ pwd' = pwd
  BY DEF SetSsid, SetPwd, Goto
<1>2. /\ \A u \in Tasks \ {t} : pc'[u] = pc[u]
      /\ pc'[t] = IF pc[t] = "ssid" THEN "pwd" ELSE "reply"
      /\ pc' \in [Tasks -> Stages]
      /\ status' \in [Tasks -> {"ok", "failed", "answered"}]
  BY <1>1, FailTypes DEF TypeInv, Stages
<1>3. TypeInv'
  BY <1>1, <1>2 DEF TypeInv, station
<1>4. LinkInv'
  BY <1>1, LinkLeft
<1>5. ASSUME clean
      PROVE  Progress(t)'
  <2>1. Progress(t) /\ net'[t] = net[t] /\ net[t] # None
    BY <1>1, <1>5 DEF CredsInv, Progress
  <2>2. CASE Fail(t)
    <3>1. status'[t] # "ok" /\ status'[t] # "answered"
      BY <1>1, <2>1, <2>2, FailTypes DEF Progress
    <3>2. QED BY <1>2, <2>1, <3>1 DEF Progress
  <2>3. CASE status' = status /\ pc[t] = "ssid" /\ ssid' = net[t]
    BY <1>2, <2>1, <2>3 DEF Progress
  <2>4. CASE status' = status /\ pc[t] = "pwd" /\ pwd' = net[t] /\ ssid' = ssid
    BY <1>2, <2>1, <2>4 DEF Progress, Holds
  <2>5. QED BY <1>1, <2>2, <2>3, <2>4
<1>6. CredsInv'
  <2>1. CASE clean
    BY <1>1, <1>2, <1>5, <2>1, Alone
  <2>2. QED BY <1>1, <2>1 DEF CredsInv
<1>7. QED BY <1>3, <1>4, <1>6

LEMMA EraseStep ==
  ASSUME IInv, NEW t \in Tasks, EraseSsid(t) \/ ErasePwd(t)
  PROVE  IInv'
<1> USE DEF IInv
<1>1. /\ UNCHANGED <<station, net, goal, status>>
      /\ clean' \in BOOLEAN /\ (clean' => clean)
      /\ \/ /\ pc[t] = "eraseSsid" /\ pc' = [pc EXCEPT ![t] = "erasePwd"]
            /\ clean' => ssid' = None
         \/ pc[t] = "erasePwd" /\ pc' = [pc EXCEPT ![t] = Finish(t)] /\ ssid' = ssid
  <2>1. clean \in BOOLEAN
    BY DEF TypeInv
  <2>2. CASE EraseSsid(t)
    <3>1. (ssid' = None /\ clean' = clean) \/ clean' = FALSE
      BY <2>2 DEF EraseSsid, SsidErased
    <3>2. clean' \in BOOLEAN /\ (clean' => clean /\ ssid' = None)
      <4>1. CASE ssid' = None /\ clean' = clean
        BY <2>1, <4>1
      <4>2. CASE clean' = FALSE
        BY <4>2
      <4>3. QED BY <3>1, <4>1, <4>2
    <3>3. QED BY <2>2, <3>2 DEF EraseSsid, Goto
  <2>3. CASE ErasePwd(t)
    <3>1. clean' = clean \/ clean' = FALSE
      BY <2>3 DEF ErasePwd
    <3>2. clean' \in BOOLEAN /\ (clean' => clean)
      <4>1. CASE clean' = clean
        BY <2>1, <4>1
      <4>2. CASE clean' = FALSE
        BY <4>2
      <4>3. QED BY <3>1, <4>1, <4>2
    <3>3. QED BY <2>3, <3>2 DEF ErasePwd, Goto
  <2>4. QED BY <2>2, <2>3
<1>2. /\ \A u \in Tasks \ {t} : pc'[u] = pc[u]
      /\ pc'[t] = IF pc[t] = "eraseSsid" THEN "erasePwd" ELSE Finish(t)
      /\ pc' \in [Tasks -> Stages]
  BY <1>1 DEF TypeInv, Stages, Finish
<1>3. TypeInv'
  BY <1>1, <1>2 DEF TypeInv, station
<1>4. LinkInv'
  BY <1>1, LinkLeft
<1>5. ASSUME clean'
      PROVE  Progress(t)'
  <2>1. /\ Progress(t) /\ net'[t] = net[t] /\ net[t] = None
        /\ status'[t] = status[t] /\ goal' = goal
    BY <1>1, <1>5 DEF CredsInv, Progress
  <2>2. ssid' = None
    BY <1>1, <1>5, <2>1 DEF Progress
  <2>3. None # Unknown
    BY WifiAssumption
  <2>4. CASE pc[t] = "eraseSsid"
    BY <1>2, <2>1, <2>2, <2>4 DEF Progress
  <2>5. CASE pc[t] = "erasePwd" /\ status[t] = "answered"
    BY <1>2, <2>1, <2>2, <2>3, <2>5 DEF Progress, Finish, Holds
  <2>6. CASE pc[t] = "erasePwd" /\ status[t] # "answered"
    BY <1>2, <2>1, <2>2, <2>6 DEF Progress, Finish, Holds
  <2>7. QED BY <1>1, <2>4, <2>5, <2>6
<1>6. CredsInv'
  <2>1. CASE clean'
    <3>1. pc'[t] # "idle" /\ pc[t] # "idle"
      BY <1>1, <1>2 DEF Finish
    <3>2. QED BY <1>1, <1>2, <1>5, <2>1, <3>1, Alone
  <2>2. QED BY <2>1 DEF CredsInv
<1>7. QED BY <1>3, <1>4, <1>6

LEMMA ReplyStep ==
  ASSUME IInv, NEW t \in Tasks, Reply(t)
  PROVE  IInv'
<1> USE DEF IInv
<1>1. /\ pc[t] = "reply" /\ UNCHANGED <<flash, station, net, status, clean>>
      /\ pc'[t] = IF status[t] = "ok" THEN "restart" ELSE "idle"
      /\ goal' = IF status[t] = "ok" THEN net[t] ELSE Unknown
      /\ \A u \in Tasks \ {t} : pc'[u] = pc[u]
      /\ pc' \in [Tasks -> Stages]
  BY DEF Reply, Goto, TypeInv, Stages
<1>2. TypeInv'
  BY <1>1 DEF TypeInv, station
<1>3. LinkInv'
  BY <1>1, LinkLeft
<1>4. ASSUME clean
      PROVE  Progress(t)'
  <2>1. Progress(t) /\ net[t] # Unknown
    BY <1>1, <1>4, WifiAssumption DEF CredsInv, TypeInv
  <2>2. CASE status[t] = "ok"
    BY <1>1, <2>1, <2>2 DEF Progress, Holds, flash
  <2>3. CASE status[t] # "ok"
    BY <1>1, <2>3 DEF Progress
  <2>4. QED BY <2>2, <2>3
<1>5. CredsInv'
  <2>1. CASE clean
    <3>1. pc'[t] = "idle" => goal' = Unknown
      BY <1>1
    <3>2. QED BY <1>1, <1>4, <2>1, <3>1, Alone
  <2>2. QED BY <1>1, <2>1 DEF CredsInv
<1>6. QED BY <1>2, <1>3, <1>5

(***************************************************************************)
(* The theorems                                                            *)
(***************************************************************************)

LEMMA IStep == IInv /\ [Next]_vars => IInv'
<1> SUFFICES ASSUME IInv, [Next]_vars PROVE IInv'
  OBVIOUS
<1>1. CASE OnStart \/ OnDisconnected \/ Retry \/ OnGotIp
  BY <1>1, EventStep DEF EventTask
<1>2. CASE Associate \/ Drop \/ Outage
  BY <1>2, DriverStep DEF Driver
<1>3. CASE Crash
  BY <1>3, CrashStep
<1>4. ASSUME NEW t \in Tasks, Request(t) \/ OpenNvs(t)
      PROVE  IInv'
  BY <1>4, RequestStep, OpenStep
<1>5. ASSUME NEW t \in Tasks, SetSsid(t) \/ SetPwd(t)
      PROVE  IInv'
  BY <1>5, WriteStep
<1>6. ASSUME NEW t \in Tasks, EraseSsid(t) \/ ErasePwd(t)
      PROVE  IInv'
  BY <1>6, EraseStep
<1>7. ASSUME NEW t \in Tasks, Reply(t) \/ Restart(t)
      PROVE  IInv'
  BY <1>7, ReplyStep, RestartStep
<1>8. CASE UNCHANGED vars
  <2>1. UNCHANGED <<flash, station, request>>
    BY <1>8 DEF vars
  <2>2. TypeInv'
    BY <2>1 DEF IInv, TypeInv, station, request
  <2>3. LinkInv'
    BY <2>1, LinkLeft DEF IInv
  <2>4. CredsInv'
    BY <2>1, CredsLeft DEF IInv, station
  <2>5. QED BY <2>2, <2>3, <2>4 DEF IInv
<1>9. QED BY <1>1, <1>2, <1>3, <1>4, <1>5, <1>6, <1>7, <1>8 DEF Next

\* The queue of events accounts for the flag, and NVS for the requests.
THEOREM WifiInvariance == Spec => []IInv
BY IInit, IStep, PTL DEF Spec

\* Whatever the driver, the router and the requests do, with every event handled
\* wifi.status says what the link is.
THEOREM FlagIsLink == Spec => []FlagFollowsLink
<1>1. IInv => FlagFollowsLink
  <2> SUFFICES ASSUME IInv, events = <<>>
               PROVE  connected <=> link = "up"
    BY DEF FlagFollowsLink
  <2>1. QED BY Queues DEF IInv, LinkInv, TypeInv
<1>2. QED BY <1>1, WifiInvariance, PTL

\* However many requests, NVS errors and crashes, the driver runs with what the last
\* answered request asked for, or with what of it the fields hold and the boot could
\* read, if requests did not overlap and clearing had no error.
THEOREM AnswerIsUsed == Spec => []AnsweredIsUsed
<1>1. IInv => AnsweredIsUsed
  <2> SUFFICES ASSUME IInv, Quiet, clean, goal # Unknown
               PROVE  /\ goal = None => sta = None
                      /\ goal # None /\ sta # None => /\ sta[1] \in {goal, Cut(goal)}
                                                      /\ sta[2] \in {goal, Cut(goal), None}
                      /\ goal \in Nets \ (FullSsid \cup HugeSsid \cup FullPwd \cup HugePwd)
                           /\ ~misread => sta = <<goal, goal>>
    BY DEF AnsweredIsUsed
  <2>1. Uses(goal)
    BY DEF IInv, CredsInv
  <2>2. PICK s, p \in {goal, None} : sta = Creds(s, p)
    BY <2>1 DEF Uses
  <2>3. s = None => sta = None
    BY <2>2 DEF Creds
  <2>4. InField(s, FullSsid) \in {s, Cut(s)} /\ InField(p, FullPwd) \in {p, Cut(p)}
    BY DEF InField
  <2>5. None \notin FullPwd
    BY WifiAssumption
  <2>6. ASSUME sta # None, goal # None
        PROVE  sta[1] \in {goal, Cut(goal)} /\ sta[2] \in {goal, Cut(goal), None}
    <3>1. s = goal /\ s \notin HugeSsid \cup {None}
      BY <2>2, <2>3, <2>6 DEF Creds
    <3>2. sta = <<InField(s, FullSsid), IF p \in HugePwd THEN None ELSE InField(p, FullPwd)>>
      BY <2>2, <3>1 DEF Creds
    <3>3. p = None => InField(p, FullPwd) = None
      BY <2>5 DEF InField
    <3>4. QED BY <2>4, <3>1, <3>2, <3>3
  <2>7. ASSUME goal \in Nets \ (FullSsid \cup HugeSsid \cup FullPwd \cup HugePwd), ~misread
        PROVE  sta = <<goal, goal>>
    <3>1. sta = Creds(goal, goal) /\ goal # None
      BY <2>1, <2>7, WifiAssumption DEF Uses
    <3>2. QED BY <2>7, <3>1 DEF Creds, InField
  <2>8. QED BY <2>2, <2>3, <2>6, <2>7
<1>2. QED BY <1>1, WifiInvariance, PTL
=============================================================================
