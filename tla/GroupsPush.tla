------------------------------ MODULE GroupsPush ------------------------------
(***************************************************************************)
(* The group store together with a browser page that mirrors it.  The page *)
(* asks for the list (group.list) and, after a successful group.create /   *)
(* update / delete, the WebSocket command (main/ws_bridge.cpp) answers and *)
(* broadcasts group.added / updated / deleted; the page applies the event  *)
(* to the list it shows.  Both are sent after the store mutex was given    *)
(* back, so a list may reach the page after an event that is newer than    *)
(* it.  The REST handlers (main/api_groups.cpp) answer the same requests   *)
(* and broadcast nothing.                                                  *)
(***************************************************************************)
EXTENDS GroupsStore

CONSTANTS
  RestTasks,  \* the tasks that also serve REST requests: httpd, or none
  RspCap,     \* rsp[] of cmd_group_create and cmd_group_update
  Envelope    \* the bytes of {"id":..,"ok":true,"data":..} around a list

ASSUME RestAssumption == /\ RestTasks \subseteq Tasks
                         /\ RspCap \in Nat /\ Envelope \in Nat

VARIABLES
  page,       \* the group list an open page shows
  behind,     \* observer: the slots the page cannot be right about (see Answered)
  late,       \* observer: per list in the making, the slots answered for since
              \* it was loaded
  crossed     \* observer: tasks whose answer has been overtaken

observers == <<behind, late, crossed>>
pushVars  == <<vars, page, observers>>

Changed(r) == r.ok /\ r.op \in {"create", "update", "delete"}

\* The record fits rsp[]; otherwise grp_to_json returns 0 and null is pushed.
Rendered(r) == r.op = "delete" \/ r.rec.members < RspCap

\* Mutant: a delete broadcasts nothing.
DeleteNotPushed(r) ==
  IF r.ok /\ r.op \in {"create", "update"} THEN [page EXCEPT ![r.id] = r.rec] ELSE page

\* The event a command broadcasts, as the change it makes to the page.  An
\* update shows the record this very command saved.
Pushed(r) ==
  CASE ~ Changed(r) \/ ~ Rendered(r) -> page
    [] OTHER -> [page EXCEPT ![r.id] = IF r.op = "delete" THEN None ELSE r.rec]

\* The tasks that have changed the same group too and have yet to say so.
Overtaken(t) ==
  {u \in Tasks \ {t} : /\ pc[u] = "reply" /\ Changed(req[u])
                       /\ Changed(req[t]) /\ req[u].id = req[t].id}

\* Another task has loaded a list and has yet to send it.
ListDue(u) == pc[u] \in {"serialise", "reply"} /\ req[u].op = "list"

\* The reply is over.  Whoever has loaded a list has not seen this change.
Answered(t) ==
  /\ Reply(t)
  /\ crossed' = (crossed \ {t}) \cup Overtaken(t)
  /\ late' = [u \in Tasks |->
                IF u # t /\ ListDue(u)
                THEN late[u] \cup (IF Changed(req[t]) THEN {req[t].id} ELSE {})
                ELSE {}]

\* The page got the event of the change, or none that could be relied on.
Told(t, announced) ==
  behind' = IF ~Changed(req[t]) THEN behind
            ELSE IF announced /\ t \notin crossed THEN behind \ {req[t].id}
            ELSE behind \cup {req[t].id}

\* cmd_group_*: the reply, then ws_push.
WsReply(t) ==
  /\ Answered(t)
  /\ page' = Pushed(req[t])
  /\ Told(t, Overtaken(t) = {} /\ Rendered(req[t]))

\* h_group_*: the reply alone.
RestReply(t) == t \in RestTasks /\ Answered(t) /\ Told(t, FALSE) /\ UNCHANGED page

\* cmd_group_list, asked by the page: what can be read of the list, in a frame of
\* the same size.  A frame that is cut is no JSON and is dropped.
ListReply(t) ==
  /\ req[t].op = "list"
  /\ Answered(t)
  /\ page' = IF Envelope + RowEnd(rows[t].at, MaxGroups) + TailLen <= ListCap
             THEN rows[t].at ELSE page
  /\ behind' = IF page' = snap[t] THEN late[t] ELSE Slot

\* A reset closes every socket; the page shows nothing it could rely on until it
\* has been sent a list again.
Reconnect ==
  /\ Crash
  /\ page' = Empty /\ behind' = Slot
  /\ late' = [t \in Tasks |-> {}] /\ crossed' = {}

PushInit ==
  /\ Init
  /\ page = Empty /\ behind = {} /\ late = [t \in Tasks |-> {}] /\ crossed = {}

PushNext ==
  \/ \E t \in Tasks : /\ Request(t) \/ Acquire(t) \/ StoreStep(t)
                      /\ UNCHANGED <<page, observers>>
  \/ \E t \in Tasks : WsReply(t) \/ RestReply(t) \/ ListReply(t)
  \/ Reconnect

PushSpec == PushInit /\ [][PushNext]_pushVars

\* With every command answered and nothing failed, an open page shows what the
\* store holds, whichever list and events it was sent in whatever order: "so the
\* SPA list updates without reload" (WS_PROTOCOL.md:30).  It is behind on the
\* groups changed over REST, by two commands that were answered in an order of
\* their own, with a record that does not fit rsp[], or between the load of the
\* last list and its sending, until the next list; and on all of them while the
\* last list did not fit its buffers (see Told and ListReply).
PageShowsStore ==
  (\A t \in Tasks : pc[t] = "idle") /\ faults = 0
    => \A i \in Slot \ behind : page[i] = Listing[i]
==============================================================================
