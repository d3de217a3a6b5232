----------------------------- MODULE ScriptStore -----------------------------
(***************************************************************************)
(* Scripts: POST or PUT /api/scripts/<name> uploads a source in pieces and *)
(* stores it (api_scripts.cpp), DELETE or script.delete removes it, and    *)
(* every change is announced to the browser page that lists the scripts.   *)
(* The page asks for the whole list when it opens.  The httpd task serves  *)
(* the uploads and the lists, one at a time; deletes come through it and   *)
(* through the cloud relay's task.                                         *)
(*                                                                         *)
(* lua_script_cache, the sockets and the page are external.  A source is   *)
(* its length in pieces: what is stored of it is a prefix.                 *)
(***************************************************************************)
EXTENDS Naturals, FiniteSets

CONSTANTS Deleters,      \* tasks that serve deletes
          Httpd,         \* the task that serves uploads, and deletes in between
          Names,
          MaxLen,        \* longest body sent
          Cap,           \* kScriptCap - 1, in pieces
          ListRows,      \* rows of a list that fit its 1024 bytes
          MaxOps,        \* bound on requests that change scripts
          RecvMayFail,   \* whether httpd_req_recv may time out or fail
          WriteMayFail,  \* whether lua_script_cache_write may fail
          None

ASSUME ScriptsAssumption ==
  /\ MaxLen \in Nat \ {0} /\ Cap \in Nat \ {0} /\ MaxOps \in Nat
  /\ ListRows \in Nat
  /\ {RecvMayFail, WriteMayFail} \subseteq BOOLEAN
  /\ None \notin Names \cup 0..Cap

Tasks == Deleters \cup {Httpd}

VARIABLES store,     \* pieces stored of each script, None if there is none
          pc,        \* what each task does
          up,        \* the upload: name, length sent, pieces received, existed
          name,      \* the script a deleting task is about
          open,      \* a page is connected
          listing,   \* the names an answer about to be sent lists
          page,      \* the names the page lists
          listed,    \* it has got its list
          acked,     \* observer: the length sent of the last upload answered ok
          crossed,   \* observer: scripts whose delete by another task was under
                     \* way during their upload, or overtook a list
          ops

pageVars == <<open, listing, listed>>
vars == <<store, pc, up, name, pageVars, page, acked, crossed, ops>>

NoUpload == [name |-> None, len |-> 0, got |-> 0, existed |-> FALSE, cut |-> FALSE]

Init ==
  /\ store = [n \in Names |-> None]
  /\ open = FALSE /\ listing = None /\ page = {} /\ listed = FALSE
  /\ acked = [n \in Names |-> None]
  /\ pc = [t \in Tasks |-> "idle"] /\ name = [t \in Tasks |-> None]
  /\ up = NoUpload /\ crossed = {} /\ ops = 0

Goto(t, stage) == pc' = [pc EXCEPT ![t] = stage]

(* The upload arrives: whether the script exists is looked up before the *)
(* body is received.                                                     *)
Upload ==
  /\ pc[Httpd] = "idle" /\ ops < MaxOps /\ ops' = ops + 1
  /\ \E n \in Names, l \in 1..MaxLen :
       /\ up' = [name |-> n, len |-> l, got |-> 0, existed |-> store[n] # None, cut |-> FALSE]
       /\ crossed' = IF n \in {name[t] : t \in Tasks} THEN crossed \cup {n} ELSE crossed
  /\ Goto(Httpd, "recv")
  /\ UNCHANGED <<store, name, page, pageVars, acked>>

\* Mutant: the loop runs once.
OneRecv(u) == u.got > 0
\* while (total < kScriptCap - 1): the body is in, or the buffer is full.
Received(u) == u.got = u.len \/ u.got = Cap

\* What recv may have filled in the end: src is kScriptCap bytes.
Room(u) == IF u.len < Cap THEN u.len ELSE Cap

Recv ==
  /\ pc[Httpd] = "recv"
  /\ IF Received(up)
     THEN Goto(Httpd, "write") /\ UNCHANGED up
     ELSE \/ /\ \E g \in up.got + 1 .. Room(up) : up' = [up EXCEPT !.got = g]
             /\ UNCHANGED pc
          \/ /\ RecvMayFail /\ up' = [up EXCEPT !.cut = TRUE]   \* got <= 0: break
             /\ Goto(Httpd, "write")
  /\ UNCHANGED <<store, name, page, pageVars, acked, crossed, ops>>

Write ==
  /\ pc[Httpd] = "write"
  /\ \/ /\ store' = [store EXCEPT ![up.name] = up.got]
        /\ Goto(Httpd, "announce") /\ UNCHANGED up
     \/ /\ WriteMayFail /\ up' = NoUpload                    \* "write failed"
        /\ Goto(Httpd, "idle") /\ UNCHANGED store
  /\ UNCHANGED <<name, page, pageVars, acked, crossed, ops>>

\* Mutant: every write is announced as an update.
AlwaysUpdated(u) == page
\* script.updated finds its row on the page, script.added makes one.
Announced(u) == IF u.existed THEN page ELSE page \cup {u.name}

(* ws_push, then {"ok":true}. *)
Announce ==
  /\ pc[Httpd] = "announce"
  /\ page' = IF open THEN Announced(up) ELSE page
  /\ acked' = [acked EXCEPT ![up.name] =
                 IF up.cut \/ up.len > Cap \/ up.name \in crossed THEN None ELSE up.len]
  /\ up' = NoUpload /\ Goto(Httpd, "idle")
  /\ UNCHANGED <<store, name, pageVars, crossed, ops>>

(* lua_script_cache_delete of a script that is there; otherwise "not found" *)
(* and nothing changes.                                                     *)
Delete(t) ==
  /\ pc[t] = "idle" /\ ops < MaxOps /\ ops' = ops + 1
  /\ \E n \in Names :
       /\ store[n] # None
       /\ store' = [store EXCEPT ![n] = None]
       /\ acked' = [acked EXCEPT ![n] = None]
       /\ name' = [name EXCEPT ![t] = n]
       /\ crossed' = IF up.name = n THEN crossed \cup {n} ELSE crossed
  /\ Goto(t, "deleted")
  /\ UNCHANGED <<up, page, pageVars>>

\* script.deleted, after the answer on a WebSocket and before it in REST.
AnnounceDelete(t) ==
  /\ pc[t] = "deleted"
  /\ page' = page \ {name[t]}
  /\ name' = [name EXCEPT ![t] = None] /\ Goto(t, "idle")
  /\ UNCHANGED <<store, up, pageVars, acked, crossed, ops>>

-----------------------------------------------------------------------------
(* The page connects; it lists nothing until its script.list is answered. *)
Open ==
  /\ ~open /\ open' = TRUE /\ page' = {} /\ listed' = FALSE
  /\ UNCHANGED <<store, pc, up, name, listing, acked, crossed, ops>>

(* It goes away, and with it the answer it waits for. *)
Close ==
  /\ open /\ open' = FALSE /\ page' = {} /\ listed' = FALSE /\ listing' = None
  /\ UNCHANGED <<store, pc, up, name, acked, crossed, ops>>

(* cmd_script_list and GET /api/scripts: the names that are there now ... *)
ListLoad ==
  /\ pc[Httpd] = "idle" /\ open /\ ~listed /\ listing = None
  /\ listing' = {n \in Names : store[n] # None}
  /\ Goto(Httpd, "list")
  /\ UNCHANGED <<store, up, name, open, page, listed, acked, crossed, ops>>

\* A delete of the script has yet to be announced.
Unannounced(n) == \E t \in Tasks : name[t] = n

(* ... and later the answer; one that does not fit the buffer is cut, and the *)
(* page cannot read it.                                                       *)
ListReply ==
  /\ pc[Httpd] = "list" /\ Goto(Httpd, "idle") /\ listing' = None
  /\ IF listing # None /\ Cardinality(listing) <= ListRows
     THEN /\ page' = listing /\ listed' = TRUE
          /\ crossed' = {n \in listing : store[n] = None /\ ~Unannounced(n)}
                         \cup {n \in crossed : Unannounced(n)}
     ELSE UNCHANGED <<page, listed, crossed>>
  /\ UNCHANGED <<store, up, name, open, acked, ops>>

Next ==
  \/ Upload \/ Recv \/ Write \/ Announce
  \/ Open \/ Close \/ ListLoad \/ ListReply
  \/ \E t \in Deleters : Delete(t) \/ AnnounceDelete(t)

Spec == Init /\ [][Next]_vars

-----------------------------------------------------------------------------
Quiet == \A t \in Tasks : pc[t] = "idle"

(* Every variable is of its type; an upload never receives more than it was *)
(* sent nor more than the buffer holds.                                     *)
TypeOK ==
  /\ store \in [Names -> 0..Cap \cup {None}]
  /\ acked \in [Names -> 1..MaxLen \cup {None}]
  /\ name \in [Tasks -> Names \cup {None}]
  /\ pc \in [Tasks -> {"idle", "recv", "write", "announce", "deleted", "list"}]
  /\ up \in [name : Names \cup {None}, len : 0..MaxLen, got : 0..MaxLen,
             existed : BOOLEAN, cut : BOOLEAN]
  /\ up.got <= up.len /\ up.got <= Cap
  /\ page \subseteq Names /\ crossed \subseteq Names
  /\ listing \in (SUBSET Names) \cup {None}
  /\ open \in BOOLEAN /\ listed \in BOOLEAN /\ ops \in 0..MaxOps

(* A script whose upload was answered ok is stored whole ("body = source", *)
(* api_scripts.cpp:107), until it is deleted or sent again, if its body    *)
(* fits the buffer and no receive failed.                                  *)
AckedSourceIsWhole ==
  Quiet => \A n \in Names : acked[n] # None => store[n] = acked[n]

(* With every change announced, a page that has its list lists the scripts *)
(* that are there: "so the SPA list updates without reload"                *)
(* (WS_PROTOCOL.md:30), but for those that another task deleted while they *)
(* were uploaded or listed.                                                *)
PageListsScripts ==
  Quiet /\ open /\ listed =>
    page \ crossed = {n \in Names : store[n] # None} \ crossed
=============================================================================
