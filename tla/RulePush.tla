------------------------------ MODULE RulePush ------------------------------
(***************************************************************************)
(* Rules, the RULE_CHANGED events and the browser page that mirrors them.  *)
(* A rule command (rule.create / update / enable / delete on a WebSocket   *)
(* or the relay, or the REST handlers of api_rules.cpp) changes the rule   *)
(* store and publishes RULE_CHANGED; the event waits in the bounded queue  *)
(* of the subscriber until the pump task runs on_rule_changed, which reads *)
(* the store AGAIN and pushes what it finds there.  A page asks for the    *)
(* whole list with rule.list when it opens.                                *)
(*                                                                         *)
(* simple_rules, rule_store, event_bus and ws_server are external: a       *)
(* successful command is one change of the store with its event.           *)
(***************************************************************************)
EXTENDS Naturals, Sequences, SequencesExt

CONSTANTS Tasks,      \* tasks that serve commands; httpd serves one at a time
          Httpd,      \* the one whose clients are the pages
          Ids,        \* rule slots, in the order rule.list goes through them
          Contents,   \* name, dsl and enabled flag of a rule
          Depth,      \* length of the subscriber queue
          MaxOps,     \* bound on rule changes
          None        \* no rule, no value

Changes == {"added", "updated", "deleted"}
Events == [id : Ids, change : Changes]

ASSUME RulesAssumption ==
  /\ Httpd \in Tasks /\ None \notin Contents \cup Events /\ Ids \subseteq Nat
  /\ Depth \in Nat \ {0} /\ MaxOps \in Nat

VARIABLES store,      \* rule_store
          queue,      \* RULE_CHANGED events not yet drained
          pump,       \* the event being handled by on_rule_changed
          found,      \* what rule_store_load returned for it
          open,       \* a page is connected (ws_server_client_count() > 0)
          page,       \* the rules the page shows
          listing,    \* the answer of a rule.list not yet sent
          listed,     \* the page has got its list
          lost,       \* observer: rules whose last event was overwritten in
                      \* the queue, not pushed or overtaken by an older list,
                      \* or that the list left out
          ops

vars == <<store, queue, pump, found, open, page, listing, listed, lost, ops>>

Empty == [i \in Ids |-> None]
Queued(q) == {e.id : e \in ToSet(q)}

\* Mutant: a full queue refuses the new event.
KeepsOldest(q, e) == IF Len(q) = Depth THEN q ELSE Append(q, e)
\* "queue full -- oldest overwritten" (main.cpp:152).
Enqueue(q, e) == IF Len(q) = Depth THEN Append(Tail(q), e) ELSE Append(q, e)

Publish(i, change) ==
  LET overwritten == IF Len(queue) = Depth
                     THEN {queue[1].id} \ Queued(Tail(queue)) ELSE {}
  IN  /\ queue' = Enqueue(queue, [id |-> i, change |-> change])
      /\ lost' = (lost \cup overwritten) \ {i}

Init ==
  /\ store = Empty /\ queue = <<>> /\ pump = None /\ found = None
  /\ open = FALSE /\ page = Empty /\ listing = None /\ listed = FALSE
  /\ lost = {} /\ ops = 0

Free(t) == t = Httpd => listing = None

(* simple_rules_add: the rule gets a free slot; a DSL it cannot parse or a   *)
(* full store changes nothing and publishes nothing.                        *)
AddRule ==
  \E i \in Ids, c \in Contents :
    /\ store[i] = None
    /\ store' = [store EXCEPT ![i] = c]
    /\ Publish(i, "added")

(* simple_rules_update, simple_rules_enable: an unknown id changes nothing. *)
ChangeRule ==
  \E i \in Ids, c \in Contents :
    /\ store[i] # None
    /\ store' = [store EXCEPT ![i] = c]
    /\ Publish(i, "updated")

RemoveRule ==
  \E i \in Ids :
    /\ store[i] # None
    /\ store' = [store EXCEPT ![i] = None]
    /\ Publish(i, "deleted")

(* One command, served to its end by one task: the push is not its business. *)
Serve(t) ==
  /\ Free(t) /\ ops < MaxOps /\ ops' = ops + 1
  /\ UNCHANGED <<pump, found, open, page, listing, listed>>

CmdRuleCreate(t) == Serve(t) /\ AddRule

(* rule.update and rule.enable. *)
CmdRuleUpdate(t) == Serve(t) /\ ChangeRule

CmdRuleDelete(t) == Serve(t) /\ RemoveRule

(* POST /api/rules; PUT, POST .../enable and DELETE of /api/rules/<id>. *)
PostRules(t) == t = Httpd /\ Serve(t) /\ AddRule

RulesItem(t) == t = Httpd /\ Serve(t) /\ (ChangeRule \/ RemoveRule)

(* A page connects; until its rule.list is answered it shows nothing. *)
Open ==
  /\ ~open /\ open' = TRUE /\ page' = Empty /\ listed' = FALSE
  /\ UNCHANGED <<store, queue, pump, found, listing, lost, ops>>

(* cmd_rule_list: rule_store_load_all, then the answer is built and sent. *)
ListLoad ==
  /\ open /\ ~listed /\ listing = None
  /\ listing' = store
  /\ UNCHANGED <<store, queue, pump, found, open, page, listed, lost, ops>>

\* An event about the rule has yet to be pushed.
Pending(i) == i \in Queued(queue) \/ (pump # None /\ pump.id = i)

\* The answer stops at the row that does not fit its 16 KB.
FirstRows(n) == [i \in Ids |-> IF i <= n THEN listing[i] ELSE None]

(* The page gets the whole list or the rows that fitted; or nothing, when a  *)
(* row was cut at 768 bytes, so that no page can parse the answer, or there  *)
(* was no memory for it.                                                     *)
ListReply ==
  /\ open /\ listing # None /\ listing' = None
  /\ page' \in {page} \cup {FirstRows(n) : n \in Ids} /\ listed' = TRUE
  /\ lost' = {i \in Ids : IF Pending(i) THEN i \in lost ELSE page'[i] # store[i]}
  /\ UNCHANGED <<store, queue, pump, found, open, ops>>

\* The page goes away, and with it the answer it waits for.
Close ==
  /\ open /\ open' = FALSE /\ listed' = FALSE /\ page' = Empty
  /\ listing' = None
  /\ UNCHANGED <<store, queue, pump, found, lost, ops>>

-----------------------------------------------------------------------------
(* push_listeners(), for the local clients. *)
Listeners == open

(* The pump takes the oldest event and calls on_rule_changed. *)
PumpTake ==
  /\ pump = None /\ queue # <<>>
  /\ pump' = IF Listeners THEN Head(queue) ELSE None
  /\ queue' = Tail(queue)
  /\ UNCHANGED <<store, found, open, page, listing, listed, lost, ops>>

\* The event at hand goes no further: only a later one can put the page right.
Missed == IF pump.id \in Queued(queue) THEN lost ELSE lost \cup {pump.id}

(* rule_store_load: a rule deleted meanwhile is not pushed, its own event    *)
(* says so later; without memory for the slot nothing is read or pushed.     *)
PumpLoad ==
  /\ pump # None /\ pump.change # "deleted" /\ found = None
  /\ \/ /\ found' = store[pump.id]
        /\ pump' = IF store[pump.id] = None THEN None ELSE pump
        /\ UNCHANGED lost
     \/ /\ pump' = None /\ lost' = Missed
        /\ UNCHANGED found
  /\ UNCHANGED <<store, queue, open, page, listing, listed, ops>>

\* The page with what the event at hand says: rule.added and rule.updated carry
\* the rule, rule.deleted its id.
Pushed ==
  [page EXCEPT ![pump.id] = IF pump.change = "deleted" THEN None ELSE found]

(* ws_push, to whoever is connected now.  A rule of 1024 bytes or more is    *)
(* dropped, and so is any push without memory for its envelope.              *)
PumpPush ==
  /\ pump # None /\ (pump.change = "deleted" \/ found # None)
  /\ \/ page' = (IF open THEN Pushed ELSE page) /\ UNCHANGED lost
     \/ open /\ lost' = Missed /\ UNCHANGED page
  /\ pump' = None /\ found' = None
  /\ UNCHANGED <<store, queue, open, listing, listed, ops>>

Next ==
  \/ \E t \in Tasks : \/ CmdRuleCreate(t) \/ CmdRuleUpdate(t) \/ CmdRuleDelete(t)
                      \/ PostRules(t) \/ RulesItem(t)
  \/ Open \/ Close \/ ListLoad \/ ListReply
  \/ PumpTake \/ PumpLoad \/ PumpPush

Spec == Init /\ [][Next]_vars

-----------------------------------------------------------------------------
(* Every variable is of its type, and the queue never exceeds its depth.   *)
TypeOK ==
  /\ store \in [Ids -> Contents \cup {None}]
  /\ queue \in Seq(Events) /\ Len(queue) <= Depth
  /\ pump \in Events \cup {None} /\ found \in Contents \cup {None}
  /\ open \in BOOLEAN /\ listed \in BOOLEAN
  /\ page \in [Ids -> Contents \cup {None}]
  /\ listing \in [Ids -> Contents \cup {None}] \cup {None}
  /\ lost \subseteq Ids

\* The page shows what is stored, but for the rules it has not been told of.
RulesAgree == \A i \in Ids \ lost : page[i] = store[i]

(* Once every event is drained, a page that asked for its list shows the   *)
(* rules the store holds, but for those whose last event the full queue    *)
(* overwrote, was too long to push or an older list overtook, and those    *)
(* that the list had no room for: "Rules changed by any door (WebSocket,   *)
(* REST, a backup restore) -> one push, built here from the store so REST  *)
(* edits reach open tabs and the relay too" (ws_bridge.cpp:1115).          *)
PageShowsRules ==
  queue = <<>> /\ pump = None /\ open /\ listed => RulesAgree
=============================================================================
