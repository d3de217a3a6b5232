----------------------------- MODULE GroupsStore -----------------------------
(***************************************************************************)
(* The device-group store (main/groups_store.cpp) as the request handlers  *)
(* of main/api_groups.cpp drive it from two tasks, httpd and task_remote.  *)
(*                                                                         *)
(* A group lives in NVS as one bit of the slot bitmap "bmp" and one blob   *)
(* "g%04x".  Every store operation takes the recursive store mutex; inside *)
(* it the NVS calls are separate steps, because each of them may fail and  *)
(* the gateway may reset between any two of them.  group_update is two     *)
(* store operations, grp_find and grp_save, with the mutex released in     *)
(* between.                                                                *)
(***************************************************************************)
EXTENDS Integers
LOCAL INSTANCE Functions

CONSTANTS
  Tasks,        \* tasks that run group requests: httpd, task_remote
  MaxGroups,    \* GRP_MAX_GROUPS
  Names,        \* group names (opaque)
  Members,      \* member lists, each known by the bytes of the record's JSON
  RowCap,       \* tmp[] of group_list_json, for one row
  ListCap,      \* the buffer group_list_json writes its list into
  Ops,          \* the requests the clients of this instance send
  Faults,       \* the NVS calls that may return an error
  MaxFaults,    \* bound: NVS errors in a behaviour
  MaxCrashes,   \* bound: resets in a behaviour
  None,         \* nobody, nothing stored, field absent from a request
  NoClaim, Gone \* marks of the observer "claim"

AllOps   == {"create", "get", "update", "delete", "list"}
\* The text before the first row, less its bracket, and after the last.
HeadLen == 10
TailLen == 2

NvsCalls == {"open", "get_u32", "get_blob", "set_blob", "set_u32", "erase_key", "commit"}

ASSUME GroupsAssumption ==
  /\ MaxGroups \in Nat \ {0}
  /\ Members \subseteq Nat
  /\ RowCap \in Nat /\ ListCap \in Nat
  /\ ListCap > HeadLen + TailLen + 1
  /\ Ops \subseteq AllOps
  /\ Faults \subseteq NvsCalls
  /\ MaxFaults \in Nat /\ MaxCrashes \in Nat
  /\ None \notin Tasks /\ None \notin Names /\ None \notin Members
  /\ {None, NoClaim, Gone} \cap [name : Names, members : Members] = {}
  /\ NoClaim # Gone

VARIABLES
  bmp,      \* NVS: the slots whose bit is set
  blob,     \* NVS: the record under each slot's key, or None
  lock,     \* holder of the store mutex, or None
  pc,       \* per task: the step it takes next
  req,      \* per task: the request and the local GrpRecord r
  all,      \* the file-static all[] that group_list_json loads into
  snap,     \* observer: the listing when a task's list request loaded it
  rows,     \* per task: the list the client is sent
  claim,    \* observer: what the store last acknowledged per slot
  faults,   \* NVS errors so far
  crashes   \* resets so far

nvs  == <<bmp, blob>>
list == <<all, snap, rows>>
vars == <<bmp, blob, lock, pc, req, all, snap, rows, claim, faults, crashes>>

(***************************************************************************)
(* Values                                                                  *)
(***************************************************************************)
Slot == 1..MaxGroups
Rec  == [name : Names, members : Members]

\* A client may name any id; 0 stands for every id outside the table.
Ids == 0..MaxGroups

Listings == [Slot -> Rec \cup {None}]
Texts    == [at : Listings, whole : BOOLEAN]

Req == [op : AllOps \cup {None}, id : Ids, name : Names \cup {None},
        members : Members \cup {None}, rec : Rec \cup {None}, ok : BOOLEAN]

IdleReq == [op |-> None, id |-> 0, name |-> None, members |-> None,
            rec |-> None, ok |-> FALSE]

\* Steps taken with the store mutex held.
Critical == {"next_id", "set_blob", "set_bmp", "commit", "find",
             "erase", "clear_bmp", "commit_delete", "load", "serialise"}

Steps == Critical \cup {"idle", "lock", "relock", "reply"}

\* grp_load_all: a slot is listed when its bit is set and its blob reads back.
Listing == [i \in Slot |-> IF i \in bmp THEN blob[i] ELSE None]

(***************************************************************************)
(* Helpers of the store                                                    *)
(***************************************************************************)

\* An NVS call of this kind may fail now.
MayFail(call) == call \in Faults /\ faults < MaxFaults

\* Mutant: a task tries a failed operation again instead of answering.
RetriedForever(t, ok) ==
  /\ lock' = None
  /\ pc' = [pc EXCEPT ![t] = IF ok THEN "reply" ELSE "lock"]
  /\ req' = [req EXCEPT ![t].ok = ok]

\* The code's way out of a store operation: ~GrpLockGuard, then the caller.
Return(t, ok) ==
  /\ lock' = None
  /\ pc' = [pc EXCEPT ![t] = "reply"]
  /\ req' = [req EXCEPT ![t].ok = ok]

GoTo(t, step) == pc' = [pc EXCEPT ![t] = step]

\* What grp_get_bmp hands out: the stored bitmap, or 0 when nvs_get_u32 failed.
BmpRead(value, cost) ==
  \/ value = bmp /\ cost = 0
  \/ value = {} /\ cost = 1 /\ MayFail("get_u32")

\* Mutant: the 0-based bit index is handed out as the id.
LowestFreeBit(i, used) == i + 1 \in Slot \ used /\ \A j \in Slot \ used : i < j

\* The slot scan of grp_next_id: i is the lowest clear bit of a bitmap.
LowestFree(i, used) == i \in Slot \ used /\ \A j \in Slot \ used : i <= j

\* The first step of an operation, once it has the mutex.
FirstStep(op) ==
  CASE op = "create" -> "next_id"
    [] op = "delete" -> "erase"
    [] op = "list"   -> "load"
    [] OTHER         -> "find"

\* group_update: fields the request leaves out keep their stored value.
Merged(r, old) ==
  [name    |-> IF r.name = None THEN old.name ELSE r.name,
   members |-> IF r.members = None THEN old.members ELSE r.members]

\* The groups of a listing.
Used(l) == {i \in Slot : l[i] # None}

\* Where the row of slot i ends: a row comes after a bracket or a comma.
RowEnd(l, i) ==
  HeadLen + SumFunctionOnSet([j \in Used(l) |-> 1 + l[j].members], {j \in Used(l) : j <= i})

\* A row goes into the list when it fits tmp[] and there is room left for it.
RowFits(l, i) == l[i].members < RowCap /\ RowEnd(l, i) < ListCap

\* All rows fit, and so does the end of the list.
AllFits(l) == /\ \A i \in Used(l) : RowFits(l, i)
              /\ RowEnd(l, MaxGroups) + TailLen < ListCap

\* The text group_list_json writes.  A row that does not fit leaves its comma
\* behind, unless it is the only one, and what follows is lost on a reader: "at"
\* is what can be read, "whole" says that the text is a JSON object.
Serialised(l) ==
  [at    |-> [i \in Slot |-> IF \A j \in Used(l) : j <= i => RowFits(l, j)
                             THEN l[i] ELSE None],
   whole |-> \/ AllFits(l)
             \/ \E i \in Slot : Used(l) = {i} /\ ~ RowFits(l, i)]

Empty   == [i \in Slot |-> None]
NoReply == [at |-> Empty, whole |-> FALSE]

(***************************************************************************)
(* Requests                                                                *)
(***************************************************************************)

\* A parsed request body.  A body that does not parse changes nothing.
Requests ==
  {r \in Req :
     /\ r.op \in Ops /\ r.ok = FALSE
     /\ r.op = "create" => /\ r.id = 0 /\ r.rec \in Rec
                           /\ r.name = None /\ r.members = None
     /\ r.op # "create" => r.rec = None
     /\ r.op # "update" => r.name = None /\ r.members = None
     /\ r.op = "list" => r.id = 0}

\* A task picks up a request; grp_delete refuses a bad id before it locks.
Request(t) ==
  /\ pc[t] = "idle"
  /\ \E r \in Requests :
       /\ req' = [req EXCEPT ![t] = r]
       /\ GoTo(t, IF r.op = "delete" /\ r.id \notin Slot THEN "reply" ELSE "lock")
  /\ UNCHANGED <<nvs, lock, list, claim, faults, crashes>>

\* GrpLockGuard / grp_store_lock: blocks until the mutex is free.
Acquire(t) ==
  /\ pc[t] \in {"lock", "relock"}
  /\ lock = None
  /\ lock' = t
  /\ GoTo(t, IF pc[t] = "relock" THEN "set_blob" ELSE FirstStep(req[t].op))
  /\ UNCHANGED <<nvs, req, list, claim, faults, crashes>>

(***************************************************************************)
(* grp_create = grp_next_id + grp_save, one critical section               *)
(***************************************************************************)

\* Mutant: the mutex is given back between grp_next_id and grp_save.
AllocThenRelock(t) == lock' = None /\ GoTo(t, "relock")

\* The id is used for the save under the lock it was found under.
AllocKeepsLock(t) == UNCHANGED lock /\ GoTo(t, "set_blob")

\* grp_next_id.  When nvs_open fails the bitmap is taken to be 0.
NextId(t) ==
  /\ pc[t] = "next_id"
  /\ \E used \in SUBSET Slot, cost \in {0, 1} :
       /\ \/ BmpRead(used, cost)
          \/ used = {} /\ cost = 1 /\ MayFail("open")
       /\ faults' = faults + cost
       /\ \/ used = Slot /\ Return(t, FALSE)
          \/ \E id \in Ids : /\ LowestFree(id, used)
                            /\ req' = [req EXCEPT ![t].id = id]
                            /\ AllocKeepsLock(t)
  /\ UNCHANGED <<nvs, list, claim, crashes>>

\* The observer, when a create or update starts to overwrite what it noted.
AfterWriting(op, noted) ==
  IF (op = "create" /\ noted = Gone) \/ (op = "update" /\ noted \in Rec)
  THEN NoClaim ELSE noted

\* grp_save, first half: open, then write the blob.
SaveBlob(t) ==
  /\ pc[t] = "set_blob"
  /\ LET id == req[t].id
     IN  \/ /\ MayFail("open") \/ MayFail("set_blob")
            /\ faults' = faults + 1
            /\ Return(t, FALSE)
            /\ UNCHANGED <<blob, claim>>
         \/ /\ blob' = [blob EXCEPT ![id] = req[t].rec]
            /\ claim' = [claim EXCEPT ![id] = AfterWriting(req[t].op, @)]
            /\ GoTo(t, "set_bmp")
            /\ UNCHANGED <<lock, req, faults>>
  /\ UNCHANGED <<bmp, list, crashes>>

\* grp_save, the bitmap: the result of nvs_set_u32 is not looked at.
SaveBmp(t) ==
  /\ pc[t] = "set_bmp"
  /\ \E old \in SUBSET Slot, cost \in {0, 1} :
       /\ BmpRead(old, cost)
       /\ \/ bmp' = old \cup {req[t].id} /\ faults' = faults + cost
          \/ /\ MayFail("set_u32") /\ cost = 0
             /\ bmp' = bmp /\ faults' = faults + 1
  /\ GoTo(t, "commit")
  /\ UNCHANGED <<blob, lock, req, list, claim, crashes>>

\* grp_save, the end: what nvs_commit says is what the caller is told.
SaveCommit(t) ==
  /\ pc[t] = "commit"
  /\ \/ /\ Return(t, TRUE)
        /\ claim' = [claim EXCEPT ![req[t].id] = req[t].rec]
        /\ UNCHANGED faults
     \/ /\ MayFail("commit")
        /\ Return(t, FALSE)
        /\ faults' = faults + 1
        /\ UNCHANGED claim
  /\ UNCHANGED <<nvs, list, crashes>>

(***************************************************************************)
(* grp_find: group_get, and the first half of group_update                 *)
(***************************************************************************)

\* The blob alone decides; the bitmap is not consulted.
Found(id) == id \in Slot /\ blob[id] # None

Find(t) ==
  /\ pc[t] = "find"
  /\ LET id == req[t].id
     IN  \/ /\ MayFail("open") \/ MayFail("get_blob")
            /\ faults' = faults + 1
            /\ Return(t, FALSE)
         \/ /\ ~Found(id)
            /\ Return(t, FALSE)
            /\ UNCHANGED faults
         \/ /\ Found(id) /\ req[t].op = "get"
            /\ Return(t, TRUE)
            /\ UNCHANGED faults
         \/ /\ Found(id) /\ req[t].op = "update"
            /\ req' = [req EXCEPT ![t].rec = Merged(req[t], blob[id])]
            /\ lock' = None
            /\ GoTo(t, "relock")
            /\ UNCHANGED faults
  /\ UNCHANGED <<nvs, list, claim, crashes>>

(***************************************************************************)
(* grp_delete                                                              *)
(***************************************************************************)

\* An absent blob is not an error: the delete goes on to the bitmap.
EraseBlob(t) ==
  /\ pc[t] = "erase"
  /\ \/ /\ MayFail("open") \/ MayFail("erase_key")
        /\ faults' = faults + 1
        /\ Return(t, FALSE)
        /\ UNCHANGED <<blob, claim>>
     \/ /\ blob' = [blob EXCEPT ![req[t].id] = None]
        /\ claim' = [claim EXCEPT ![req[t].id] = IF @ \in Rec THEN NoClaim ELSE @]
        /\ GoTo(t, "clear_bmp")
        /\ UNCHANGED <<lock, req, faults>>
  /\ UNCHANGED <<bmp, list, crashes>>

\* Mutant: the bitmap is written back as it was read.
NotCleared(old, id) == old

Cleared(old, id) == old \ {id}

ClearBmp(t) ==
  /\ pc[t] = "clear_bmp"
  /\ \E old \in SUBSET Slot, cost \in {0, 1} :
       /\ BmpRead(old, cost)
       /\ \/ /\ bmp' = Cleared(old, req[t].id) /\ faults' = faults + cost
             /\ GoTo(t, "commit_delete")
             /\ UNCHANGED <<lock, req>>
          \/ /\ MayFail("set_u32") /\ cost = 0
             /\ faults' = faults + 1
             /\ Return(t, FALSE)
             /\ UNCHANGED bmp
  /\ UNCHANGED <<blob, list, claim, crashes>>

DeleteCommit(t) ==
  /\ pc[t] = "commit_delete"
  /\ \/ /\ Return(t, TRUE)
        /\ claim' = [claim EXCEPT ![req[t].id] = Gone]
        /\ UNCHANGED faults
     \/ /\ MayFail("commit")
        /\ Return(t, FALSE)
        /\ faults' = faults + 1
        /\ UNCHANGED claim
  /\ UNCHANGED <<nvs, list, crashes>>

(***************************************************************************)
(* group_list_json: load and serialise from the shared buffer              *)
(***************************************************************************)

\* Mutant: only grp_load_all itself is locked.
ReleasedAfterLoad(t) == None

\* The mutex between grp_load_all and the serialise loop: still the task's.
HeldWhileSerialising(t) == t

\* A record whose blob does not read back is left out of the listing.
Load(t) ==
  /\ pc[t] = "load"
  /\ \/ all' = Listing /\ UNCHANGED faults
     \/ /\ MayFail("open")
        /\ all' = Empty /\ faults' = faults + 1
     \/ /\ MayFail("get_blob")
        /\ \E i \in Slot : all' = [Listing EXCEPT ![i] = None]
        /\ faults' = faults + 1
  /\ snap' = [snap EXCEPT ![t] = all']
  /\ lock' = HeldWhileSerialising(t)
  /\ GoTo(t, "serialise")
  /\ UNCHANGED <<nvs, req, rows, claim, crashes>>

\* What all[] holds afterwards is not kept: it is read nowhere else before the
\* next grp_load_all has filled it again.
Serialise(t) ==
  /\ pc[t] = "serialise"
  /\ rows' = [rows EXCEPT ![t] = Serialised(all)]
  /\ all' = Empty
  /\ Return(t, TRUE)
  /\ UNCHANGED <<nvs, snap, claim, faults, crashes>>

(***************************************************************************)
(* The answer, and a reset                                                 *)
(***************************************************************************)

Reply(t) ==
  /\ pc[t] = "reply"
  /\ GoTo(t, "idle")
  /\ req' = [req EXCEPT ![t] = IdleReq]
  /\ snap' = [snap EXCEPT ![t] = Empty]
  /\ rows' = [rows EXCEPT ![t] = NoReply]
  /\ UNCHANGED <<nvs, lock, all, claim, faults, crashes>>

\* A reset: RAM starts over, NVS keeps every completed write.
Crash ==
  /\ crashes < MaxCrashes
  /\ crashes' = crashes + 1
  /\ lock' = None
  /\ pc' = [t \in Tasks |-> "idle"]
  /\ req' = [t \in Tasks |-> IdleReq]
  /\ all' = Empty
  /\ snap' = [t \in Tasks |-> Empty]
  /\ rows' = [t \in Tasks |-> NoReply]
  /\ UNCHANGED <<nvs, claim, faults>>

Init ==
  /\ bmp = {}
  /\ blob = [i \in Slot |-> None]
  /\ lock = None
  /\ pc = [t \in Tasks |-> "idle"]
  /\ req = [t \in Tasks |-> IdleReq]
  /\ all = Empty
  /\ snap = [t \in Tasks |-> Empty]
  /\ rows = [t \in Tasks |-> NoReply]
  /\ claim = [i \in Slot |-> NoClaim]
  /\ faults = 0
  /\ crashes = 0

\* Everything a task does before it answers.
StoreStep(t) ==
  \/ NextId(t) \/ SaveBlob(t) \/ SaveBmp(t) \/ SaveCommit(t)
  \/ Find(t)
  \/ EraseBlob(t) \/ ClearBmp(t) \/ DeleteCommit(t)
  \/ Load(t) \/ Serialise(t)

Next ==
  \/ \E t \in Tasks : Request(t) \/ Acquire(t) \/ StoreStep(t) \/ Reply(t)
  \/ Crash

Spec == Init /\ [][Next]_vars

\* A running task keeps running, and a mutex that is given again and again is
\* in the end given to the task that waits for it.  No client has to ask.
Fairness == \A t \in Tasks : /\ WF_vars(StoreStep(t))
                             /\ WF_vars(Reply(t))
                             /\ SF_vars(Acquire(t))

FairSpec == Spec /\ Fairness

(***************************************************************************)
(* Properties                                                              *)
(***************************************************************************)

\* Every variable is of its type: a step is taken only with what it needs, an
\* id that names a slot above all.
TypeOK ==
  /\ bmp \subseteq Slot
  /\ blob \in Listings
  /\ lock \in Tasks \cup {None}
  /\ pc \in [Tasks -> Steps]
  /\ req \in [Tasks -> Req]
  /\ all \in Listings
  /\ snap \in [Tasks -> Listings]
  /\ rows \in [Tasks -> Texts]
  /\ claim \in [Slot -> Rec \cup {NoClaim, Gone}]
  /\ faults \in 0..MaxFaults
  /\ crashes \in 0..MaxCrashes

\* A group whose create or update was answered with success stays listed with
\* that content, across concurrent requests, resets and failed NVS calls, until
\* an update or delete of that very group starts writing (grp_create, grp_save:
\* "clobber each other", groups_store.cpp:20-31).
AckedGroupKept ==
  \A i \in Slot : claim[i] \in Rec => i \in bmp /\ blob[i] = claim[i]

\* A blob that no bit covers, or a bit that covers no blob, is left behind only
\* by an error or a reset: before the first of those, whoever holds the mutex is
\* still working on that slot, so group.get (blobs) and group.list (bitmap and
\* blobs) agree on what exists (groups_store.cpp:139-141).
DivergenceIsMidOperation ==
  faults = 0 /\ crashes = 0 =>
    \A i \in Slot : (i \in bmp) # (blob[i] # None) =>
      \E t \in Tasks : lock = t /\ req[t].id = i /\ pc[t] \in {"set_bmp", "clear_bmp"}

\* The list a client is sent is the one its own request loaded, not one that
\* another task put into the shared buffer meanwhile (groups_store.cpp:42-47):
\* what can be read of it is what was loaded, all of it when the rows and the end
\* fit their buffers.  A list that does not fit cannot be taken for a whole one,
\* but where the only group there is does not fit its row (api_groups.cpp:51-55).
ListIsSnapshot ==
  \A t \in Tasks : pc[t] = "reply" /\ req[t].op = "list" =>
    /\ \A i \in Slot : rows[t].at[i] \in {None, snap[t][i]}
    /\ AllFits(snap[t]) => rows[t].whole /\ rows[t].at = snap[t]
    /\ rows[t].whole /\ rows[t].at # snap[t] => \E i \in Slot : Used(snap[t]) = {i}

\* Every group request is answered (or dies with a reset): no operation keeps
\* the mutex, on its error paths too, that the other task waits for.
RequestIsAnswered == \A t \in Tasks : pc[t] # "idle" ~> pc[t] = "idle"
==============================================================================
