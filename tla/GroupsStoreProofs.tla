-------------------------- MODULE GroupsStoreProofs --------------------------
(***************************************************************************)
(* What the store of GroupsStore guarantees for every set of tasks, table  *)
(* size, name and member list.                                             *)
(***************************************************************************)
EXTENDS GroupsPush, TLAPS

(***************************************************************************)
(* The inductive invariant                                                 *)
(***************************************************************************)

\* Only the holder of the store mutex is inside a store operation.
LockInv == \A t \in Tasks : pc[t] \in Critical => lock = t

\* What a task's request looks like at each of its steps.
ReqInv ==
  \A t \in Tasks :
    /\ pc[t] = "lock" => req[t].op \in AllOps
    /\ pc[t] = "lock" /\ req[t].op = "create" => req[t].rec \in Rec
    /\ pc[t] = "lock" /\ req[t].op = "delete" => req[t].id \in Slot
    /\ pc[t] = "next_id" => req[t].op = "create" /\ req[t].rec \in Rec
    /\ pc[t] = "find" => req[t].op \in {"get", "update"}
    /\ pc[t] \in {"relock", "set_blob", "set_bmp", "commit"} =>
         req[t].id \in Slot /\ req[t].rec \in Rec /\ req[t].op \in {"create", "update"}
    /\ pc[t] = "relock" => req[t].op = "update"
    /\ pc[t] \in {"erase", "clear_bmp", "commit_delete"} =>
         req[t].id \in Slot /\ req[t].op = "delete"

\* The blob of the slot that the operation under the mutex is working on.
BlobInv ==
  \A t \in Tasks :
    /\ pc[t] \in {"set_bmp", "commit"} => blob[req[t].id] = req[t].rec
    /\ pc[t] = "clear_bmp" => blob[req[t].id] = None /\ claim[req[t].id] \notin Rec

\* Its bit, as long as every read and write of the bitmap succeeds.
BitInv ==
  \A t \in Tasks :
    /\ pc[t] = "commit" => req[t].id \in bmp
    /\ pc[t] = "set_blob" /\ req[t].op = "create" => req[t].id \notin bmp

\* The part that holds whatever fails.
BaseInv == TypeOK /\ LockInv /\ ReqInv /\ BlobInv

\* No call that reads or writes the bitmap fails.
BitmapIsReliable == Faults \cap {"open", "get_u32", "set_u32"} = {}

(***************************************************************************)
(* Type correctness                                                        *)
(***************************************************************************)

\* The empty store of the first boot is well typed.
LEMMA TypeInit == Init => TypeOK
<1> USE GroupsAssumption DEF Init, TypeOK
<1>1. IdleReq \in Req
  BY DEF IdleReq, Req, Ids, Slot, AllOps, Rec
<1>2. /\ [i \in Slot |-> None] \in Listings
      /\ Empty \in Listings /\ NoReply \in Texts
  BY DEF Listings, Empty, NoReply, Texts
<1>3. QED
  BY <1>1, <1>2 DEF Steps, Critical

\* The error budget of a step.
OneErrorAtMost ==
  \/ faults' = faults
  \/ faults < MaxFaults /\ faults' = faults + 1

\* The number of errors so far stays within its bound.
LEMMA ErrorType ==
  ASSUME TypeOK, OneErrorAtMost
  PROVE  faults' \in 0..MaxFaults
BY GroupsAssumption DEF TypeOK, OneErrorAtMost

\* The way out of an operation keeps the state typed, whatever it answers.
LEMMA ReturnType ==
  ASSUME TypeOK, NEW t \in Tasks, NEW ok \in BOOLEAN, Return(t, ok)
  PROVE  /\ lock' \in Tasks \cup {None}
         /\ pc' \in [Tasks -> Steps]
         /\ req' \in [Tasks -> Req]
BY DEF TypeOK, Return, Steps, Critical, Req, Ids, Slot

\* grp_next_id and grp_save keep the state typed.
LEMMA TypeSave ==
  ASSUME TypeOK, NEW t \in Tasks, ReqInv,
         NextId(t) \/ SaveBlob(t) \/ SaveBmp(t) \/ SaveCommit(t)
  PROVE  TypeOK'
<1> USE GroupsAssumption
<1>1. CASE NextId(t)
  <2>1. PICK used \in SUBSET Slot, cost \in {0, 1} :
          /\ \/ BmpRead(used, cost)
             \/ used = {} /\ cost = 1 /\ MayFail("open")
          /\ faults' = faults + cost
          /\ \/ used = Slot /\ Return(t, FALSE)
             \/ \E id \in Ids : /\ LowestFree(id, used)
                                /\ req' = [req EXCEPT ![t].id = id]
                                /\ AllocKeepsLock(t)
    BY <1>1, Zenon DEF NextId
  <2>2. faults' \in 0..MaxFaults
    BY <2>1 DEF BmpRead, MayFail, TypeOK
  <2>3. CASE used = Slot /\ Return(t, FALSE)
    BY <1>1, <2>2, <2>3, ReturnType DEF NextId, nvs, list, TypeOK
  <2>4. CASE \E id \in Ids : /\ LowestFree(id, used)
                             /\ req' = [req EXCEPT ![t].id = id]
                             /\ AllocKeepsLock(t)
    <3>1. req' \in [Tasks -> Req]
      BY <2>4 DEF TypeOK, Req
    <3>2. pc' \in [Tasks -> Steps]
      BY <2>4 DEF TypeOK, AllocKeepsLock, GoTo, Steps, Critical
    <3>3. QED
      BY <1>1, <2>2, <2>4, <3>1, <3>2 DEF NextId, AllocKeepsLock, nvs, list, TypeOK
  <2>5. QED BY <2>1, <2>3, <2>4
<1>2. CASE SaveBlob(t)
  <2>1. CASE /\ MayFail("open") \/ MayFail("set_blob")
             /\ faults' = faults + 1
             /\ Return(t, FALSE)
             /\ UNCHANGED <<bmp, blob, list, claim, crashes>>
    <3>1. faults' \in 0..MaxFaults
      BY <2>1 DEF MayFail, TypeOK
    <3>2. QED BY <2>1, <3>1, ReturnType DEF TypeOK, list
  <2>2. CASE /\ blob' = [blob EXCEPT ![req[t].id] = req[t].rec]
             /\ claim' = [claim EXCEPT ![req[t].id] = AfterWriting(req[t].op, @)]
             /\ GoTo(t, "set_bmp")
             /\ UNCHANGED <<bmp, lock, req, list, faults, crashes>>
    <3>1. blob' \in Listings
      BY <1>2, <2>2 DEF SaveBlob, ReqInv, TypeOK, Listings
    <3>2. claim' \in [Slot -> Rec \cup {NoClaim, Gone}]
      BY <2>2 DEF AfterWriting, TypeOK
    <3>3. pc' \in [Tasks -> Steps]
      BY <2>2 DEF TypeOK, GoTo, Steps, Critical
    <3>4. QED BY <2>2, <3>1, <3>2, <3>3 DEF TypeOK, list
  <2>3. QED BY <1>2, <2>1, <2>2 DEF SaveBlob
<1>3. CASE SaveBmp(t)
  <2>1. bmp' \subseteq Slot
    BY <1>3 DEF SaveBmp, ReqInv, TypeOK
  <2>2. faults' \in 0..MaxFaults
    BY <1>3 DEF SaveBmp, BmpRead, MayFail, TypeOK
  <2>3. pc' \in [Tasks -> Steps]
    BY <1>3 DEF SaveBmp, GoTo, TypeOK, Steps, Critical
  <2>4. QED BY <1>3, <2>1, <2>2, <2>3 DEF SaveBmp, TypeOK, list
<1>4. CASE SaveCommit(t)
  <2>1. faults' \in 0..MaxFaults
    <3>1. OneErrorAtMost
      BY <1>4 DEF SaveCommit, MayFail, OneErrorAtMost
    <3>2. QED BY <3>1, ErrorType
  <2>2. claim' \in [Slot -> Rec \cup {NoClaim, Gone}]
    BY <1>4 DEF SaveCommit, ReqInv, TypeOK
  <2>3. Return(t, TRUE) \/ Return(t, FALSE)
    BY <1>4 DEF SaveCommit
  <2>4. lock' \in Tasks \cup {None} /\ pc' \in [Tasks -> Steps] /\ req' \in [Tasks -> Req]
    BY <2>3, ReturnType
  <2>5. QED BY <1>4, <2>1, <2>2, <2>4 DEF SaveCommit, TypeOK, nvs, list
<1>5. QED BY <1>1, <1>2, <1>3, <1>4

\* grp_find and grp_delete keep the state typed.
LEMMA TypeFindDelete ==
  ASSUME TypeOK, NEW t \in Tasks, ReqInv,
         Find(t) \/ EraseBlob(t) \/ ClearBmp(t) \/ DeleteCommit(t)
  PROVE  TypeOK'
<1> USE GroupsAssumption
<1>1. CASE Find(t)
  <2>1. faults' \in 0..MaxFaults
    <3>1. OneErrorAtMost
      BY <1>1 DEF Find, MayFail, OneErrorAtMost
    <3>2. QED BY <3>1, ErrorType
  <2>2. CASE Return(t, TRUE) \/ Return(t, FALSE)
    <3>1. lock' \in Tasks \cup {None} /\ pc' \in [Tasks -> Steps] /\ req' \in [Tasks -> Req]
      BY <2>2, ReturnType
    <3>2. QED BY <1>1, <2>1, <3>1 DEF Find, TypeOK, nvs, list
  <2>3. CASE /\ Found(req[t].id)
             /\ req' = [req EXCEPT ![t].rec = Merged(req[t], blob[req[t].id])]
             /\ lock' = None
             /\ GoTo(t, "relock")
    <3>1. Merged(req[t], blob[req[t].id]) \in Rec
      <4>1. blob[req[t].id] \in Rec
        BY <2>3 DEF Found, TypeOK, Listings
      <4>2. req[t].name \in Names \cup {None} /\ req[t].members \in Members \cup {None}
        BY DEF TypeOK, Req
      <4>3. QED BY <4>1, <4>2 DEF Merged, Rec
    <3>2. req' \in [Tasks -> Req]
      BY <2>3, <3>1 DEF TypeOK, Req
    <3>3. pc' \in [Tasks -> Steps]
      BY <2>3 DEF TypeOK, GoTo, Steps, Critical
    <3>4. QED BY <1>1, <2>1, <2>3, <3>2, <3>3 DEF Find, TypeOK, nvs, list
  <2>4. QED BY <1>1, <2>2, <2>3 DEF Find
<1>2. CASE EraseBlob(t)
  <2>1. faults' \in 0..MaxFaults
    <3>1. OneErrorAtMost
      BY <1>2 DEF EraseBlob, MayFail, OneErrorAtMost
    <3>2. QED BY <3>1, ErrorType
  <2>2. CASE Return(t, FALSE) /\ UNCHANGED <<blob, claim>>
    BY <1>2, <2>1, <2>2, ReturnType DEF EraseBlob, TypeOK, list
  <2>3. CASE /\ blob' = [blob EXCEPT ![req[t].id] = None]
             /\ claim' = [claim EXCEPT ![req[t].id] = IF @ \in Rec THEN NoClaim ELSE @]
             /\ GoTo(t, "clear_bmp")
             /\ UNCHANGED <<lock, req, faults>>
    <3>1. blob' \in Listings /\ claim' \in [Slot -> Rec \cup {NoClaim, Gone}]
      BY <2>3 DEF TypeOK, Listings
    <3>2. pc' \in [Tasks -> Steps]
      BY <2>3 DEF TypeOK, GoTo, Steps, Critical
    <3>3. QED BY <1>2, <2>1, <2>3, <3>1, <3>2 DEF EraseBlob, TypeOK, list
  <2>4. QED BY <1>2, <2>2, <2>3 DEF EraseBlob
<1>3. CASE ClearBmp(t)
  <2>1. faults' \in 0..MaxFaults
    <3>1. PICK old \in SUBSET Slot, cost \in {0, 1} :
            /\ BmpRead(old, cost)
            /\ \/ /\ bmp' = Cleared(old, req[t].id) /\ faults' = faults + cost
                  /\ GoTo(t, "commit_delete")
                  /\ UNCHANGED <<lock, req>>
               \/ /\ MayFail("set_u32") /\ cost = 0
                  /\ faults' = faults + 1
                  /\ Return(t, FALSE)
                  /\ UNCHANGED bmp
      BY <1>3, Zenon DEF ClearBmp
    <3>2. faults \in 0..MaxFaults /\ MaxFaults \in Nat
      BY DEF TypeOK
    <3>3. cost = 0 \/ (cost = 1 /\ faults < MaxFaults)
      BY <3>1 DEF BmpRead, MayFail
    <3>4. \/ faults' = faults + cost
          \/ cost = 0 /\ faults < MaxFaults /\ faults' = faults + 1
      BY <3>1 DEF MayFail
    <3>5. OneErrorAtMost
      BY <3>2, <3>3, <3>4 DEF OneErrorAtMost
    <3>6. QED BY <3>5, ErrorType
  <2>2. bmp' \subseteq Slot
    BY <1>3 DEF ClearBmp, Cleared, TypeOK
  <2>3. CASE Return(t, FALSE)
    BY <1>3, <2>1, <2>2, <2>3, ReturnType DEF ClearBmp, TypeOK, list
  <2>4. CASE GoTo(t, "commit_delete") /\ UNCHANGED <<lock, req>>
    <3>1. pc' \in [Tasks -> Steps]
      BY <2>4 DEF TypeOK, GoTo, Steps, Critical
    <3>2. QED BY <1>3, <2>1, <2>2, <2>4, <3>1 DEF ClearBmp, TypeOK, list
  <2>5. QED BY <1>3, <2>3, <2>4 DEF ClearBmp
<1>4. CASE DeleteCommit(t)
  <2>1. faults' \in 0..MaxFaults
    <3>1. OneErrorAtMost
      BY <1>4 DEF DeleteCommit, MayFail, OneErrorAtMost
    <3>2. QED BY <3>1, ErrorType
  <2>2. claim' \in [Slot -> Rec \cup {NoClaim, Gone}]
    BY <1>4 DEF DeleteCommit, TypeOK
  <2>3. Return(t, TRUE) \/ Return(t, FALSE)
    BY <1>4 DEF DeleteCommit
  <2>4. lock' \in Tasks \cup {None} /\ pc' \in [Tasks -> Steps] /\ req' \in [Tasks -> Req]
    BY <2>3, ReturnType
  <2>5. QED BY <1>4, <2>1, <2>2, <2>4 DEF DeleteCommit, TypeOK, nvs, list
<1>5. QED BY <1>1, <1>2, <1>3, <1>4

\* What grp_load_all reads and group_list_json writes are listings.
LEMMA ListingType ==
  ASSUME TypeOK
  PROVE  /\ Listing \in Listings
         /\ Empty \in Listings /\ NoReply \in Texts
         /\ \A i \in Slot : [Listing EXCEPT ![i] = None] \in Listings
         /\ \A l \in Listings : Serialised(l) \in Texts
<1>1. Listing \in Listings /\ Empty \in Listings
      /\ \A i \in Slot : [Listing EXCEPT ![i] = None] \in Listings
  BY DEF TypeOK, Listing, Listings, Empty
<1>2. NoReply \in Texts
  BY <1>1 DEF NoReply, Texts
<1>3. ASSUME NEW l \in Listings
      PROVE  Serialised(l) \in Texts
  <2> DEFINE at == [i \in Slot |-> IF \A j \in Used(l) : j <= i => RowFits(l, j)
                                   THEN l[i] ELSE None]
             whole == AllFits(l) \/ \E i \in Slot : Used(l) = {i} /\ ~ RowFits(l, i)
  <2>1. at \in Listings
    BY DEF Listings
  <2>2. whole \in BOOLEAN
    BY Zenon DEF AllFits
  <2>3. Serialised(l) = [at |-> at, whole |-> whole]
    BY DEF Serialised
  <2> HIDE DEF at, whole
  <2>4. QED BY <2>1, <2>2, <2>3 DEF Texts
<1>4. QED BY <1>1, <1>2, <1>3

\* group_list_json keeps the state typed.
LEMMA TypeList ==
  ASSUME TypeOK, NEW t \in Tasks, Load(t) \/ Serialise(t)
  PROVE  TypeOK'
<1> USE GroupsAssumption
<1>1. CASE Load(t)
  <2>1. all' \in Listings /\ faults' \in 0..MaxFaults
    <3>1. OneErrorAtMost
      BY <1>1 DEF Load, MayFail, OneErrorAtMost
    <3>2. all' \in Listings
      BY <1>1, ListingType DEF Load
    <3>3. QED BY <3>1, <3>2, ErrorType
  <2>2. snap' \in [Tasks -> Listings]
    BY <1>1, <2>1 DEF Load, TypeOK
  <2>3. pc' \in [Tasks -> Steps]
    BY <1>1 DEF Load, TypeOK, GoTo, Steps, Critical
  <2>4. QED BY <1>1, <2>1, <2>2, <2>3 DEF Load, HeldWhileSerialising, TypeOK, nvs
<1>2. CASE Serialise(t)
  <2>1. rows' \in [Tasks -> Texts]
    BY <1>2, ListingType DEF Serialise, TypeOK
  <2>2. Return(t, TRUE) /\ all' \in Listings
    BY <1>2, ListingType DEF Serialise
  <2>3. lock' \in Tasks \cup {None} /\ pc' \in [Tasks -> Steps] /\ req' \in [Tasks -> Req]
    BY <2>2, ReturnType
  <2>4. QED BY <1>2, <2>1, <2>2, <2>3 DEF Serialise, TypeOK, nvs
<1>3. QED BY <1>1, <1>2

\* Taking a request, taking the mutex, answering and a reset keep it typed.
LEMMA TypeFrame ==
  ASSUME TypeOK,
         Crash \/ \E t \in Tasks : Request(t) \/ Acquire(t) \/ Reply(t)
  PROVE  TypeOK'
<1> USE GroupsAssumption
<1>0. IdleReq \in Req
  BY DEF IdleReq, Req, Ids, Slot, AllOps
<1>1. CASE Crash
  <2>1. crashes' \in 0..MaxCrashes
    BY <1>1 DEF Crash, TypeOK
  <2>2. all' \in Listings /\ snap' \in [Tasks -> Listings]
        /\ rows' \in [Tasks -> Texts]
    BY <1>1, ListingType DEF Crash
  <2>3. req' \in [Tasks -> Req] /\ pc' \in [Tasks -> Steps]
    BY <1>0, <1>1 DEF Crash, Steps
  <2>4. QED BY <1>1, <2>1, <2>2, <2>3 DEF Crash, TypeOK, nvs
<1>2. ASSUME NEW t \in Tasks, Request(t)
      PROVE  TypeOK'
  <2>1. PICK r \in Requests :
          /\ req' = [req EXCEPT ![t] = r]
          /\ GoTo(t, IF r.op = "delete" /\ r.id \notin Slot THEN "reply" ELSE "lock")
    BY <1>2, Zenon DEF Request
  <2>2. req' \in [Tasks -> Req]
    BY <2>1 DEF Requests, TypeOK
  <2>3. pc' \in [Tasks -> Steps]
    BY <2>1 DEF GoTo, TypeOK, Steps
  <2>4. QED BY <1>2, <2>2, <2>3 DEF Request, TypeOK, nvs, list
<1>3. ASSUME NEW t \in Tasks, Acquire(t)
      PROVE  TypeOK'
  <2>1. pc' \in [Tasks -> Steps]
    BY <1>3 DEF Acquire, GoTo, FirstStep, TypeOK, Steps, Critical
  <2>2. QED BY <1>3, <2>1 DEF Acquire, TypeOK, nvs, list
<1>4. ASSUME NEW t \in Tasks, Reply(t)
      PROVE  TypeOK'
  <2>1. req' \in [Tasks -> Req] /\ pc' \in [Tasks -> Steps]
    BY <1>0, <1>4 DEF Reply, GoTo, TypeOK, Steps
  <2>2. snap' \in [Tasks -> Listings] /\ rows' \in [Tasks -> Texts]
    BY <1>4, ListingType DEF Reply, TypeOK
  <2>3. QED BY <1>4, <2>1, <2>2 DEF Reply, TypeOK, nvs
<1>5. QED BY <1>1, <1>2, <1>3, <1>4

(***************************************************************************)
(* The part that holds whatever fails                                      *)
(***************************************************************************)

\* Every step is one of one task, or a reset.
LEMMA StepOfOneTask ==
  ASSUME Next
  PROVE  \/ Crash
         \/ \E t \in Tasks : Request(t) \/ Acquire(t) \/ StoreStep(t) \/ Reply(t)
BY Zenon DEF Next

\* Every step keeps the state typed.
LEMMA TypeStep ==
  ASSUME TypeOK, ReqInv, [Next]_vars
  PROVE  TypeOK'
<1>1. CASE UNCHANGED vars
  BY <1>1 DEF vars, TypeOK
<1>2. CASE Crash \/ \E t \in Tasks : Request(t) \/ Acquire(t) \/ Reply(t)
  BY <1>2, TypeFrame
<1>3. ASSUME NEW t \in Tasks, StoreStep(t)
      PROVE  TypeOK'
  BY <1>3, TypeSave, TypeFindDelete, TypeList DEF StoreStep
<1>4. QED BY <1>1, <1>2, <1>3, StepOfOneTask

\* Mutual exclusion is kept: a task enters an operation only with the mutex
\* free, and gives it back when it leaves.
LEMMA LockStep ==
  ASSUME TypeOK, LockInv, [Next]_vars
  PROVE  LockInv'
<1> USE GroupsAssumption DEF LockInv
<1>0. pc \in [Tasks -> Steps]
  BY DEF TypeOK
<1>1. CASE UNCHANGED vars
  BY <1>1 DEF vars
<1>2. CASE Crash
  BY <1>2 DEF Crash, Critical
<1>3. ASSUME NEW t \in Tasks, Request(t)
      PROVE  LockInv'
  <2>1. lock' = lock /\ \E step \in {"reply", "lock"} : GoTo(t, step)
    BY <1>3 DEF Request
  <2>2. QED BY <1>0, <2>1 DEF GoTo, Critical
<1>4. ASSUME NEW t \in Tasks, Acquire(t)
      PROVE  LockInv'
  BY <1>0, <1>4 DEF Acquire, GoTo
<1>5. ASSUME NEW t \in Tasks, Reply(t)
      PROVE  LockInv'
  BY <1>0, <1>5 DEF Reply, GoTo, Critical
<1>6. ASSUME NEW t \in Tasks, StoreStep(t)
      PROVE  LockInv'
  <2>1. pc[t] \in Critical /\ lock = t
    BY <1>6 DEF StoreStep, NextId, SaveBlob, SaveBmp, SaveCommit, Find, EraseBlob, ClearBmp,
                DeleteCommit, Load, Serialise, Critical
  <2>2. \A u \in Tasks \ {t} : pc[u] \notin Critical
    BY <2>1
  <2>3. \/ lock' = None /\ \E step \in {"reply", "relock"} : GoTo(t, step)
        \/ lock' = t /\ \E step \in Critical : GoTo(t, step)
    <3>1. CASE NextId(t)
      BY <2>1, <3>1 DEF NextId, Return, AllocKeepsLock, GoTo, Critical
    <3>2. CASE SaveBlob(t)
      BY <2>1, <3>2 DEF SaveBlob, Return, GoTo, Critical
    <3>3. CASE SaveBmp(t)
      BY <2>1, <3>3 DEF SaveBmp, GoTo, Critical
    <3>4. CASE SaveCommit(t)
      BY <2>1, <3>4 DEF SaveCommit, Return, GoTo
    <3>5. CASE Find(t)
      BY <2>1, <3>5 DEF Find, Return, GoTo
    <3>6. CASE EraseBlob(t)
      BY <2>1, <3>6 DEF EraseBlob, Return, GoTo, Critical
    <3>7. CASE ClearBmp(t)
      BY <2>1, <3>7 DEF ClearBmp, Return, GoTo, Critical
    <3>8. CASE DeleteCommit(t)
      BY <2>1, <3>8 DEF DeleteCommit, Return, GoTo
    <3>9. CASE Load(t)
      BY <2>1, <3>9 DEF Load, HeldWhileSerialising, GoTo, Critical
    <3>10. CASE Serialise(t)
      BY <2>1, <3>10 DEF Serialise, Return, GoTo
    <3>11. QED BY <1>6, <3>1, <3>2, <3>3, <3>4, <3>5, <3>6, <3>7, <3>8, <3>9, <3>10 DEF StoreStep
  <2>4. QED BY <1>0, <2>2, <2>3 DEF GoTo, Critical
<1>7. QED BY <1>1, <1>2, <1>3, <1>4, <1>5, <1>6, StepOfOneTask

\* The acting task alone changes its request and its step.
OthersWait(t) ==
  \A u \in Tasks \ {t} : pc'[u] = pc[u] /\ req'[u] = req[u]

\* A task holding the mutex moves on inside its operation, keeping its request;
\* or it is through with it; or an update has its merged record and waits for
\* the mutex a second time.
StoreMove(t) ==
  \/ pc[t] = "next_id" /\ pc'[t] = "set_blob" /\ req'[t].op = req[t].op
                       /\ req'[t].rec = req[t].rec /\ req'[t].id \in Slot
  \/ pc[t] = "set_blob" /\ pc'[t] = "set_bmp" /\ req'[t] = req[t]
  \/ pc[t] = "set_bmp" /\ pc'[t] = "commit" /\ req'[t] = req[t]
  \/ pc[t] = "erase" /\ pc'[t] = "clear_bmp" /\ req'[t] = req[t]
  \/ pc[t] = "clear_bmp" /\ pc'[t] = "commit_delete" /\ req'[t] = req[t]
  \/ pc[t] = "load" /\ pc'[t] = "serialise" /\ req'[t] = req[t]
  \/ pc[t] = "find" /\ pc'[t] = "relock" /\ req'[t].op = "update"
                    /\ req'[t].rec \in Rec /\ req'[t].id \in Slot
  \/ pc'[t] = "reply"

\* How a store step moves its task.
LEMMA StoreMoves ==
  ASSUME TypeOK, ReqInv, NEW t \in Tasks, StoreStep(t)
  PROVE  OthersWait(t) /\ StoreMove(t)
<1>0. pc \in [Tasks -> Steps] /\ req \in [Tasks -> Req]
  BY DEF TypeOK
<1>a. ASSUME NEW ok \in BOOLEAN, Return(t, ok)
      PROVE  OthersWait(t) /\ StoreMove(t)
  BY <1>0, <1>a DEF Return, OthersWait, StoreMove
<1>b. ASSUME NEW step \in Steps, GoTo(t, step)
      PROVE  pc'[t] = step /\ \A u \in Tasks \ {t} : pc'[u] = pc[u]
  BY <1>0, <1>b DEF GoTo
<1> USE <1>0
<1>1. CASE NextId(t)
  <2>1. CASE Return(t, FALSE)
    BY <2>1, <1>a
  <2>2. CASE \E used \in SUBSET Slot, id \in Ids :
               /\ LowestFree(id, used)
               /\ req' = [req EXCEPT ![t].id = id]
               /\ AllocKeepsLock(t)
    <3>1. PICK id \in Slot : req' = [req EXCEPT ![t].id = id]
      BY <2>2 DEF LowestFree
    <3>2. /\ req'[t].op = req[t].op /\ req'[t].rec = req[t].rec /\ req'[t].id = id
          /\ \A u \in Tasks \ {t} : req'[u] = req[u]
      BY <3>1 DEF Req
    <3>3. QED BY <1>1, <1>b, <2>2, <3>2 DEF NextId, AllocKeepsLock, OthersWait, StoreMove, Steps, Critical
  <2>3. QED BY <1>1, <2>1, <2>2, Zenon DEF NextId
<1>2. CASE SaveBlob(t)
  BY <1>2, <1>a, <1>b DEF SaveBlob, OthersWait, StoreMove, Steps, Critical
<1>3. CASE SaveBmp(t)
  BY <1>3, <1>b DEF SaveBmp, OthersWait, StoreMove, Steps, Critical
<1>4. CASE SaveCommit(t)
  BY <1>4, <1>a DEF SaveCommit
<1>5. CASE Find(t)
  <2>1. CASE Return(t, TRUE) \/ Return(t, FALSE)
    BY <2>1, <1>a
  <2>2. CASE /\ Found(req[t].id) /\ req[t].op = "update"
             /\ req' = [req EXCEPT ![t].rec = Merged(req[t], blob[req[t].id])]
             /\ GoTo(t, "relock")
    <3>2. /\ req'[t].op = "update" /\ req'[t].id \in Slot
          /\ req'[t].rec = Merged(req[t], blob[req[t].id])
          /\ \A u \in Tasks \ {t} : req'[u] = req[u]
      BY <2>2 DEF Found, Req
    <3>3. Merged(req[t], blob[req[t].id]) \in Rec
      <4>1. blob[req[t].id] \in Rec
        BY <2>2 DEF Found, TypeOK, Listings
      <4>2. req[t].name \in Names \cup {None} /\ req[t].members \in Members \cup {None}
        BY DEF Req
      <4>3. QED BY <4>1, <4>2 DEF Merged, Rec
    <3>4. QED BY <1>5, <1>b, <2>2, <3>2, <3>3 DEF Find, OthersWait, StoreMove, Steps
  <2>3. QED BY <1>5, <2>1, <2>2 DEF Find
<1>6. CASE EraseBlob(t)
  BY <1>6, <1>a, <1>b DEF EraseBlob, OthersWait, StoreMove, Steps, Critical
<1>7. CASE ClearBmp(t)
  BY <1>7, <1>a, <1>b DEF ClearBmp, OthersWait, StoreMove, Steps, Critical
<1>8. CASE DeleteCommit(t)
  BY <1>8, <1>a DEF DeleteCommit
<1>9. CASE Load(t)
  BY <1>9, <1>b DEF Load, OthersWait, StoreMove, Steps, Critical
<1>10. CASE Serialise(t)
  BY <1>10, <1>a DEF Serialise
<1>11. QED BY <1>1, <1>2, <1>3, <1>4, <1>5, <1>6, <1>7, <1>8, <1>9, <1>10 DEF StoreStep

\* Every step keeps a request fit for the step its task is at.
LEMMA ReqStep ==
  ASSUME TypeOK, ReqInv, [Next]_vars
  PROVE  ReqInv'
<1>0. pc \in [Tasks -> Steps] /\ req \in [Tasks -> Req]
  BY DEF TypeOK
<1>1. CASE UNCHANGED vars
  BY <1>1 DEF vars, ReqInv, Slot
<1>2. CASE Crash
  BY <1>2 DEF Crash, ReqInv
<1>3. ASSUME NEW t \in Tasks, Request(t)
      PROVE  ReqInv'
  <2>1. PICK r \in Requests :
          /\ req' = [req EXCEPT ![t] = r]
          /\ GoTo(t, IF r.op = "delete" /\ r.id \notin Slot THEN "reply" ELSE "lock")
    BY <1>3, Zenon DEF Request
  <2>2. r.op \in AllOps /\ (r.op = "create" => r.rec \in Rec)
    BY GroupsAssumption DEF Requests
  <2>3. \A u \in Tasks : u # t => pc'[u] = pc[u] /\ req'[u] = req[u]
    BY <1>0, <2>1 DEF GoTo
  <2>4. /\ req'[t] = r
        /\ pc'[t] = "lock" \/ pc'[t] = "reply"
        /\ pc'[t] = "lock" /\ r.op = "delete" => r.id \in Slot
    BY <1>0, <2>1 DEF GoTo
  <2>5. QED BY <2>2, <2>3, <2>4 DEF ReqInv, Slot
<1>4. ASSUME NEW t \in Tasks, Acquire(t)
      PROVE  ReqInv'
  <2>1. req' = req
    BY <1>4 DEF Acquire
  <2>2. \A u \in Tasks : u # t => pc'[u] = pc[u]
    BY <1>0, <1>4 DEF Acquire, GoTo
  <2>3. pc'[t] = IF pc[t] = "relock" THEN "set_blob" ELSE FirstStep(req[t].op)
    BY <1>0, <1>4 DEF Acquire, GoTo
  <2>4. pc[t] = "lock" \/ pc[t] = "relock"
    BY <1>4 DEF Acquire
  <2>5. QED BY <2>1, <2>2, <2>3, <2>4 DEF ReqInv, Slot, FirstStep, AllOps
<1>5. ASSUME NEW t \in Tasks, Reply(t)
      PROVE  ReqInv'
  BY <1>0, <1>5 DEF Reply, GoTo, ReqInv, Slot
<1>6. ASSUME NEW t \in Tasks, StoreStep(t)
      PROVE  ReqInv'
  BY <1>6, StoreMoves DEF OthersWait, StoreMove, ReqInv, Slot
<1>7. QED BY <1>1, <1>2, <1>3, <1>4, <1>5, <1>6, StepOfOneTask

\* Outside the store, nobody touches the blobs or the observer, and nobody comes
\* to a step that BlobInv, BitInv or the observer speaks of.
LEMMA OutsideMoves ==
  ASSUME TypeOK, ReqInv, NEW t \in Tasks, Request(t) \/ Acquire(t) \/ Reply(t)
  PROVE  /\ UNCHANGED <<bmp, blob, claim, faults, crashes>>
         /\ OthersWait(t)
         /\ pc'[t] \notin {"set_bmp", "commit", "clear_bmp", "commit_delete"}
         /\ pc'[t] = "set_blob" => req'[t].op = "update"
         /\ pc[t] \notin Critical
<1>0. pc \in [Tasks -> Steps] /\ req \in [Tasks -> Req]
  BY DEF TypeOK
<1>1. CASE Request(t)
  <2>1. PICK r \in Requests :
          /\ req' = [req EXCEPT ![t] = r]
          /\ GoTo(t, IF r.op = "delete" /\ r.id \notin Slot THEN "reply" ELSE "lock")
    BY <1>1, Zenon DEF Request
  <2>2. QED BY <1>0, <1>1, <2>1 DEF Request, GoTo, OthersWait, nvs, Critical
<1>2. CASE Acquire(t)
  <2>1. /\ \A u \in Tasks \ {t} : pc'[u] = pc[u]
        /\ pc'[t] = IF pc[t] = "relock" THEN "set_blob" ELSE FirstStep(req[t].op)
    BY <1>0, <1>2 DEF Acquire, GoTo
  <2>2. QED BY <1>2, <2>1 DEF Acquire, ReqInv, FirstStep, OthersWait, nvs, Critical
<1>3. CASE Reply(t)
  BY <1>0, <1>3 DEF Reply, GoTo, OthersWait, nvs, Critical
<1>4. QED BY <1>1, <1>2, <1>3

\* While one task is inside the store, the others are not.
LEMMA AloneInStore ==
  ASSUME LockInv, NEW t \in Tasks, pc[t] \in Critical
  PROVE  \A u \in Tasks \ {t} : pc[u] \notin Critical
BY DEF LockInv

\* The store steps that leave the blobs alone.
LEMMA BlobsStay ==
  ASSUME NEW t \in Tasks, StoreStep(t), pc[t] \notin {"set_blob", "erase"}
  PROVE  blob' = blob
BY DEF StoreStep, NextId, SaveBlob, SaveBmp, SaveCommit, Find, EraseBlob, ClearBmp,
       DeleteCommit, Load, Serialise, nvs

\* The blob of the slot in work is what its operation made it.
LEMMA BlobStep ==
  ASSUME BaseInv, [Next]_vars
  PROVE  BlobInv'
<1> USE DEF BaseInv
<1>0. pc \in [Tasks -> Steps] /\ req \in [Tasks -> Req] /\ blob \in [Slot -> Rec \cup {None}]
      /\ claim \in [Slot -> Rec \cup {NoClaim, Gone}]
  BY DEF TypeOK, Listings
<1>1. CASE UNCHANGED vars
  BY <1>1 DEF vars, BlobInv, Rec
<1>2. CASE Crash
  BY <1>2 DEF Crash, BlobInv
<1>3. ASSUME NEW t \in Tasks, Request(t) \/ Acquire(t) \/ Reply(t)
      PROVE  BlobInv'
  BY <1>3, OutsideMoves DEF OthersWait, BlobInv, Rec
<1>4. ASSUME NEW t \in Tasks, StoreStep(t)
      PROVE  BlobInv'
  <2>1. pc[t] \in Critical
    BY <1>4 DEF StoreStep, NextId, SaveBlob, SaveBmp, SaveCommit, Find, EraseBlob, ClearBmp,
                DeleteCommit, Load, Serialise, Critical
  <2>2. \A u \in Tasks \ {t} : pc'[u] \notin Critical
    BY <1>4, <2>1, AloneInStore, StoreMoves DEF OthersWait
  <2>3. ASSUME pc'[t] = "set_bmp"
        PROVE  blob'[req'[t].id] = req'[t].rec
    <3>1. pc[t] = "set_blob" /\ req'[t] = req[t] /\ req[t].id \in Slot
      BY <1>4, <2>3, StoreMoves DEF StoreMove, ReqInv
    <3>2. SaveBlob(t)
      BY <1>4, <3>1 DEF StoreStep, NextId, SaveBlob, SaveBmp, SaveCommit, Find, EraseBlob,
                        ClearBmp, DeleteCommit, Load, Serialise
    <3>3. blob' = [blob EXCEPT ![req[t].id] = req[t].rec]
      BY <1>0, <2>3, <3>2 DEF SaveBlob, Return
    <3>4. QED BY <1>0, <3>1, <3>3
  <2>4. ASSUME pc'[t] = "commit"
        PROVE  blob'[req'[t].id] = req'[t].rec
    <3>1. pc[t] = "set_bmp" /\ req'[t] = req[t]
      BY <1>4, <2>4, StoreMoves DEF StoreMove
    <3>2. QED BY <1>4, <3>1, BlobsStay DEF BlobInv
  <2>5. ASSUME pc'[t] = "clear_bmp"
        PROVE  blob'[req'[t].id] = None /\ claim'[req'[t].id] \notin Rec
    <3>1. pc[t] = "erase" /\ req'[t] = req[t] /\ req[t].id \in Slot
      BY <1>4, <2>5, StoreMoves DEF StoreMove, ReqInv
    <3>2. EraseBlob(t)
      BY <1>4, <3>1 DEF StoreStep, NextId, SaveBlob, SaveBmp, SaveCommit, Find, EraseBlob,
                        ClearBmp, DeleteCommit, Load, Serialise
    <3>3. /\ blob' = [blob EXCEPT ![req[t].id] = None]
          /\ claim' = [claim EXCEPT ![req[t].id] = IF @ \in Rec THEN NoClaim ELSE @]
      BY <1>0, <2>5, <3>2 DEF EraseBlob, Return
    <3>4. NoClaim \notin Rec
      BY GroupsAssumption DEF Rec
    <3>5. QED BY <1>0, <3>1, <3>3, <3>4
  <2>6. QED BY <2>2, <2>3, <2>4, <2>5 DEF BlobInv, Critical, Rec
<1>5. QED BY <1>1, <1>2, <1>3, <1>4, StepOfOneTask

\* Initially nobody is inside the store and nothing was promised.
LEMMA BaseInit == Init => BaseInv
BY TypeInit DEF Init, BaseInv, LockInv, ReqInv, BlobInv, Critical

\* In every behaviour, whatever calls fail and whenever the gateway resets: the
\* state is typed, the store operations exclude each other, and the blob of the
\* slot in work is what its operation made it.
THEOREM BaseInvariance == Spec => []BaseInv
<1>1. Init => BaseInv
  BY BaseInit
<1>2. BaseInv /\ [Next]_vars => BaseInv'
  BY TypeStep, LockStep, ReqStep, BlobStep DEF BaseInv
<1>3. QED BY <1>1, <1>2, PTL DEF Spec

\* The state of the group store is always typed.
THEOREM TypeCorrect == Spec => []TypeOK
<1>1. BaseInv => TypeOK
  BY DEF BaseInv
<1>2. QED BY <1>1, BaseInvariance, PTL

(***************************************************************************)
(* What was acknowledged stays                                             *)
(***************************************************************************)

\* With a reliable bitmap, its bit is set when a save reaches its commit, and
\* a create writes the blob of a slot whose bit is clear.
LEMMA BitStep ==
  ASSUME BitmapIsReliable, BaseInv, BitInv, [Next]_vars
  PROVE  BitInv'
<1> USE DEF BaseInv
<1>1. CASE UNCHANGED vars
  BY <1>1 DEF vars, BitInv
<1>2. CASE Crash
  BY <1>2 DEF Crash, BitInv
<1>3. ASSUME NEW t \in Tasks, Request(t) \/ Acquire(t) \/ Reply(t)
      PROVE  BitInv'
  BY <1>3, OutsideMoves DEF OthersWait, BitInv
<1>4. ASSUME NEW t \in Tasks, StoreStep(t)
      PROVE  BitInv'
  <2>1. pc[t] \in Critical
    BY <1>4 DEF StoreStep, NextId, SaveBlob, SaveBmp, SaveCommit, Find, EraseBlob, ClearBmp,
                DeleteCommit, Load, Serialise, Critical
  <2>2. \A u \in Tasks \ {t} : pc'[u] \notin Critical
    BY <1>4, <2>1, AloneInStore, StoreMoves DEF OthersWait
  <2>3. ASSUME pc'[t] = "commit"
        PROVE  req'[t].id \in bmp'
    <3>1. pc[t] = "set_bmp" /\ req'[t] = req[t]
      BY <1>4, <2>3, StoreMoves DEF StoreMove
    <3>2. SaveBmp(t)
      BY <1>4, <3>1 DEF StoreStep, NextId, SaveBlob, SaveBmp, SaveCommit, Find, EraseBlob,
                        ClearBmp, DeleteCommit, Load, Serialise
    <3>3. req[t].id \in bmp'
      BY <3>2 DEF SaveBmp, MayFail, BitmapIsReliable
    <3>4. QED BY <3>1, <3>3
  <2>4. ASSUME pc'[t] = "set_blob"
        PROVE  req'[t].id \notin bmp'
    <3>1. pc[t] = "next_id"
      BY <1>4, <2>4, StoreMoves DEF StoreMove
    <3>2. NextId(t)
      BY <1>4, <3>1 DEF StoreStep, NextId, SaveBlob, SaveBmp, SaveCommit, Find, EraseBlob,
                        ClearBmp, DeleteCommit, Load, Serialise
    <3>3. pc \in [Tasks -> Steps] /\ req \in [Tasks -> Req]
      BY DEF TypeOK
    <3>4. ~ Return(t, FALSE)
      BY <2>4, <3>3 DEF Return
    <3>5. PICK used \in SUBSET Slot, cost \in {0, 1}, id \in Ids :
            /\ \/ BmpRead(used, cost)
               \/ used = {} /\ cost = 1 /\ MayFail("open")
            /\ LowestFree(id, used)
            /\ req' = [req EXCEPT ![t].id = id]
      BY <3>2, <3>4, Zenon DEF NextId
    <3>6. used = bmp
      BY <3>5 DEF BmpRead, MayFail, BitmapIsReliable
    <3>7. req'[t].id = id
      BY <3>3, <3>5 DEF Req
    <3>8. bmp' = bmp
      BY <3>2 DEF NextId, nvs
    <3>9. QED BY <3>5, <3>6, <3>7, <3>8 DEF LowestFree
  <2>5. QED BY <2>2, <2>3, <2>4 DEF BitInv, Critical
<1>5. QED BY <1>1, <1>2, <1>3, <1>4, StepOfOneTask

\* With a reliable bitmap, no step takes an acknowledged group out of the store
\* or changes it, other than an update or delete of that group.
LEMMA AckedStep ==
  ASSUME BitmapIsReliable, BaseInv, BitInv, AckedGroupKept, [Next]_vars
  PROVE  AckedGroupKept'
<1> USE DEF BaseInv
<1>0. /\ blob \in [Slot -> Rec \cup {None}]
      /\ claim \in [Slot -> Rec \cup {NoClaim, Gone}]
      /\ NoClaim \notin Rec /\ Gone \notin Rec
  BY GroupsAssumption DEF TypeOK, Listings, Rec
<1>1. CASE UNCHANGED <<bmp, blob, claim>>
  BY <1>1 DEF AckedGroupKept, Slot, Rec
<1>2. ASSUME NEW t \in Tasks, SaveBlob(t)
      PROVE  AckedGroupKept'
  <2>1. CASE UNCHANGED <<blob, claim>>
    BY <1>1, <1>2, <2>1 DEF SaveBlob
  <2>2. CASE /\ blob' = [blob EXCEPT ![req[t].id] = req[t].rec]
             /\ claim' = [claim EXCEPT ![req[t].id] = AfterWriting(req[t].op, @)]
    <3>1. /\ pc[t] = "set_blob" /\ bmp' = bmp
          /\ req[t].op \in {"create", "update"} /\ req[t].id \in Slot
      BY <1>2 DEF SaveBlob, ReqInv
    <3>2. claim'[req[t].id] \notin Rec
      <4>1. CASE req[t].op = "create"
        <5>1. claim[req[t].id] \notin Rec
          BY <3>1, <4>1 DEF BitInv, AckedGroupKept
        <5>2. QED BY <1>0, <2>2, <3>1, <5>1 DEF AfterWriting
      <4>2. CASE req[t].op = "update"
        BY <1>0, <2>2, <3>1, <4>2 DEF AfterWriting
      <4>3. QED BY <3>1, <4>1, <4>2
    <3>3. \A i \in Slot \ {req[t].id} : blob'[i] = blob[i] /\ claim'[i] = claim[i]
      BY <1>0, <2>2
    <3>4. QED BY <3>1, <3>2, <3>3 DEF AckedGroupKept, Slot, Rec
  <2>3. QED BY <1>2, <2>1, <2>2 DEF SaveBlob
<1>3. ASSUME NEW t \in Tasks, SaveBmp(t)
      PROVE  AckedGroupKept'
  <2>1. bmp \subseteq bmp' /\ UNCHANGED <<blob, claim>>
    BY <1>3 DEF SaveBmp, BmpRead, MayFail, BitmapIsReliable
  <2>2. QED BY <2>1 DEF AckedGroupKept, Slot, Rec
<1>4. ASSUME NEW t \in Tasks, SaveCommit(t)
      PROVE  AckedGroupKept'
  <2>1. pc[t] = "commit" /\ UNCHANGED <<bmp, blob>>
    BY <1>4 DEF SaveCommit, nvs
  <2>2. CASE UNCHANGED claim
    BY <1>1, <2>1, <2>2
  <2>3. CASE claim' = [claim EXCEPT ![req[t].id] = req[t].rec]
    BY <1>0, <2>1, <2>3 DEF AckedGroupKept, BlobInv, BitInv, Slot, Rec
  <2>4. QED BY <1>4, <2>2, <2>3 DEF SaveCommit
<1>5. ASSUME NEW t \in Tasks, EraseBlob(t)
      PROVE  AckedGroupKept'
  <2>1. CASE UNCHANGED <<blob, claim>>
    BY <1>1, <1>5, <2>1 DEF EraseBlob
  <2>2. CASE /\ blob' = [blob EXCEPT ![req[t].id] = None]
             /\ claim' = [claim EXCEPT ![req[t].id] = IF @ \in Rec THEN NoClaim ELSE @]
    <3>1. bmp' = bmp /\ req[t].id \in Slot
      BY <1>5 DEF EraseBlob, ReqInv
    <3>2. QED BY <1>0, <2>2, <3>1 DEF AckedGroupKept, Slot, Rec
  <2>3. QED BY <1>5, <2>1, <2>2 DEF EraseBlob
<1>6. ASSUME NEW t \in Tasks, ClearBmp(t)
      PROVE  AckedGroupKept'
  <2>1. /\ pc[t] = "clear_bmp" /\ UNCHANGED <<blob, claim>>
        /\ bmp' = bmp \/ bmp' = bmp \ {req[t].id}
    BY <1>6 DEF ClearBmp, BmpRead, MayFail, Cleared, BitmapIsReliable
  <2>2. claim[req[t].id] \notin Rec
    BY <2>1 DEF BlobInv
  <2>3. QED BY <2>1, <2>2 DEF AckedGroupKept, Slot, Rec
<1>7. ASSUME NEW t \in Tasks, DeleteCommit(t)
      PROVE  AckedGroupKept'
  <2>1. \/ UNCHANGED claim
        \/ claim' = [claim EXCEPT ![req[t].id] = Gone]
    BY <1>7 DEF DeleteCommit
  <2>2. UNCHANGED <<bmp, blob>>
    BY <1>7 DEF DeleteCommit, nvs
  <2>3. QED BY <1>0, <2>1, <2>2 DEF AckedGroupKept, Slot, Rec
<1>8. ASSUME NEW t \in Tasks,
             NextId(t) \/ Find(t) \/ Load(t) \/ Serialise(t)
                \/ Request(t) \/ Acquire(t) \/ Reply(t)
      PROVE  AckedGroupKept'
  BY <1>1, <1>8 DEF NextId, Find, Load, Serialise, Request, Acquire, Reply, nvs
<1>9. CASE Crash
  BY <1>1, <1>9 DEF Crash, nvs
<1>10. CASE UNCHANGED vars
  BY <1>1, <1>10 DEF vars
<1>11. QED
  BY <1>2, <1>3, <1>4, <1>5, <1>6, <1>7, <1>8, <1>9, <1>10, StepOfOneTask DEF StoreStep

\* When no call that reads or writes the slot bitmap fails, a group that was
\* acknowledged to a client keeps its slot and its content, whatever other calls
\* fail, whatever the other tasks ask for and whenever the gateway resets, until
\* an update or delete of it begins.  (The condition cannot be dropped: grp_save
\* does not look at the result of nvs_set_u32, and an unreadable bitmap reads as 0.)
THEOREM AckedGroupIsKept ==
  ASSUME BitmapIsReliable
  PROVE  Spec => []AckedGroupKept
<1>1. Init => BitInv /\ AckedGroupKept
  BY GroupsAssumption DEF Init, BitInv, AckedGroupKept, Rec, Slot
<1>2. BaseInv /\ BitInv /\ AckedGroupKept /\ [Next]_vars => BitInv' /\ AckedGroupKept'
  BY BitStep, AckedStep
<1>3. QED BY <1>1, <1>2, BaseInvariance, PTL DEF Spec

(***************************************************************************)
(* Bitmap and blobs agree outside the operations                           *)
(***************************************************************************)

\* The slot's bit and its blob disagree.
Diverges(i) == (i \in bmp) # (blob[i] # None)

\* One who is between the two writes of an operation on this slot.
WorksOn(t, i) == lock = t /\ req[t].id = i /\ pc[t] \in {"set_bmp", "clear_bmp"}

\* Before the first error, an operation that is not between its two writes sees
\* bitmap and blobs agree.
LEMMA AgreeBeforeWrite ==
  ASSUME LockInv, DivergenceIsMidOperation, faults = 0, crashes = 0,
         NEW t \in Tasks, pc[t] \in Critical \ {"set_bmp", "clear_bmp"}
  PROVE  \A i \in Slot : ~ Diverges(i)
BY DEF LockInv, DivergenceIsMidOperation, Diverges

\* A step that touches neither, of a task that is not between its two writes,
\* does not make bitmap and blobs disagree.
LEMMA DivergenceStays ==
  ASSUME BaseInv, DivergenceIsMidOperation, faults = 0, crashes = 0,
         NEW t \in Tasks, UNCHANGED <<bmp, blob>>, OthersWait(t),
         \/ pc[t] \in Critical \ {"set_bmp", "clear_bmp"}
         \/ lock = None
         \/ pc[t] \notin Critical /\ lock' = lock
  PROVE  \A i \in Slot : Diverges(i)' => \E u \in Tasks : WorksOn(u, i)'
<1>1. CASE pc[t] \in Critical \ {"set_bmp", "clear_bmp"}
  BY <1>1, AgreeBeforeWrite DEF BaseInv, Diverges
<1>2. CASE lock = None
  BY <1>2, GroupsAssumption DEF DivergenceIsMidOperation, Diverges
<1>3. CASE pc[t] \notin Critical /\ lock' = lock
  <2>1. SUFFICES ASSUME NEW i \in Slot, Diverges(i)'
                 PROVE  \E u \in Tasks : WorksOn(u, i)'
    OBVIOUS
  <2>2. PICK u \in Tasks : WorksOn(u, i)
    BY <2>1 DEF DivergenceIsMidOperation, Diverges, WorksOn
  <2>3. u # t
    BY <1>3, <2>2 DEF WorksOn, Critical
  <2>4. WorksOn(u, i)'
    BY <1>3, <2>2, <2>3 DEF WorksOn, OthersWait
  <2>5. QED BY <2>4
<1>4. QED BY <1>1, <1>2, <1>3

\* Errors and resets are only ever added.
LEMMA CountersGrow ==
  ASSUME TypeOK, [Next]_vars, faults' = 0, crashes' = 0
  PROVE  faults = 0 /\ crashes = 0 /\ ~ Crash
<1> USE GroupsAssumption
<1>0. faults \in Nat /\ crashes \in Nat
  BY DEF TypeOK
<1>1. CASE UNCHANGED vars
  <2>1. ~ Crash
    BY <1>0, <1>1 DEF Crash, vars
  <2>2. QED BY <1>1, <2>1 DEF vars
<1>2. ~ Crash
  BY <1>0 DEF Crash
<1>3. ASSUME NEW t \in Tasks, Request(t) \/ Acquire(t) \/ StoreStep(t) \/ Reply(t)
      PROVE  faults = 0 /\ crashes = 0
  <2>1. crashes' = crashes
    BY <1>3 DEF StoreStep, Request, Acquire, Reply, NextId, SaveBlob, SaveBmp, SaveCommit,
                Find, EraseBlob, ClearBmp, DeleteCommit, Load, Serialise
  <2>2. faults' = faults \/ \E d \in {0, 1} : faults' = faults + d
    BY <1>3 DEF StoreStep, Request, Acquire, Reply, NextId, SaveBlob, SaveBmp, SaveCommit,
                Find, EraseBlob, ClearBmp, DeleteCommit, Load, Serialise
  <2>3. QED BY <1>0, <2>1, <2>2
<1>4. QED BY <1>1, <1>2, <1>3, StepOfOneTask

\* The slot in work is the only one whose bit and blob may disagree, and they
\* agree again when its operation reaches its commit.
LEMMA DivergenceStep ==
  ASSUME BaseInv, DivergenceIsMidOperation, [Next]_vars
  PROVE  DivergenceIsMidOperation'
<1> USE DEF BaseInv
<1> SUFFICES ASSUME faults' = 0, crashes' = 0
             PROVE  \A i \in Slot : Diverges(i)' => \E u \in Tasks : WorksOn(u, i)'
  BY DEF DivergenceIsMidOperation, Diverges, WorksOn, Slot
<1>0. faults = 0 /\ crashes = 0 /\ ~ Crash
  BY CountersGrow
<1>a. pc \in [Tasks -> Steps] /\ blob \in [Slot -> Rec \cup {None}] /\ None \notin Rec
  BY GroupsAssumption DEF TypeOK, Listings, Rec
<1>1. CASE UNCHANGED vars
  BY <1>0, <1>1 DEF vars, DivergenceIsMidOperation, Diverges, WorksOn
<1>2. ASSUME NEW t \in Tasks, Request(t) \/ Acquire(t) \/ Reply(t)
      PROVE  \A i \in Slot : Diverges(i)' => \E u \in Tasks : WorksOn(u, i)'
  <2>1. UNCHANGED <<bmp, blob>> /\ OthersWait(t) /\ pc[t] \notin Critical
    BY <1>2, OutsideMoves
  <2>2. lock = None \/ lock' = lock
    BY <1>2 DEF Request, Acquire, Reply
  <2>3. QED BY <1>0, <2>1, <2>2, DivergenceStays
<1>3. ASSUME NEW t \in Tasks, SaveBlob(t)
      PROVE  \A i \in Slot : Diverges(i)' => \E u \in Tasks : WorksOn(u, i)'
  <2>1. pc[t] = "set_blob" /\ lock = t /\ bmp' = bmp
    BY <1>3 DEF SaveBlob, LockInv, Critical
  <2>2. \A i \in Slot : ~ Diverges(i)
    BY <1>0, <2>1, AgreeBeforeWrite DEF Critical
  <2>3. /\ blob' = [blob EXCEPT ![req[t].id] = req[t].rec]
        /\ GoTo(t, "set_bmp") /\ UNCHANGED <<lock, req>>
    BY <1>0, <1>3 DEF SaveBlob
  <2>4. WorksOn(t, req[t].id)'
    BY <1>a, <2>1, <2>3 DEF WorksOn, GoTo
  <2>5. \A i \in Slot \ {req[t].id} : ~ Diverges(i)'
    BY <1>a, <2>1, <2>2, <2>3 DEF Diverges
  <2>6. QED BY <2>3, <2>4, <2>5
<1>4. ASSUME NEW t \in Tasks, EraseBlob(t)
      PROVE  \A i \in Slot : Diverges(i)' => \E u \in Tasks : WorksOn(u, i)'
  <2>1. pc[t] = "erase" /\ lock = t /\ bmp' = bmp
    BY <1>4 DEF EraseBlob, LockInv, Critical
  <2>2. \A i \in Slot : ~ Diverges(i)
    BY <1>0, <2>1, AgreeBeforeWrite DEF Critical
  <2>3. /\ blob' = [blob EXCEPT ![req[t].id] = None]
        /\ GoTo(t, "clear_bmp") /\ UNCHANGED <<lock, req>>
    BY <1>0, <1>4 DEF EraseBlob
  <2>4. WorksOn(t, req[t].id)'
    BY <1>a, <2>1, <2>3 DEF WorksOn, GoTo
  <2>5. \A i \in Slot \ {req[t].id} : ~ Diverges(i)'
    BY <1>a, <2>1, <2>2, <2>3 DEF Diverges
  <2>6. QED BY <2>3, <2>4, <2>5
<1>5. ASSUME NEW t \in Tasks, SaveBmp(t)
      PROVE  \A i \in Slot : ~ Diverges(i)'
  <2>1. pc[t] = "set_bmp" /\ lock = t /\ blob' = blob
    BY <1>5 DEF SaveBmp, LockInv, Critical
  <2>2. \A i \in Slot \ {req[t].id} : ~ Diverges(i)
    BY <1>0, <2>1 DEF DivergenceIsMidOperation, Diverges
  <2>3. bmp' = bmp \cup {req[t].id}
    BY <1>0, <1>5 DEF SaveBmp, BmpRead
  <2>4. blob[req[t].id] # None
    BY <1>a, <2>1 DEF BlobInv, ReqInv
  <2>5. QED BY <2>1, <2>2, <2>3, <2>4 DEF Diverges
<1>6. ASSUME NEW t \in Tasks, ClearBmp(t)
      PROVE  \A i \in Slot : ~ Diverges(i)'
  <2>1. pc[t] = "clear_bmp" /\ lock = t /\ blob' = blob
    BY <1>6 DEF ClearBmp, LockInv, Critical
  <2>2. \A i \in Slot \ {req[t].id} : ~ Diverges(i)
    BY <1>0, <2>1 DEF DivergenceIsMidOperation, Diverges
  <2>3. bmp' = bmp \ {req[t].id}
    BY <1>0, <1>6 DEF ClearBmp, BmpRead, Cleared
  <2>4. blob[req[t].id] = None
    BY <2>1 DEF BlobInv
  <2>5. QED BY <2>1, <2>2, <2>3, <2>4 DEF Diverges
<1>7. ASSUME NEW t \in Tasks,
             NextId(t) \/ SaveCommit(t) \/ Find(t) \/ DeleteCommit(t) \/ Load(t) \/ Serialise(t)
      PROVE  \A i \in Slot : Diverges(i)' => \E u \in Tasks : WorksOn(u, i)'
  <2>1. UNCHANGED <<bmp, blob>> /\ pc[t] \in Critical \ {"set_bmp", "clear_bmp"}
    BY <1>7 DEF NextId, SaveCommit, Find, DeleteCommit, Load, Serialise, nvs, Critical
  <2>2. OthersWait(t)
    BY <1>7, StoreMoves DEF StoreStep
  <2>3. QED BY <1>0, <2>1, <2>2, DivergenceStays
<1>8. QED
  BY <1>0, <1>1, <1>2, <1>3, <1>4, <1>5, <1>6, <1>7, StepOfOneTask DEF StoreStep

\* Before the first NVS error and the first reset, a slot whose bit and blob
\* disagree is being worked on, by the task that holds the store mutex: no
\* interleaving of requests makes group.get and group.list disagree for good.
THEOREM DivergenceOnlyMidOperation == Spec => []DivergenceIsMidOperation
<1>1. Init => DivergenceIsMidOperation
  BY DEF Init, DivergenceIsMidOperation, Slot
<1>2. BaseInv /\ DivergenceIsMidOperation /\ [Next]_vars => DivergenceIsMidOperation'
  BY DivergenceStep
<1>3. QED BY <1>1, <1>2, BaseInvariance, PTL DEF Spec

(***************************************************************************)
(* The list a client is sent                                               *)
(***************************************************************************)

\* From the load to the last row the shared buffer holds what this task loaded,
\* and a list is answered with those rows.
SnapInv ==
  \A t \in Tasks :
    /\ pc[t] \in {"load", "serialise"} => req[t].op = "list"
    /\ pc[t] = "serialise" => all = snap[t]
    /\ pc[t] = "reply" /\ req[t].op = "list" => rows[t] = Serialised(snap[t])

\* The store steps of the other requests leave the listings alone.
LEMMA ListsStay ==
  ASSUME BaseInv, NEW t \in Tasks, StoreStep(t), pc[t] \notin {"load", "serialise"}
  PROVE  UNCHANGED list /\ req'[t].op # "list"
<1> USE DEF BaseInv
<1>1. UNCHANGED list
  BY DEF StoreStep, NextId, SaveBlob, SaveBmp, SaveCommit, Find, EraseBlob, ClearBmp,
         DeleteCommit, Load, Serialise
<1>2. /\ req[t].op # "list"
      /\ pc[t] # "reply" /\ pc[t] \in Critical
  BY DEF ReqInv, StoreStep, NextId, SaveBlob, SaveBmp, SaveCommit, Find, EraseBlob, ClearBmp,
         DeleteCommit, Load, Serialise, Critical
<1>3. req'[t].op = req[t].op
  <2>1. req \in [Tasks -> Req]
    BY DEF TypeOK
  <2>2. ASSUME NEW ok \in BOOLEAN, Return(t, ok)
        PROVE  req'[t].op = req[t].op
    BY <2>1, <2>2 DEF Return, Req
  <2>3. CASE NextId(t)
    BY <2>1, <2>2, <2>3 DEF NextId, Req
  <2>4. CASE Find(t)
    BY <2>1, <2>2, <2>4 DEF Find, Req
  <2>5. CASE SaveBlob(t) \/ SaveBmp(t) \/ SaveCommit(t)
    BY <2>2, <2>5 DEF SaveBlob, SaveBmp, SaveCommit
  <2>6. CASE EraseBlob(t) \/ ClearBmp(t) \/ DeleteCommit(t)
    BY <2>2, <2>6 DEF EraseBlob, ClearBmp, DeleteCommit
  <2>7. ~ Load(t) /\ ~ Serialise(t)
    BY DEF Load, Serialise
  <2>8. QED BY <2>3, <2>4, <2>5, <2>6, <2>7 DEF StoreStep
<1>4. QED BY <1>1, <1>2, <1>3

\* Nobody but the task that loaded it touches the buffer until it is written out.
LEMMA SnapStep ==
  ASSUME BaseInv, SnapInv, [Next]_vars
  PROVE  SnapInv'
<1> USE DEF BaseInv
<1>0. /\ pc \in [Tasks -> Steps] /\ req \in [Tasks -> Req] /\ snap \in [Tasks -> Listings]
      /\ rows \in [Tasks -> Texts]
  BY DEF TypeOK
<1>1. CASE UNCHANGED vars
  BY <1>1 DEF vars, list, SnapInv
<1>2. CASE Crash
  BY <1>2 DEF Crash, SnapInv
<1>3. ASSUME NEW t \in Tasks, Request(t)
      PROVE  SnapInv'
  <2>1. PICK r \in Requests :
          /\ req' = [req EXCEPT ![t] = r]
          /\ GoTo(t, IF r.op = "delete" /\ r.id \notin Slot THEN "reply" ELSE "lock")
    BY <1>3, Zenon DEF Request
  <2>2. pc'[t] = "lock" \/ (pc'[t] = "reply" /\ req'[t].op = "delete")
    BY <1>0, <2>1 DEF GoTo
  <2>3. UNCHANGED list /\ OthersWait(t)
    BY <1>3, OutsideMoves DEF Request
  <2>4. QED BY <2>2, <2>3 DEF list, OthersWait, SnapInv
<1>4. ASSUME NEW t \in Tasks, Acquire(t)
      PROVE  SnapInv'
  <2>1. UNCHANGED <<req, list>> /\ OthersWait(t)
    BY <1>4, OutsideMoves DEF Acquire
  <2>2. pc'[t] = IF pc[t] = "relock" THEN "set_blob" ELSE FirstStep(req[t].op)
    BY <1>0, <1>4 DEF Acquire, GoTo
  <2>3. pc[t] # "relock" => req[t].op \in AllOps
    BY <1>4 DEF Acquire, ReqInv
  <2>4. /\ pc'[t] \notin {"serialise", "reply"}
        /\ pc'[t] = "load" => req[t].op = "list"
    BY <2>2, <2>3 DEF FirstStep, AllOps
  <2>5. QED BY <2>1, <2>4 DEF list, OthersWait, SnapInv
<1>5. ASSUME NEW t \in Tasks, Reply(t)
      PROVE  SnapInv'
  <2>1. pc'[t] = "idle" /\ all' = all /\ OthersWait(t)
    BY <1>0, <1>5, OutsideMoves DEF Reply, GoTo
  <2>2. \A u \in Tasks \ {t} : snap'[u] = snap[u] /\ rows'[u] = rows[u]
    BY <1>0, <1>5 DEF Reply
  <2>3. QED BY <2>1, <2>2 DEF OthersWait, SnapInv
<1>6. ASSUME NEW t \in Tasks, StoreStep(t)
      PROVE  SnapInv'
  <2>1. pc[t] \in Critical
    BY <1>6 DEF StoreStep, NextId, SaveBlob, SaveBmp, SaveCommit, Find, EraseBlob, ClearBmp,
                DeleteCommit, Load, Serialise, Critical
  <2>2. OthersWait(t) /\ StoreMove(t) /\ \A u \in Tasks \ {t} : pc'[u] \notin Critical
    BY <1>6, <2>1, AloneInStore, StoreMoves DEF OthersWait
  <2>3. CASE pc[t] = "load"
    <3>1. Load(t)
      BY <1>6, <2>3 DEF StoreStep, NextId, SaveBlob, SaveBmp, SaveCommit, Find, EraseBlob,
                        ClearBmp, DeleteCommit, Serialise
    <3>2. /\ pc'[t] = "serialise" /\ req'[t] = req[t] /\ rows' = rows
          /\ snap'[t] = all' /\ \A u \in Tasks \ {t} : snap'[u] = snap[u]
      BY <1>0, <3>1 DEF Load, GoTo
    <3>3. QED BY <2>2, <2>3, <3>2 DEF OthersWait, SnapInv, Critical
  <2>4. CASE pc[t] = "serialise"
    <3>1. Serialise(t)
      BY <1>6, <2>4 DEF StoreStep, NextId, SaveBlob, SaveBmp, SaveCommit, Find, EraseBlob,
                        ClearBmp, DeleteCommit, Load
    <3>2. /\ pc'[t] = "reply" /\ snap' = snap
          /\ rows'[t] = Serialised(all) /\ \A u \in Tasks \ {t} : rows'[u] = rows[u]
      BY <1>0, <3>1 DEF Serialise, Return
    <3>3. all = snap[t]
      BY <2>4 DEF SnapInv
    <3>4. QED BY <2>2, <3>2, <3>3 DEF OthersWait, SnapInv, Critical
  <2>5. CASE pc[t] \notin {"load", "serialise"}
    <3>1. UNCHANGED list /\ req'[t].op # "list"
      BY <1>6, <2>5, ListsStay
    <3>2. pc'[t] \notin {"load", "serialise"}
      BY <2>2, <2>5 DEF StoreMove
    <3>3. QED BY <2>2, <3>1, <3>2 DEF list, OthersWait, SnapInv, Critical
  <2>6. QED BY <2>3, <2>4, <2>5
<1>7. QED BY <1>1, <1>2, <1>3, <1>4, <1>5, <1>6, StepOfOneTask

\* A list that fits is written out as it is, one that does not is a part of it
\* and, but for a single group, not whole.
LEMMA SerialisedPart ==
  ASSUME NEW l \in Listings
  PROVE  /\ \A i \in Slot : Serialised(l).at[i] \in {None, l[i]}
         /\ AllFits(l) => Serialised(l).whole /\ Serialised(l).at = l
         /\ Serialised(l).whole /\ Serialised(l).at # l => \E i \in Slot : Used(l) = {i}
<1> DEFINE at == [i \in Slot |-> IF \A j \in Used(l) : j <= i => RowFits(l, j)
                                 THEN l[i] ELSE None]
           lone == \E i \in Slot : Used(l) = {i} /\ ~ RowFits(l, i)
<1>1. Serialised(l).at = at
  BY DEF Serialised
<1>2. Serialised(l).whole <=> AllFits(l) \/ lone
  BY DEF Serialised
<1>3. \A i \in Slot : at[i] \in {None, l[i]}
  OBVIOUS
<1>4. AllFits(l) => at = l
  <2>1. SUFFICES ASSUME AllFits(l)
                 PROVE  at = l
    OBVIOUS
  <2>2. \A i \in Slot : at[i] = l[i]
    BY <2>1 DEF AllFits
  <2>3. QED BY <2>2 DEF Listings
<1>5. lone => \E i \in Slot : Used(l) = {i}
  OBVIOUS
<1> HIDE DEF at, lone
<1>6. QED BY <1>1, <1>2, <1>3, <1>4, <1>5

\* For any number of tasks, errors and resets, whatever the rows and buffers are
\* in size: what can be read of a list is as it stood when this very request
\* loaded it, all of it when it fits, since the other tasks' lists, which go
\* through the same static buffer, are kept out by the mutex from the load to
\* the last row; and one that does not fit is no whole list.
THEOREM ListShowsOneMoment == Spec => []ListIsSnapshot
<1>1. Init => SnapInv
  BY DEF Init, SnapInv
<1>2. BaseInv /\ SnapInv /\ [Next]_vars => SnapInv'
  BY SnapStep
<1>3. BaseInv /\ SnapInv => ListIsSnapshot
  <2> SUFFICES ASSUME BaseInv, SnapInv, NEW t \in Tasks, pc[t] = "reply", req[t].op = "list"
               PROVE  /\ \A i \in Slot : rows[t].at[i] \in {None, snap[t][i]}
                      /\ AllFits(snap[t]) => rows[t].whole /\ rows[t].at = snap[t]
                      /\ rows[t].whole /\ rows[t].at # snap[t]
                            => \E i \in Slot : Used(snap[t]) = {i}
    BY DEF ListIsSnapshot
  <2>1. snap[t] \in Listings
    BY DEF BaseInv, TypeOK
  <2>2. rows[t] = Serialised(snap[t])
    BY DEF SnapInv
  <2>3. QED BY <2>1, <2>2, SerialisedPart
<1>4. QED BY <1>1, <1>2, <1>3, BaseInvariance, PTL DEF Spec

(***************************************************************************)
(* The pages                                                               *)
(***************************************************************************)

\* A task that has written part of its change to the slot, or all of it, and
\* has yet to hear from nvs_commit.
Midway(t, i) ==
  pc[t] \in {"set_bmp", "commit", "clear_bmp", "commit_delete"} /\ req[t].id = i

\* A task that has changed the slot and has yet to say so.
Unsaid(t, i) == pc[t] = "reply" /\ Changed(req[t]) /\ req[t].id = i

\* What a request leaves in its slot.
Outcome(r) == IF r.op = "delete" THEN None ELSE r.rec

\* A change that is to be announced is one of a slot.
AnswerInv ==
  \A t \in Tasks : pc[t] = "reply" /\ Changed(req[t])
    => req[t].id \in Slot /\ Outcome(req[t]) \in Rec \cup {None}

\* Before the first error, the bit is as the operation at its commit left it.
MidInv ==
  faults = 0 => \A t \in Tasks :
    /\ pc[t] = "commit" => req[t].id \in bmp
    /\ pc[t] = "commit_delete" => req[t].id \notin bmp

\* What the last to change a slot will say is what the store holds.
SayInv ==
  faults = 0 => \A t \in Tasks \ crossed, i \in Slot :
    /\ Unsaid(t, i)
    /\ \A u \in Tasks : ~ Midway(u, i)
    /\ \A u \in Tasks \ {t} : ~ Unsaid(u, i)
    => Listing[i] = Outcome(req[t])

\* Nobody changes the slot or has yet to announce a change of it.
Settled(i) == \A u \in Tasks : ~ Midway(u, i) /\ ~ Unsaid(u, i)

\* A page is right about every settled slot, and so is a list in the making.
ShowInv ==
  faults = 0 => \A i \in Slot \ behind : Settled(i) => page[i] = Listing[i]

DueInv ==
  faults = 0 => \A t \in Tasks : ListDue(t) =>
                  \A i \in Slot \ late[t] : Settled(i) => snap[t][i] = Listing[i]

\* What holds of the pages and the tasks that are about to answer.
PageInv ==
  /\ page \in Listings /\ crossed \subseteq Tasks
  /\ late \in [Tasks -> SUBSET Ids] /\ \A t \in Tasks : ~ ListDue(t) => late[t] = {}
  /\ AnswerInv /\ MidInv /\ SayInv /\ ShowInv /\ DueInv

\* To the store, the pages are not there.
LEMMA PagesOnlyLook ==
  ASSUME [PushNext]_pushVars
  PROVE  [Next]_vars
BY Zenon DEF PushNext, pushVars, WsReply, RestReply, ListReply, Answered, Reconnect, Next

\* An error is never forgotten.
LEMMA ErrorsGrow ==
  ASSUME TypeOK, [Next]_vars, faults' = 0
  PROVE  faults = 0
<1>0. faults \in Nat
  BY GroupsAssumption DEF TypeOK
<1>1. CASE UNCHANGED vars
  BY <1>1 DEF vars
<1>2. CASE Crash
  BY <1>2 DEF Crash
<1>3. ASSUME NEW t \in Tasks, Request(t) \/ Acquire(t) \/ StoreStep(t) \/ Reply(t)
      PROVE  faults = 0
  <2>1. faults' = faults \/ \E d \in {0, 1} : faults' = faults + d
    BY <1>3 DEF StoreStep, Request, Acquire, Reply, NextId, SaveBlob, SaveBmp, SaveCommit,
                Find, EraseBlob, ClearBmp, DeleteCommit, Load, Serialise
  <2>2. QED BY <1>0, <2>1
<1>4. QED BY <1>1, <1>2, <1>3, StepOfOneTask

\* The write of the bitmap before a commit.
LEMMA MidStep ==
  ASSUME BaseInv, MidInv, [Next]_vars
  PROVE  MidInv'
<1> USE DEF BaseInv
<1> SUFFICES ASSUME faults' = 0
             PROVE  \A t \in Tasks : /\ pc'[t] = "commit" => req'[t].id \in bmp'
                                     /\ pc'[t] = "commit_delete" => req'[t].id \notin bmp'
  BY DEF MidInv
<1>0. faults = 0
  BY ErrorsGrow
<1>1. CASE UNCHANGED vars
  BY <1>0, <1>1 DEF vars, MidInv
<1>2. CASE Crash
  BY <1>2 DEF Crash
<1>3. ASSUME NEW t \in Tasks, Request(t) \/ Acquire(t) \/ Reply(t)
      PROVE  \A u \in Tasks : /\ pc'[u] = "commit" => req'[u].id \in bmp'
                              /\ pc'[u] = "commit_delete" => req'[u].id \notin bmp'
  BY <1>0, <1>3, OutsideMoves DEF OthersWait, MidInv
<1>4. ASSUME NEW t \in Tasks, StoreStep(t)
      PROVE  \A u \in Tasks : /\ pc'[u] = "commit" => req'[u].id \in bmp'
                              /\ pc'[u] = "commit_delete" => req'[u].id \notin bmp'
  <2>1. pc[t] \in Critical
    BY <1>4 DEF StoreStep, NextId, SaveBlob, SaveBmp, SaveCommit, Find, EraseBlob, ClearBmp,
                DeleteCommit, Load, Serialise, Critical
  <2>2. StoreMove(t) /\ \A u \in Tasks \ {t} : pc'[u] \notin Critical
    BY <1>4, <2>1, AloneInStore, StoreMoves DEF OthersWait
  <2>3. ASSUME pc'[t] = "commit"
        PROVE  req'[t].id \in bmp'
    <3>1. pc[t] = "set_bmp" /\ req'[t] = req[t]
      BY <2>2, <2>3 DEF StoreMove
    <3>2. SaveBmp(t)
      BY <1>4, <3>1 DEF StoreStep, NextId, SaveBlob, SaveCommit, Find, EraseBlob,
                        ClearBmp, DeleteCommit, Load, Serialise
    <3>3. req[t].id \in bmp'
      BY <1>0, <3>2 DEF SaveBmp
    <3>4. QED BY <3>1, <3>3
  <2>4. ASSUME pc'[t] = "commit_delete"
        PROVE  req'[t].id \notin bmp'
    <3>1. pc[t] = "clear_bmp" /\ req'[t] = req[t]
      BY <2>2, <2>4 DEF StoreMove
    <3>2. ClearBmp(t)
      BY <1>4, <3>1 DEF StoreStep, NextId, SaveBlob, SaveBmp, SaveCommit, Find, EraseBlob,
                        DeleteCommit, Load, Serialise
    <3>3. req[t].id \notin bmp'
      BY <1>0, <3>2 DEF ClearBmp, Cleared
    <3>4. QED BY <3>1, <3>3
  <2>5. QED BY <2>2, <2>3, <2>4 DEF Critical
<1>5. QED BY <1>1, <1>2, <1>3, <1>4, StepOfOneTask

\* Only a commit that went through leaves something to be announced.
LEMMA ChangesAreCommitted ==
  ASSUME BaseInv, SnapInv, NEW t \in Tasks, StoreStep(t),
         pc'[t] = "reply", Changed(req'[t])
  PROVE  /\ SaveCommit(t) \/ DeleteCommit(t)
         /\ req'[t].op = req[t].op /\ req'[t].id = req[t].id /\ req'[t].rec = req[t].rec
<1> USE DEF BaseInv
<1>0. pc \in [Tasks -> Steps] /\ req \in [Tasks -> Req]
  BY DEF TypeOK
<1>1. ~ Return(t, FALSE)
  <2>1. SUFFICES ASSUME Return(t, FALSE)
                 PROVE  FALSE
    OBVIOUS
  <2>2. req'[t].ok = FALSE
    BY <1>0, <2>1 DEF Return, Req
  <2>3. QED BY <2>2, Zenon DEF Changed
<1>2. ASSUME Return(t, TRUE)
      PROVE  req'[t].op = req[t].op /\ req'[t].id = req[t].id /\ req'[t].rec = req[t].rec
  BY <1>0, <1>2 DEF Return, Req
<1>3. ASSUME NEW step \in Steps \ {"reply"}, GoTo(t, step)
      PROVE  FALSE
  BY <1>0, <1>3 DEF GoTo
<1>4. ~ NextId(t)
  BY <1>1, <1>3 DEF NextId, AllocKeepsLock, Steps, Critical
<1>5. ~ SaveBlob(t) /\ ~ SaveBmp(t) /\ ~ EraseBlob(t) /\ ~ ClearBmp(t) /\ ~ Load(t)
  BY <1>1, <1>3 DEF SaveBlob, SaveBmp, EraseBlob, ClearBmp, Load, Steps, Critical
<1>6. ~ Find(t)
  <2>1. SUFFICES ASSUME Find(t), req[t].op = "get", Return(t, TRUE)
                 PROVE  FALSE
    BY <1>1, <1>3 DEF Find, Steps
  <2>2. QED BY <1>2, <2>1 DEF Changed
<1>7. ~ Serialise(t)
  <2>1. SUFFICES ASSUME Serialise(t)
                 PROVE  FALSE
    OBVIOUS
  <2>2. req[t].op = "list" /\ Return(t, TRUE)
    BY <2>1 DEF Serialise, SnapInv
  <2>3. QED BY <1>2, <2>2 DEF Changed
<1>8. SaveCommit(t) \/ DeleteCommit(t)
  BY <1>4, <1>5, <1>6, <1>7 DEF StoreStep
<1>9. Return(t, TRUE)
  BY <1>1, <1>8 DEF SaveCommit, DeleteCommit
<1>10. QED BY <1>2, <1>8, <1>9

\* A request that is not done is not announced, and a delete that is refused
\* before it has the mutex is not either.
LEMMA AnswerStep ==
  ASSUME BaseInv, SnapInv, AnswerInv, [Next]_vars
  PROVE  AnswerInv'
<1> USE DEF BaseInv
<1>0. pc \in [Tasks -> Steps] /\ req \in [Tasks -> Req]
  BY DEF TypeOK
<1>1. CASE UNCHANGED vars
  BY <1>1 DEF vars, AnswerInv
<1>2. CASE Crash
  BY <1>2 DEF Crash, AnswerInv
<1>3. ASSUME NEW t \in Tasks, Request(t)
      PROVE  AnswerInv'
  <2>1. PICK r \in Requests : req' = [req EXCEPT ![t] = r]
    BY <1>3, Zenon DEF Request
  <2>2. req'[t].ok = FALSE
    BY <1>0, <2>1 DEF Requests
  <2>3. ~ Changed(req'[t])
    BY <2>2, Zenon DEF Changed
  <2>4. OthersWait(t)
    BY <1>3, OutsideMoves
  <2>5. QED BY <2>3, <2>4 DEF OthersWait, AnswerInv
<1>4. ASSUME NEW t \in Tasks, Acquire(t)
      PROVE  AnswerInv'
  <2>1. OthersWait(t)
    BY <1>4, OutsideMoves
  <2>2. pc'[t] = IF pc[t] = "relock" THEN "set_blob" ELSE FirstStep(req[t].op)
    BY <1>0, <1>4 DEF Acquire, GoTo
  <2>3. pc'[t] # "reply"
    BY <2>2 DEF FirstStep
  <2>4. QED BY <2>1, <2>3 DEF OthersWait, AnswerInv
<1>5. ASSUME NEW t \in Tasks, Reply(t)
      PROVE  AnswerInv'
  <2>1. OthersWait(t) /\ pc'[t] # "reply"
    BY <1>0, <1>5, OutsideMoves DEF Reply, GoTo
  <2>2. QED BY <2>1 DEF OthersWait, AnswerInv
<1>6. ASSUME NEW t \in Tasks, StoreStep(t)
      PROVE  AnswerInv'
  <2>1. OthersWait(t)
    BY <1>6, StoreMoves
  <2>2. ASSUME pc'[t] = "reply", Changed(req'[t])
        PROVE  req'[t].id \in Slot /\ Outcome(req'[t]) \in Rec \cup {None}
    <3>1. /\ SaveCommit(t) \/ DeleteCommit(t)
          /\ req'[t].op = req[t].op /\ req'[t].id = req[t].id /\ req'[t].rec = req[t].rec
      BY <1>6, <2>2, ChangesAreCommitted
    <3>2. pc[t] = "commit" \/ pc[t] = "commit_delete"
      BY <3>1 DEF SaveCommit, DeleteCommit
    <3>3. req[t].id \in Slot /\ (req[t].op # "delete" => req[t].rec \in Rec)
      BY <3>2 DEF ReqInv
    <3>4. QED BY <3>1, <3>3 DEF Outcome
  <2>3. QED BY <2>1, <2>2 DEF OthersWait, AnswerInv
<1>7. QED BY <1>1, <1>2, <1>3, <1>4, <1>5, <1>6, StepOfOneTask

\* Before the first error a step in the store changes what is listed of a slot
\* only on the way to a commit, and a change, once begun, is committed and is
\* then to be announced as it stands.
StoreChange(t) ==
  \A i \in Slot :
    /\ ~ Unsaid(t, i)
    /\ Listing'[i] = Listing[i] \/ Midway(t, i)'
    /\ Midway(t, i) => Midway(t, i)' \/ Unsaid(t, i)'
    /\ Unsaid(t, i)' => Listing'[i] = Outcome(req'[t])

\* What is listed is a listing.
LEMMA ListingEntry ==
  ASSUME NEW i \in Slot
  PROVE  /\ Listing[i] = IF i \in bmp THEN blob[i] ELSE None
         /\ Listing'[i] = IF i \in bmp' THEN blob'[i] ELSE None
BY DEF Listing

\* The writes of a create or an update.
LEMMA SaveChanges ==
  ASSUME BaseInv, SnapInv, MidInv, NEW t \in Tasks, faults = 0, faults' = 0,
         SaveBlob(t) \/ SaveBmp(t) \/ SaveCommit(t)
  PROVE  StoreChange(t)
<1> USE DEF BaseInv
<1>0. /\ pc \in [Tasks -> Steps] /\ req \in [Tasks -> Req]
      /\ blob \in [Slot -> Rec \cup {None}]
  BY DEF TypeOK, Listings
<1> SUFFICES ASSUME NEW i \in Slot
             PROVE  /\ ~ Unsaid(t, i)
                    /\ Listing'[i] = Listing[i] \/ Midway(t, i)'
                    /\ Midway(t, i) => Midway(t, i)' \/ Unsaid(t, i)'
                    /\ Unsaid(t, i)' => Listing'[i] = Outcome(req'[t])
  BY Zenon DEF StoreChange
<1>1. CASE SaveBlob(t)
  <2>1. /\ pc[t] = "set_blob" /\ pc'[t] = "set_bmp"
        /\ req'[t] = req[t] /\ bmp' = bmp
        /\ blob' = [blob EXCEPT ![req[t].id] = req[t].rec]
    BY <1>0, <1>1 DEF SaveBlob, GoTo
  <2>2. i # req[t].id => blob'[i] = blob[i]
    BY <1>0, <2>1
  <2>3. Listing'[i] = Listing[i] \/ Midway(t, i)'
    BY <2>1, <2>2, ListingEntry DEF Midway
  <2>4. QED BY <2>1, <2>3 DEF Midway, Unsaid
<1>2. CASE SaveBmp(t)
  <2>1. /\ pc[t] = "set_bmp" /\ pc'[t] = "commit"
        /\ req'[t] = req[t] /\ blob' = blob /\ bmp' = bmp \cup {req[t].id}
    BY <1>0, <1>2 DEF SaveBmp, BmpRead, GoTo
  <2>2. Listing'[i] = Listing[i] \/ Midway(t, i)'
    BY <2>1, ListingEntry DEF Midway
  <2>3. QED BY <2>1, <2>2 DEF Midway, Unsaid
<1>3. CASE SaveCommit(t)
  <2>1. pc[t] = "commit" /\ Return(t, TRUE) /\ UNCHANGED <<bmp, blob>>
    <3>1. pc[t] = "commit" /\ UNCHANGED <<bmp, blob>>
      BY <1>3 DEF SaveCommit, nvs
    <3>2. faults' # faults + 1
      OBVIOUS
    <3>3. Return(t, TRUE)
      BY <1>3, <3>2, Zenon DEF SaveCommit
    <3>4. QED BY <3>1, <3>3
  <2>2. /\ pc'[t] = "reply" /\ req'[t].ok
        /\ req'[t].op = req[t].op /\ req'[t].id = req[t].id /\ req'[t].rec = req[t].rec
    <3>1. pc'[t] = "reply" /\ req' = [req EXCEPT ![t].ok = TRUE]
      BY <1>0, <2>1 DEF Return
    <3>2. req[t] \in Req /\ req'[t] = [req[t] EXCEPT !.ok = TRUE]
      BY <1>0, <3>1, Zenon
    <3>3. req'[t].op = req[t].op /\ req'[t].id = req[t].id /\ req'[t].rec = req[t].rec
      BY <3>2 DEF Req
    <3>4. req'[t].ok
      BY <3>2 DEF Req
    <3>5. QED BY <3>1, <3>3, <3>4
  <2>3. /\ req[t].op \in {"create", "update"} /\ req[t].id \in Slot
        /\ req[t].id \in bmp /\ blob[req[t].id] = req[t].rec
    BY <2>1 DEF ReqInv, MidInv, BlobInv
  <2>4. Changed(req'[t])
    <3>1. req'[t].op \in {"create", "update", "delete"}
      BY <2>2, <2>3
    <3>2. QED BY <2>2, <3>1, Zenon DEF Changed
  <2>5. Listing'[i] = Listing[i]
    BY <2>1, ListingEntry
  <2>6. i = req[t].id => Listing'[i] = Outcome(req'[t])
    BY <2>1, <2>2, <2>3, ListingEntry DEF Outcome
  <2>7. QED BY <2>1, <2>2, <2>4, <2>5, <2>6 DEF Midway, Unsaid
<1>4. QED BY <1>1, <1>2, <1>3

\* The writes of a delete.
LEMMA DeleteChanges ==
  ASSUME BaseInv, SnapInv, MidInv, NEW t \in Tasks, faults = 0, faults' = 0,
         EraseBlob(t) \/ ClearBmp(t) \/ DeleteCommit(t)
  PROVE  StoreChange(t)
<1> USE DEF BaseInv
<1>0. /\ pc \in [Tasks -> Steps] /\ req \in [Tasks -> Req]
      /\ blob \in [Slot -> Rec \cup {None}]
  BY DEF TypeOK, Listings
<1> SUFFICES ASSUME NEW i \in Slot
             PROVE  /\ ~ Unsaid(t, i)
                    /\ Listing'[i] = Listing[i] \/ Midway(t, i)'
                    /\ Midway(t, i) => Midway(t, i)' \/ Unsaid(t, i)'
                    /\ Unsaid(t, i)' => Listing'[i] = Outcome(req'[t])
  BY Zenon DEF StoreChange
<1>1. CASE EraseBlob(t)
  <2>1. /\ pc[t] = "erase" /\ pc'[t] = "clear_bmp"
        /\ req'[t] = req[t] /\ bmp' = bmp
        /\ blob' = [blob EXCEPT ![req[t].id] = None]
    BY <1>0, <1>1 DEF EraseBlob, GoTo
  <2>2. i # req[t].id => blob'[i] = blob[i]
    BY <1>0, <2>1
  <2>3. Listing'[i] = Listing[i] \/ Midway(t, i)'
    BY <2>1, <2>2, ListingEntry DEF Midway
  <2>4. QED BY <2>1, <2>3 DEF Midway, Unsaid
<1>2. CASE ClearBmp(t)
  <2>1. /\ pc[t] = "clear_bmp" /\ pc'[t] = "commit_delete"
        /\ req'[t] = req[t] /\ blob' = blob /\ bmp' = bmp \ {req[t].id}
    BY <1>0, <1>2 DEF ClearBmp, BmpRead, Cleared, GoTo
  <2>2. Listing'[i] = Listing[i] \/ Midway(t, i)'
    BY <2>1, ListingEntry DEF Midway
  <2>3. QED BY <2>1, <2>2 DEF Midway, Unsaid
<1>3. CASE DeleteCommit(t)
  <2>1. pc[t] = "commit_delete" /\ Return(t, TRUE) /\ UNCHANGED <<bmp, blob>>
    <3>1. pc[t] = "commit_delete" /\ UNCHANGED <<bmp, blob>>
      BY <1>3 DEF DeleteCommit, nvs
    <3>2. faults' # faults + 1
      OBVIOUS
    <3>3. Return(t, TRUE)
      BY <1>3, <3>2, Zenon DEF DeleteCommit
    <3>4. QED BY <3>1, <3>3
  <2>2. /\ pc'[t] = "reply" /\ req'[t].ok
        /\ req'[t].op = req[t].op /\ req'[t].id = req[t].id /\ req'[t].rec = req[t].rec
    <3>1. pc'[t] = "reply" /\ req' = [req EXCEPT ![t].ok = TRUE]
      BY <1>0, <2>1 DEF Return
    <3>2. req[t] \in Req /\ req'[t] = [req[t] EXCEPT !.ok = TRUE]
      BY <1>0, <3>1, Zenon
    <3>3. req'[t].op = req[t].op /\ req'[t].id = req[t].id /\ req'[t].rec = req[t].rec
      BY <3>2 DEF Req
    <3>4. req'[t].ok
      BY <3>2 DEF Req
    <3>5. QED BY <3>1, <3>3, <3>4
  <2>3. /\ req[t].op = "delete" /\ req[t].id \in Slot
        /\ req[t].id \notin bmp
    BY <2>1 DEF ReqInv, MidInv
  <2>4. Changed(req'[t])
    <3>1. req'[t].op \in {"create", "update", "delete"}
      BY <2>2, <2>3
    <3>2. QED BY <2>2, <3>1, Zenon DEF Changed
  <2>5. Listing'[i] = Listing[i]
    BY <2>1, ListingEntry
  <2>6. i = req[t].id => Listing'[i] = Outcome(req'[t])
    BY <2>1, <2>2, <2>3, ListingEntry DEF Outcome
  <2>7. QED BY <2>1, <2>2, <2>4, <2>5, <2>6 DEF Midway, Unsaid
<1>4. QED BY <1>1, <1>2, <1>3

\* The steps that only read.
LEMMA ReadsChangeNothing ==
  ASSUME BaseInv, SnapInv, NEW t \in Tasks,
         NextId(t) \/ Find(t) \/ Load(t) \/ Serialise(t)
  PROVE  StoreChange(t)
<1>1. UNCHANGED <<bmp, blob>> /\ pc[t] \in {"next_id", "find", "load", "serialise"}
  BY DEF NextId, Find, Load, Serialise, nvs
<1>2. StoreStep(t)
  BY DEF StoreStep
<1>3. ~ (pc'[t] = "reply" /\ Changed(req'[t]))
  <2>1. ~ SaveCommit(t) /\ ~ DeleteCommit(t)
    BY <1>1 DEF SaveCommit, DeleteCommit
  <2>2. QED BY <1>2, <2>1, ChangesAreCommitted
<1>4. ASSUME NEW i \in Slot
      PROVE  Listing'[i] = Listing[i] /\ ~ Unsaid(t, i) /\ ~ Unsaid(t, i)' /\ ~ Midway(t, i)
  BY <1>1, <1>3, ListingEntry DEF Unsaid, Midway
<1>5. QED BY <1>4, Zenon DEF StoreChange

\* Every step in the store.
LEMMA StoreChanges ==
  ASSUME BaseInv, SnapInv, MidInv, NEW t \in Tasks, faults = 0, faults' = 0, StoreStep(t)
  PROVE  StoreChange(t)
BY SaveChanges, DeleteChanges, ReadsChangeNothing DEF StoreStep

\* What the two halves of the invariant about pages say of one slot, when there
\* has been no error.
Says(i) ==
  \A t \in Tasks \ crossed :
    /\ Unsaid(t, i)
    /\ \A u \in Tasks : ~ Midway(u, i)
    /\ \A u \in Tasks \ {t} : ~ Unsaid(u, i)
    => Listing[i] = Outcome(req[t])

Shows(i) == i \notin behind /\ Settled(i) => page[i] = Listing[i]

Due(i) ==
  \A t \in Tasks : ListDue(t) /\ i \notin late[t] /\ Settled(i) => snap[t][i] = Listing[i]

\* A step in the store leaves a settled slot as it is listed, and what the last
\* to change a slot will say is what is listed.
LEMMA StoreSays ==
  ASSUME NEW t \in Tasks, OthersWait(t), StoreChange(t), UNCHANGED crossed,
         NEW i \in Slot, Says(i)
  PROVE  /\ Says(i)'
         /\ Settled(i)' => Listing'[i] = Listing[i] /\ Settled(i)
<1>1. /\ ~ Unsaid(t, i)
      /\ Listing'[i] = Listing[i] \/ Midway(t, i)'
      /\ Midway(t, i) => Midway(t, i)' \/ Unsaid(t, i)'
      /\ Unsaid(t, i)' => Listing'[i] = Outcome(req'[t])
  BY Zenon DEF StoreChange
<1>2. \A u \in Tasks \ {t} : /\ Midway(u, i)' <=> Midway(u, i)
                             /\ Unsaid(u, i)' <=> Unsaid(u, i)
                             /\ req'[u] = req[u]
  BY DEF OthersWait, Midway, Unsaid
<1>3. Settled(i)' => Listing'[i] = Listing[i] /\ Settled(i)
  BY <1>1, <1>2 DEF Settled
<1>4. Says(i)'
  <2>1. SUFFICES ASSUME NEW s \in Tasks \ crossed, Unsaid(s, i)',
                        \A u \in Tasks : ~ Midway(u, i)',
                        \A u \in Tasks \ {s} : ~ Unsaid(u, i)'
                 PROVE  Listing'[i] = Outcome(req'[s])
    BY DEF Says
  <2>2. CASE s = t
    BY <1>1, <2>1, <2>2
  <2>3. CASE s # t
    <3>1. Unsaid(s, i) /\ req'[s] = req[s] /\ Listing'[i] = Listing[i]
      BY <1>1, <1>2, <2>1, <2>3
    <3>2. \A u \in Tasks : ~ Midway(u, i)
      BY <1>1, <1>2, <2>1, <2>3
    <3>3. \A u \in Tasks \ {s} : ~ Unsaid(u, i)
      BY <1>1, <1>2, <2>1
    <3>4. QED BY <3>1, <3>2, <3>3 DEF Says
  <2>4. QED BY <2>2, <2>3
<1>5. QED BY <1>3, <1>4

\* A step in the store keeps the page and the lists in the making right, unless
\* it is the load of a list.
LEMMA StoreShows ==
  ASSUME NEW t \in Tasks, OthersWait(t), StoreChange(t), UNCHANGED <<page, observers>>,
         snap' = snap, ListDue(t)' => ListDue(t),
         NEW i \in Slot, Says(i), Shows(i), Due(i)
  PROVE  Says(i)' /\ Shows(i)' /\ Due(i)'
<1>1. Says(i)' /\ (Settled(i)' => Listing'[i] = Listing[i] /\ Settled(i))
  BY StoreSays DEF observers
<1>2. Shows(i)'
  BY <1>1 DEF Shows, observers
<1>3. \A u \in Tasks : ListDue(u)' => ListDue(u)
  BY DEF OthersWait, ListDue
<1>4. Due(i)'
  BY <1>1, <1>3 DEF Due, observers
<1>5. QED BY <1>1, <1>2, <1>4

\* What is loaded before the first error is the listing of that moment.
LEMMA LoadShows ==
  ASSUME BaseInv, SnapInv, PageInv, NEW t \in Tasks, Load(t), faults = 0, faults' = 0,
         UNCHANGED <<page, observers>>, NEW i \in Slot, Says(i), Shows(i), Due(i)
  PROVE  Says(i)' /\ Shows(i)' /\ Due(i)'
<1> USE DEF BaseInv
<1>0. /\ pc \in [Tasks -> Steps] /\ req \in [Tasks -> Req] /\ snap \in [Tasks -> Listings]
  BY DEF TypeOK
<1>1. StoreChange(t) /\ OthersWait(t)
  BY ReadsChangeNothing, StoreMoves DEF StoreStep
<1>2. Says(i)' /\ (Settled(i)' => Listing'[i] = Listing[i] /\ Settled(i))
  BY <1>1, StoreSays DEF observers
<1>3. Shows(i)'
  BY <1>2 DEF Shows, observers
<1>4. all' = Listing /\ UNCHANGED <<bmp, blob>>
  BY DEF Load, nvs
<1>5. snap'[t] = Listing /\ \A u \in Tasks \ {t} : snap'[u] = snap[u]
  BY <1>0, <1>4 DEF Load
<1>6. \A u \in Tasks \ {t} : ListDue(u)' <=> ListDue(u)
  BY <1>1 DEF OthersWait, ListDue
<1>7. Listing'[i] = Listing[i]
  BY <1>4, ListingEntry
<1>8. Due(i)'
  BY <1>2, <1>5, <1>6, <1>7 DEF Due, observers
<1>9. QED BY <1>2, <1>3, <1>8

\* A task that takes a request or the mutex changes nothing.
LEMMA OutsideChangesNothing ==
  ASSUME BaseInv, NEW t \in Tasks, Request(t) \/ Acquire(t)
  PROVE  OthersWait(t) /\ StoreChange(t)
<1> USE DEF BaseInv
<1>0. pc \in [Tasks -> Steps] /\ req \in [Tasks -> Req]
  BY DEF TypeOK
<1>1. /\ OthersWait(t) /\ UNCHANGED <<bmp, blob>>
      /\ pc[t] \notin Critical /\ pc[t] # "reply"
  BY OutsideMoves DEF Request, Acquire
<1>2. ~ (pc'[t] = "reply" /\ Changed(req'[t]))
  <2>1. CASE Request(t)
    <3>1. PICK r \in Requests : req' = [req EXCEPT ![t] = r]
      BY <2>1, Zenon DEF Request
    <3>2. req'[t].ok = FALSE
      BY <1>0, <3>1 DEF Requests
    <3>3. QED BY <3>2, Zenon DEF Changed
  <2>2. CASE Acquire(t)
    <3>1. pc'[t] = IF pc[t] = "relock" THEN "set_blob" ELSE FirstStep(req[t].op)
      BY <1>0, <2>2 DEF Acquire, GoTo
    <3>2. QED BY <3>1 DEF FirstStep
  <2>3. QED BY <2>1, <2>2
<1>3. ASSUME NEW i \in Slot
      PROVE  Listing'[i] = Listing[i] /\ ~ Unsaid(t, i) /\ ~ Unsaid(t, i)' /\ ~ Midway(t, i)
  BY <1>1, <1>2, ListingEntry DEF Unsaid, Midway, Critical
<1>4. QED BY <1>1, <1>3, Zenon DEF StoreChange

\* What a page makes of the answer it is told of.
LEMMA PushedPage ==
  ASSUME page \in Listings, NEW r \in Req,
         Changed(r) => r.id \in Slot /\ Outcome(r) \in Rec \cup {None}
  PROVE  /\ Pushed(r) \in Listings
         /\ Changed(r) /\ Rendered(r) => Pushed(r)[r.id] = Outcome(r)
         /\ \A i \in Slot : ~ (Changed(r) /\ r.id = i) => Pushed(r)[i] = page[i]
<1>0. page \in [Slot -> Rec \cup {None}]
  BY DEF Listings
<1>1. CASE Changed(r) /\ Rendered(r)
  <2>1. Pushed(r) = [page EXCEPT ![r.id] = Outcome(r)]
    BY <1>1, Zenon DEF Pushed, Outcome
  <2>2. QED BY <1>0, <1>1, <2>1 DEF Listings
<1>2. CASE ~ (Changed(r) /\ Rendered(r))
  <2>1. Pushed(r) = page
    BY <1>2, Zenon DEF Pushed
  <2>2. QED BY <1>2, <2>1
<1>3. QED BY <1>1, <1>2

\* The slots of the lists in the making that an answer makes them miss.
LEMMA LateStep ==
  ASSUME PageInv, NEW t \in Tasks, Answered(t)
  PROVE  \A u \in Tasks : ListDue(u)' /\ u # t =>
           /\ ListDue(u) /\ late[u] \subseteq late'[u]
           /\ Changed(req[t]) => req[t].id \in late'[u]
<1>1. \A u \in Tasks \ {t} : pc'[u] = pc[u] /\ req'[u] = req[u]
  BY DEF Answered, Reply, GoTo
<1>2. QED BY <1>1 DEF Answered, ListDue, PageInv

\* An answer keeps all three: one that is told as it should be makes the page right
\* about its slot, any other leaves its slot among those the page is behind on.
LEMMA AnswerShows ==
  ASSUME BaseInv, SnapInv, PageInv, NEW t \in Tasks, WsReply(t) \/ RestReply(t) \/ ListReply(t),
         NEW i \in Slot, Says(i), Shows(i), Due(i)
  PROVE  Says(i)' /\ Shows(i)' /\ Due(i)'
<1> USE DEF BaseInv
<1>0. /\ pc \in [Tasks -> Steps] /\ req \in [Tasks -> Req] /\ req[t] \in Req
      /\ snap \in [Tasks -> Listings]
  BY DEF TypeOK
<1>1. Answered(t)
  BY DEF WsReply, RestReply, ListReply
<1>2. /\ pc[t] = "reply" /\ pc'[t] = "idle" /\ OthersWait(t)
      /\ UNCHANGED <<bmp, blob>> /\ \A u \in Tasks \ {t} : snap'[u] = snap[u]
  BY <1>0, <1>1, OutsideMoves DEF Answered, Reply, GoTo
<1>3. Listing'[i] = Listing[i] /\ ~ Midway(t, i) /\ ~ Midway(t, i)' /\ ~ Unsaid(t, i)'
  BY <1>2, ListingEntry DEF Midway, Unsaid
<1>4. \A u \in Tasks \ {t} : /\ Midway(u, i)' <=> Midway(u, i)
                             /\ Unsaid(u, i)' <=> Unsaid(u, i)
                             /\ req'[u] = req[u]
  BY <1>2 DEF OthersWait, Midway, Unsaid
<1>5. /\ Changed(req[t]) => req[t].id \in Slot /\ Outcome(req[t]) \in Rec \cup {None}
      /\ page \in Listings
  BY <1>2 DEF PageInv, AnswerInv
<1>6. Says(i)'
  <2>1. SUFFICES ASSUME NEW s \in Tasks \ crossed', Unsaid(s, i)',
                        \A u \in Tasks : ~ Midway(u, i)',
                        \A u \in Tasks \ {s} : ~ Unsaid(u, i)'
                 PROVE  Listing'[i] = Outcome(req'[s])
    BY DEF Says
  <2>2. s # t /\ Unsaid(s, i) /\ req'[s] = req[s]
    BY <1>3, <1>4, <2>1
  <2>3. s \notin crossed /\ s \notin Overtaken(t)
    BY <1>1, <2>1, <2>2 DEF Answered
  <2>4. ~ Unsaid(t, i)
    BY <1>2, <2>2, <2>3 DEF Unsaid, Overtaken
  <2>5. \A u \in Tasks : ~ Midway(u, i)
    BY <1>3, <1>4, <2>1
  <2>6. \A u \in Tasks \ {s} : ~ Unsaid(u, i)
    BY <1>4, <2>1, <2>4
  <2>7. Listing[i] = Outcome(req[s])
    BY <2>2, <2>3, <2>5, <2>6 DEF Says
  <2>8. QED BY <1>3, <2>2, <2>7
<1>7. Settled(i)' => Settled(i) \/ Unsaid(t, i)
  BY <1>3, <1>4 DEF Settled
<1>8. Shows(i)'
  <2>1. SUFFICES ASSUME i \notin behind', Settled(i)'
                 PROVE  page'[i] = Listing'[i]
    BY DEF Shows
  <2>2. CASE ListReply(t)
    <3>1. page' = snap[t] /\ i \notin late[t] /\ ListDue(t)
      BY <1>2, <2>1, <2>2 DEF ListReply, ListDue
    <3>2. ~ Unsaid(t, i)
      BY <2>2 DEF ListReply, Unsaid, Changed
    <3>3. Settled(i)
      BY <1>7, <2>1, <3>2
    <3>4. snap[t][i] = Listing[i]
      BY <3>1, <3>3 DEF Due
    <3>5. QED BY <1>3, <3>1, <3>4
  <2>3. CASE WsReply(t) \/ RestReply(t)
    <3>1. PICK told \in BOOLEAN :
            /\ Told(t, told)
            /\ told => Overtaken(t) = {} /\ Rendered(req[t]) /\ page' = Pushed(req[t])
            /\ page' = Pushed(req[t]) \/ page' = page
      <4>1. CASE WsReply(t)
        <5>1. (Overtaken(t) = {} /\ Rendered(req[t])) \in BOOLEAN
          BY Zenon
        <5>2. QED BY <4>1, <5>1 DEF WsReply
      <4>2. CASE RestReply(t)
        BY <4>2 DEF RestReply
      <4>3. QED BY <2>3, <4>1, <4>2
    <3>2. CASE Unsaid(t, i)
      <4>1. Changed(req[t]) /\ req[t].id = i
        BY <3>2 DEF Unsaid
      <4>2. told /\ t \notin crossed
        BY <2>1, <3>1, <4>1, Zenon DEF Told
      <4>3. /\ \A u \in Tasks : ~ Midway(u, i)
            /\ \A u \in Tasks \ {t} : ~ Unsaid(u, i)
        BY <1>3, <1>4, <2>1 DEF Settled
      <4>4. Listing[i] = Outcome(req[t])
        BY <3>2, <4>2, <4>3 DEF Says
      <4>5. page'[i] = Outcome(req[t])
        BY <1>0, <1>5, <3>1, <4>1, <4>2, PushedPage
      <4>6. QED BY <1>3, <4>4, <4>5
    <3>3. CASE ~ Unsaid(t, i)
      <4>1. ~ (Changed(req[t]) /\ req[t].id = i)
        BY <1>2, <3>3 DEF Unsaid
      <4>2. i \notin behind
        BY <2>1, <3>1, <4>1 DEF Told
      <4>3. page'[i] = page[i]
        BY <1>0, <1>5, <3>1, <4>1, PushedPage
      <4>4. page[i] = Listing[i]
        BY <1>7, <2>1, <3>3, <4>2 DEF Shows
      <4>5. QED BY <1>3, <4>3, <4>4
    <3>4. QED BY <3>2, <3>3
  <2>4. QED BY <2>2, <2>3
<1>9. Due(i)'
  <2>1. SUFFICES ASSUME NEW u \in Tasks, ListDue(u)', i \notin late'[u], Settled(i)'
                 PROVE  snap'[u][i] = Listing'[i]
    BY DEF Due
  <2>2. u # t
    BY <1>2, <2>1 DEF ListDue
  <2>3. /\ ListDue(u) /\ i \notin late[u]
        /\ ~ (Changed(req[t]) /\ req[t].id = i)
    BY <1>1, <2>1, <2>2, LateStep
  <2>4. Settled(i)
    BY <1>7, <2>1, <2>3 DEF Unsaid
  <2>5. snap[u][i] = Listing[i]
    BY <2>3, <2>4 DEF Due
  <2>6. QED BY <1>2, <1>3, <2>2, <2>5
<1>10. QED BY <1>6, <1>8, <1>9

\* An answer keeps the page and the observers typed.
LEMMA AnswerType ==
  ASSUME BaseInv, SnapInv, PageInv, NEW t \in Tasks, WsReply(t) \/ RestReply(t) \/ ListReply(t)
  PROVE  /\ page' \in Listings /\ crossed' \subseteq Tasks
         /\ late' \in [Tasks -> SUBSET Ids] /\ \A u \in Tasks : ~ ListDue(u)' => late'[u] = {}
<1> USE DEF BaseInv
<1>1. Answered(t) /\ pc[t] = "reply" /\ req[t] \in Req
  BY DEF WsReply, RestReply, ListReply, Answered, Reply, TypeOK
<1>2. crossed' \subseteq Tasks
  BY <1>1 DEF Answered, Overtaken, PageInv
<1>3. late' \in [Tasks -> SUBSET Ids]
  <2>1. req[t].id \in Ids /\ late \in [Tasks -> SUBSET Ids]
    BY <1>1 DEF Req, PageInv
  <2>2. QED BY <1>1, <2>1 DEF Answered
<1>4. ASSUME NEW u \in Tasks, ~ ListDue(u)'
      PROVE  late'[u] = {}
  <2>1. u # t => pc'[u] = pc[u] /\ req'[u] = req[u]
    BY <1>1 DEF Answered, Reply, GoTo
  <2>2. u = t \/ ~ ListDue(u)
    BY <1>4, <2>1 DEF ListDue
  <2>3. QED BY <1>1, <2>2 DEF Answered
<1>5. page' \in Listings
  <2>1. page \in Listings
        /\ (Changed(req[t]) => req[t].id \in Slot /\ Outcome(req[t]) \in Rec \cup {None})
    BY <1>1 DEF PageInv, AnswerInv
  <2>2. CASE WsReply(t) \/ RestReply(t)
    <3>1. page' = Pushed(req[t]) \/ page' = page
      BY <2>2 DEF WsReply, RestReply
    <3>2. QED BY <1>1, <2>1, <3>1, PushedPage
  <2>3. CASE ListReply(t)
    <3>1. page' = rows[t].at \/ page' = page
      BY <2>3 DEF ListReply
    <3>2. rows[t].at \in Listings
      BY DEF TypeOK, Texts
    <3>3. QED BY <2>1, <3>1, <3>2
  <2>4. QED BY <2>2, <2>3
<1>6. QED BY <1>2, <1>3, <1>4, <1>5

\* Only a load begins a list.
LEMMA ListBegins ==
  ASSUME BaseInv, SnapInv, NEW t \in Tasks, Request(t) \/ Acquire(t) \/ StoreStep(t), ~ Load(t)
  PROVE  snap' = snap /\ \A u \in Tasks : ListDue(u)' <=> ListDue(u)
<1> USE DEF BaseInv
<1>0. /\ pc \in [Tasks -> Steps] /\ req \in [Tasks -> Req]
  BY DEF TypeOK
<1>1. OthersWait(t)
  BY OutsideMoves, StoreMoves
<1>2. \A u \in Tasks \ {t} : ListDue(u)' <=> ListDue(u)
  BY <1>1 DEF OthersWait, ListDue
<1>3. CASE Request(t)
  <2>1. PICK r \in Requests :
          /\ req' = [req EXCEPT ![t] = r]
          /\ GoTo(t, IF r.op = "delete" /\ r.id \notin Slot THEN "reply" ELSE "lock")
    BY <1>3, Zenon DEF Request
  <2>2. pc'[t] = "lock" \/ (pc'[t] = "reply" /\ req'[t].op = "delete")
    BY <1>0, <2>1 DEF GoTo
  <2>3. pc[t] = "idle" /\ snap' = snap
    BY <1>3 DEF Request, list
  <2>4. ~ ListDue(t)' /\ ~ ListDue(t)
    BY <2>2, <2>3 DEF ListDue
  <2>5. QED BY <1>2, <2>3, <2>4
<1>4. CASE Acquire(t)
  <2>1. pc'[t] = IF pc[t] = "relock" THEN "set_blob" ELSE FirstStep(req[t].op)
    BY <1>0, <1>4 DEF Acquire, GoTo
  <2>2. pc'[t] \notin {"serialise", "reply"}
    BY <2>1 DEF FirstStep
  <2>3. pc[t] \in {"lock", "relock"} /\ snap' = snap
    BY <1>4 DEF Acquire, list
  <2>4. ~ ListDue(t)' /\ ~ ListDue(t)
    BY <2>2, <2>3 DEF ListDue
  <2>5. QED BY <1>2, <2>3, <2>4
<1>5. CASE Serialise(t)
  <2>1. pc[t] = "serialise" /\ pc'[t] = "reply" /\ req'[t].op = req[t].op /\ snap' = snap
    BY <1>0, <1>5 DEF Serialise, Return, Req
  <2>2. ListDue(t)' <=> ListDue(t)
    BY <2>1 DEF ListDue
  <2>3. QED BY <1>2, <2>1, <2>2
<1>6. CASE StoreStep(t) /\ ~ Serialise(t)
  <2>1. pc[t] \in Critical \ {"load", "serialise"}
    BY <1>6 DEF StoreStep, NextId, SaveBlob, SaveBmp, SaveCommit, Find, EraseBlob, ClearBmp,
                DeleteCommit, Critical
  <2>2. UNCHANGED list /\ req'[t].op # "list"
    BY <1>6, <2>1, ListsStay
  <2>3. ~ ListDue(t)' /\ ~ ListDue(t)
    BY <2>1, <2>2 DEF ListDue, Critical
  <2>4. QED BY <1>2, <2>2, <2>3 DEF list
<1>7. QED BY <1>3, <1>4, <1>5, <1>6 DEF StoreStep

\* A step of the page or of the store keeps the page and the observers typed.
LEMMA PageType ==
  ASSUME BaseInv, SnapInv, PageInv, [PushNext]_pushVars
  PROVE  /\ page' \in Listings /\ crossed' \subseteq Tasks
         /\ late' \in [Tasks -> SUBSET Ids] /\ \A t \in Tasks : ~ ListDue(t)' => late'[t] = {}
<1>1. CASE UNCHANGED pushVars
  BY <1>1 DEF PageInv, Listings, pushVars, vars, observers, ListDue
<1>2. ASSUME NEW t \in Tasks, WsReply(t) \/ RestReply(t) \/ ListReply(t)
      PROVE  /\ page' \in Listings /\ crossed' \subseteq Tasks
             /\ late' \in [Tasks -> SUBSET Ids] /\ \A u \in Tasks : ~ ListDue(u)' => late'[u] = {}
  BY <1>2, AnswerType
<1>3. ASSUME NEW t \in Tasks, Request(t) \/ Acquire(t) \/ StoreStep(t),
             UNCHANGED <<page, observers>>
      PROVE  /\ page' \in Listings /\ crossed' \subseteq Tasks
             /\ late' \in [Tasks -> SUBSET Ids] /\ \A u \in Tasks : ~ ListDue(u)' => late'[u] = {}
  <2>1. page' \in Listings /\ crossed' \subseteq Tasks /\ late' \in [Tasks -> SUBSET Ids]
    BY <1>3 DEF PageInv, observers
  <2>2. ASSUME NEW u \in Tasks, ~ ListDue(u)'
        PROVE  ~ ListDue(u)
    <3>1. CASE Load(t)
      <4>1. pc[t] = "load" /\ OthersWait(t)
        BY <3>1, StoreMoves DEF Load, StoreStep, BaseInv
      <4>2. QED BY <2>2, <4>1 DEF OthersWait, ListDue
    <3>2. CASE ~ Load(t)
      BY <1>3, <2>2, <3>2, ListBegins
    <3>3. QED BY <3>1, <3>2
  <2>3. QED BY <1>3, <2>1, <2>2 DEF PageInv, observers
<1>4. CASE Reconnect
  <2>1. page' \in Listings
    BY <1>4, ListingType DEF Reconnect, BaseInv
  <2>2. QED BY <1>4, <2>1 DEF Reconnect
<1>5. QED BY <1>1, <1>2, <1>3, <1>4 DEF PushNext

\* Every step keeps what is said and shown.
LEMMA PageStep ==
  ASSUME BaseInv, SnapInv, PageInv, [PushNext]_pushVars
  PROVE  PageInv'
<1> USE DEF BaseInv
<1>1. [Next]_vars
  BY PagesOnlyLook
<1>2. AnswerInv' /\ MidInv'
  BY <1>1, AnswerStep, MidStep DEF PageInv
<1>3. /\ page' \in Listings /\ crossed' \subseteq Tasks
      /\ late' \in [Tasks -> SUBSET Ids] /\ \A t \in Tasks : ~ ListDue(t)' => late'[t] = {}
  BY PageType
<1>4. ASSUME faults' = 0, NEW i \in Slot
      PROVE  Says(i)' /\ Shows(i)' /\ Due(i)'
  <2>0. faults = 0
    BY <1>1, <1>4, ErrorsGrow
  <2>1. Says(i) /\ Shows(i) /\ Due(i)
    BY <2>0 DEF PageInv, SayInv, ShowInv, DueInv, Says, Shows, Due
  <2>2. CASE UNCHANGED pushVars
    <3>1. Listing'[i] = Listing[i] /\ UNCHANGED <<pc, req, snap, page, behind, late, crossed>>
      BY <2>2, ListingEntry DEF pushVars, vars, observers
    <3>2. \A u \in Tasks : /\ (Midway(u, i)' <=> Midway(u, i))
                          /\ (Unsaid(u, i)' <=> Unsaid(u, i))
                          /\ (ListDue(u)' <=> ListDue(u))
      BY <3>1 DEF Midway, Unsaid, ListDue
    <3>3. (Settled(i)' <=> Settled(i))
      BY <3>2 DEF Settled
    <3>4. QED BY <2>1, <3>1, <3>2, <3>3 DEF Says, Shows, Due
  <2>3. ASSUME NEW t \in Tasks, Request(t) \/ Acquire(t), UNCHANGED <<page, observers>>
        PROVE  Says(i)' /\ Shows(i)' /\ Due(i)'
    <3>1. ~ Load(t)
      BY <2>3 DEF Request, Acquire, Load
    <3>2. snap' = snap /\ (ListDue(t)' => ListDue(t))
      BY <2>3, <3>1, ListBegins
    <3>3. QED BY <2>1, <2>3, <3>2, OutsideChangesNothing, StoreShows
  <2>4. ASSUME NEW t \in Tasks, StoreStep(t), ~ Load(t), UNCHANGED <<page, observers>>
        PROVE  Says(i)' /\ Shows(i)' /\ Due(i)'
    <3>1. StoreChange(t)
      BY <1>4, <2>0, <2>4, StoreChanges DEF PageInv
    <3>2. OthersWait(t)
      BY <2>4, StoreMoves
    <3>3. snap' = snap /\ (ListDue(t)' => ListDue(t))
      BY <2>4, ListBegins
    <3>4. QED BY <2>1, <2>4, <3>1, <3>2, <3>3, StoreShows
  <2>5. ASSUME NEW t \in Tasks, Load(t), UNCHANGED <<page, observers>>
        PROVE  Says(i)' /\ Shows(i)' /\ Due(i)'
    BY <1>4, <2>0, <2>1, <2>5, LoadShows
  <2>6. ASSUME NEW t \in Tasks, WsReply(t) \/ RestReply(t) \/ ListReply(t)
        PROVE  Says(i)' /\ Shows(i)' /\ Due(i)'
    BY <2>1, <2>6, AnswerShows
  <2>7. CASE Reconnect
    <3>1. \A u \in Tasks : pc'[u] = "idle"
      BY <2>7 DEF Reconnect, Crash
    <3>2. i \in behind'
      BY <2>7 DEF Reconnect
    <3>3. QED BY <3>1, <3>2 DEF Says, Shows, Due, Unsaid, ListDue
  <2>8. QED BY <2>2, <2>3, <2>4, <2>5, <2>6, <2>7 DEF PushNext
<1>5. SayInv' /\ ShowInv' /\ DueInv'
  BY <1>4 DEF SayInv, ShowInv, DueInv, Says, Shows, Due
<1>6. QED BY <1>2, <1>3, <1>5 DEF PageInv

\* With the pages along, the store behaves as it does by itself.
THEOREM PagesImplementStore == PushSpec => Spec
<1>1. PushInit => Init
  BY DEF PushInit
<1>2. [PushNext]_pushVars => [Next]_vars
  BY PagesOnlyLook
<1>3. QED BY <1>1, <1>2, PTL DEF PushSpec, Spec

\* For any number of tasks and slots, records and buffers of any size, whatever is
\* asked over REST and over sockets and in whatever order lists and events reach the
\* page, as long as no NVS call has failed: once every request is answered, an open
\* page shows what is stored, but for the groups whose change it was not told of in
\* a form or an order it could rely on since it was last sent a whole list.
THEOREM PageFollowsGroups == PushSpec => []PageShowsStore
<1>1. PushInit => BaseInv /\ SnapInv /\ PageInv
  <2> SUFFICES ASSUME PushInit
               PROVE  BaseInv /\ SnapInv /\ PageInv
    OBVIOUS
  <2>1. /\ Init /\ page = Empty /\ behind = {} /\ crossed = {}
        /\ late = [t \in Tasks |-> {}] /\ bmp = {}
    BY DEF PushInit, Init
  <2>2. BaseInv /\ \A t \in Tasks : pc[t] = "idle"
    BY <2>1, BaseInit DEF Init
  <2>3. SnapInv
    BY <2>2 DEF SnapInv
  <2>4. \A i \in Slot : page[i] = Listing[i]
    BY <2>1 DEF Empty, Listing
  <2>5. AnswerInv /\ MidInv /\ SayInv /\ ShowInv /\ DueInv
    BY <2>1, <2>2, <2>4 DEF AnswerInv, MidInv, SayInv, ShowInv, DueInv, Unsaid, ListDue
  <2>6. /\ page \in Listings /\ crossed \subseteq Tasks
        /\ late \in [Tasks -> SUBSET Ids] /\ \A t \in Tasks : late[t] = {}
    BY <2>1, <2>2, ListingType DEF BaseInv
  <2>7. QED BY <2>2, <2>3, <2>5, <2>6 DEF PageInv
<1>2. BaseInv /\ SnapInv /\ PageInv /\ [PushNext]_pushVars => BaseInv' /\ SnapInv' /\ PageInv'
  <2>1. [PushNext]_pushVars => [Next]_vars
    BY PagesOnlyLook
  <2>2. BaseInv /\ [Next]_vars => BaseInv'
    BY TypeStep, LockStep, ReqStep, BlobStep DEF BaseInv
  <2>3. QED BY <2>1, <2>2, SnapStep, PageStep
<1>3. BaseInv /\ PageInv => PageShowsStore
  BY DEF PageInv, ShowInv, PageShowsStore, Settled, Midway, Unsaid
<1>4. QED BY <1>1, <1>2, <1>3, PTL DEF PushSpec
==============================================================================
