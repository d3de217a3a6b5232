-------------------------- MODULE ScriptStoreProofs --------------------------
(***************************************************************************)
(* What ScriptStore promises about uploads and about the page's list, for  *)
(* every set of tasks and names, every length of a body and of the buffer, *)
(* any number of requests and whatever fails.                              *)
(***************************************************************************)
EXTENDS ScriptStore, TLAPS

(***************************************************************************)
(* The inductive invariant                                                 *)
(***************************************************************************)

Uploading == {"recv", "write", "announce"}

\* httpd has an upload in hand exactly while it serves one.
UpInv ==
  /\ pc[Httpd] \in Uploading => up.name \in Names /\ up.len \in 1..MaxLen
  /\ pc[Httpd] \notin Uploading => up = NoUpload
  /\ pc[Httpd] \in {"write", "announce"} => up.cut \/ Received(up)

\* A task has a script to announce exactly after it deleted one.
NameInv == \A t \in Tasks : name[t] # None <=> pc[t] = "deleted"

\* The observer has every script that is both uploaded and deleted; every other
\* deleted script is gone.
CrossInv ==
  /\ up.name # None /\ Unannounced(up.name) => up.name \in crossed
  /\ \A n \in Names \ crossed : Unannounced(n) => store[n] = None

\* What was received is stored once it is written.
WrittenInv ==
  pc[Httpd] = "announce" /\ up.name \notin crossed => store[up.name] = up.got

\* An acknowledged source is stored whole until the next write.
AckedInv ==
  \A n \in Names :
    acked[n] # None /\ ~(pc[Httpd] = "announce" /\ up.name = n) => store[n] = acked[n]

\* Until it is written, a script is there if it was when its upload began.
ExistInv ==
  pc[Httpd] \in {"recv", "write"} /\ up.name \notin crossed =>
    (up.existed <=> store[up.name] # None)

\* The change of the script is under way.
Unsettled(n) == Unannounced(n) \/ (pc[Httpd] = "announce" /\ up.name = n)

\* A page with its list has the rows of all settled scripts; the row of an
\* upload to announce is there if the script was.
PageInv ==
  open /\ listed =>
    /\ \A n \in Names \ crossed : ~Unsettled(n) => (n \in page <=> store[n] # None)
    /\ pc[Httpd] = "announce" /\ up.name \notin crossed =>
         (up.existed <=> up.name \in page)

\* A list about to be sent has every script that is there.
ListInv ==
  pc[Httpd] = "list" /\ listing # None =>
    \A n \in Names : store[n] # None => n \in listing

IInv ==
  /\ TypeOK /\ UpInv /\ NameInv /\ CrossInv /\ WrittenInv
  /\ AckedInv /\ ExistInv /\ PageInv /\ ListInv

(***************************************************************************)
(* The steps                                                               *)
(***************************************************************************)

LEMMA NoneIsNeither == None \notin Names /\ \A k \in 0..Cap : k # None
BY ScriptsAssumption

\* Nothing stored, nothing under way, no page.
LEMMA InvInit == Init => IInv
<1> SUFFICES ASSUME Init
             PROVE  IInv
  OBVIOUS
<1>1. TypeOK
  <2>1. store \in [Names -> 0..Cap \cup {None}] /\ acked \in [Names -> 1..MaxLen \cup {None}]
    BY DEF Init
  <2>2. /\ up \in [name : Names \cup {None}, len : 0..MaxLen, got : 0..MaxLen,
                   existed : BOOLEAN, cut : BOOLEAN]
        /\ up.got <= up.len /\ up.got <= Cap
    BY ScriptsAssumption DEF Init, NoUpload
  <2>3. ops \in 0..MaxOps
    BY ScriptsAssumption DEF Init
  <2>4. QED BY <2>1, <2>2, <2>3 DEF Init, TypeOK
<1>2. \A t \in Tasks : pc[t] = "idle" /\ name[t] = None
  BY DEF Init
<1>3. Httpd \in Tasks /\ pc[Httpd] = "idle"
  BY <1>2 DEF Tasks
<1>4. \A n \in Names : ~Unannounced(n)
  BY <1>2, NoneIsNeither DEF Unannounced
<1>5. QED
  BY <1>1, <1>2, <1>3, <1>4 DEF Init, IInv, UpInv, NameInv, CrossInv, WrittenInv, AckedInv,
     ExistInv, PageInv, ListInv, Uploading, NoUpload

\* An upload begins.
LEMMA UploadStep ==
  ASSUME IInv, Upload
  PROVE  IInv'
<1> USE DEF IInv
<1>1. PICK n \in Names, l \in 1..MaxLen :
        /\ up' = [name |-> n, len |-> l, got |-> 0, existed |-> store[n] # None, cut |-> FALSE]
        /\ crossed' = IF n \in {name[t] : t \in Tasks} THEN crossed \cup {n} ELSE crossed
  BY Zenon DEF Upload
<1>2. /\ pc[Httpd] = "idle" /\ pc' = [pc EXCEPT ![Httpd] = "recv"]
      /\ ops < MaxOps /\ ops' = ops + 1
      /\ UNCHANGED <<store, name, page, open, listing, listed, acked>>
  BY DEF Upload, Goto, pageVars
<1>3. Httpd \in Tasks /\ pc'[Httpd] = "recv" /\ \A t \in Tasks \ {Httpd} : pc'[t] = pc[t]
  BY <1>2 DEF Tasks, TypeOK
<1>4. up'.name = n /\ up'.len = l /\ up'.got = 0 /\ up'.existed = (store[n] # None)
  BY <1>1
<1>5. TypeOK'
  <2>1. /\ up' \in [name : Names \cup {None}, len : 0..MaxLen, got : 0..MaxLen,
                    existed : BOOLEAN, cut : BOOLEAN]
        /\ up'.got <= up'.len /\ up'.got <= Cap
    BY <1>1, ScriptsAssumption
  <2>2. ops' \in 0..MaxOps
    BY <1>2, ScriptsAssumption DEF TypeOK
  <2>3. pc' \in [Tasks -> {"idle", "recv", "write", "announce", "deleted", "list"}]
    BY <1>2 DEF TypeOK
  <2>4. QED BY <1>1, <1>2, <2>1, <2>2, <2>3 DEF TypeOK
<1>6. crossed \subseteq crossed' /\ (Unannounced(n) => n \in crossed')
  BY <1>1 DEF Unannounced
<1>7. \A m : Unannounced(m)' <=> Unannounced(m)
  BY <1>2 DEF Unannounced
<1>8. UpInv'
  BY <1>3, <1>4 DEF UpInv, Uploading
<1>9. NameInv'
  BY <1>2, <1>3 DEF NameInv
<1>10. CrossInv'
  BY <1>2, <1>4, <1>6, <1>7 DEF CrossInv
<1>11. WrittenInv' /\ ListInv'
  BY <1>3 DEF WrittenInv, ListInv
<1>12. AckedInv'
  BY <1>2, <1>3 DEF AckedInv
<1>13. ExistInv'
  BY <1>2, <1>4 DEF ExistInv
<1>14. PageInv'
  BY <1>2, <1>3, <1>6, <1>7 DEF PageInv, Unsettled
<1>15. QED BY <1>5, <1>8, <1>9, <1>10, <1>11, <1>12, <1>13, <1>14

\* A piece of the body arrives, or none any more.
LEMMA RecvStep ==
  ASSUME IInv, Recv
  PROVE  IInv'
<1> USE DEF IInv
<1>1. /\ pc[Httpd] = "recv" /\ Httpd \in Tasks
      /\ UNCHANGED <<store, name, page, open, listing, listed, acked, crossed, ops>>
  BY DEF Recv, pageVars, Tasks
<1>2. /\ up.name \in Names /\ up.len \in 1..MaxLen /\ up.got \in 0..MaxLen
      /\ up.got <= up.len /\ up.got <= Cap
  BY <1>1 DEF UpInv, Uploading, TypeOK
<1>3. /\ TypeOK' /\ pc'[Httpd] \in {"recv", "write"}
      /\ \A t \in Tasks \ {Httpd} : pc'[t] = pc[t]
      /\ up'.name = up.name /\ up'.len = up.len /\ up'.existed = up.existed
      /\ pc'[Httpd] = "write" => up'.cut \/ Received(up)'
  <2>1. CASE Received(up) /\ pc' = [pc EXCEPT ![Httpd] = "write"] /\ UNCHANGED up
    BY <1>1, <2>1 DEF TypeOK, Received
  <2>2. ASSUME NEW g \in up.got + 1 .. Room(up), up' = [up EXCEPT !.got = g], UNCHANGED pc
        PROVE  /\ TypeOK' /\ pc'[Httpd] \in {"recv", "write"}
               /\ \A t \in Tasks \ {Httpd} : pc'[t] = pc[t]
               /\ up'.name = up.name /\ up'.len = up.len /\ up'.existed = up.existed
               /\ pc'[Httpd] = "write" => up'.cut \/ Received(up)'
    <3>1. g \in 0..MaxLen /\ g <= up.len /\ g <= Cap
      BY <1>2, <2>2, ScriptsAssumption DEF Room
    <3>2. QED BY <1>1, <2>2, <3>1 DEF TypeOK
  <2>3. CASE up' = [up EXCEPT !.cut = TRUE] /\ pc' = [pc EXCEPT ![Httpd] = "write"]
    BY <1>1, <2>3 DEF TypeOK
  <2>4. QED BY <2>1, <2>2, <2>3 DEF Recv, Goto
<1>4. \A m : Unannounced(m)' <=> Unannounced(m)
  BY <1>1 DEF Unannounced
<1>5. UpInv'
  BY <1>2, <1>3 DEF UpInv, Uploading
<1>6. NameInv'
  BY <1>1, <1>3 DEF NameInv
<1>7. CrossInv'
  BY <1>1, <1>3, <1>4 DEF CrossInv
<1>8. WrittenInv' /\ ListInv'
  BY <1>3 DEF WrittenInv, ListInv
<1>9. AckedInv' /\ ExistInv'
  BY <1>1, <1>3 DEF AckedInv, ExistInv
<1>10. PageInv'
  BY <1>1, <1>3, <1>4 DEF PageInv, Unsettled
<1>11. QED BY <1>3, <1>5, <1>6, <1>7, <1>8, <1>9, <1>10

\* The source is written, or is not.
LEMMA WriteStep ==
  ASSUME IInv, Write
  PROVE  IInv'
<1> USE DEF IInv
<1>1. /\ pc[Httpd] = "write" /\ Httpd \in Tasks
      /\ UNCHANGED <<name, page, open, listing, listed, acked, crossed, ops>>
  BY DEF Write, pageVars, Tasks
<1>2. /\ up.name \in Names /\ up.len \in 1..MaxLen /\ up.got \in 0..Cap
      /\ up.got # None /\ up.name # None
  BY <1>1, ScriptsAssumption DEF UpInv, Uploading, TypeOK
<1>3. \A m : Unannounced(m)' <=> Unannounced(m)
  BY <1>1 DEF Unannounced
<1>4. CASE /\ store' = [store EXCEPT ![up.name] = up.got]
           /\ pc' = [pc EXCEPT ![Httpd] = "announce"] /\ UNCHANGED up
  <2>1. /\ pc'[Httpd] = "announce" /\ \A t \in Tasks \ {Httpd} : pc'[t] = pc[t]
        /\ store'[up.name] = up.got
        /\ \A n \in Names \ {up.name} : store'[n] = store[n]
    BY <1>1, <1>2, <1>4 DEF TypeOK
  <2>2. TypeOK'
    BY <1>1, <1>2, <1>4 DEF TypeOK
  <2>3. UpInv' /\ NameInv'
    BY <1>1, <1>2, <1>4, <2>1 DEF UpInv, NameInv, Uploading, Received
  <2>4. CrossInv'
    BY <1>1, <1>2, <1>3, <1>4, <2>1 DEF CrossInv
  <2>5. WrittenInv' /\ AckedInv' /\ ExistInv' /\ ListInv'
    BY <1>1, <1>4, <2>1 DEF WrittenInv, AckedInv, ExistInv, ListInv
  <2>6. PageInv'
    <3>1. SUFFICES ASSUME open, listed
                   PROVE  /\ \A n \in Names \ crossed :
                               ~Unsettled(n)' => (n \in page <=> store'[n] # None)
                          /\ up.name \notin crossed => (up.existed <=> up.name \in page)
      BY <1>1, <1>4 DEF PageInv
    <3>2. ASSUME NEW n \in Names \ crossed, ~Unsettled(n)'
          PROVE  n \in page <=> store'[n] # None
      <4>1. n # up.name /\ ~Unannounced(n)
        BY <1>3, <1>4, <2>1, <3>2 DEF Unsettled
      <4>2. QED BY <1>1, <2>1, <3>1, <4>1 DEF PageInv, Unsettled
    <3>3. ASSUME up.name \notin crossed
          PROVE  up.existed <=> up.name \in page
      <4>1. ~Unsettled(up.name)
        BY <1>1, <1>2, <3>3 DEF CrossInv, Unsettled
      <4>2. QED BY <1>1, <1>2, <3>1, <3>3, <4>1 DEF PageInv, ExistInv
    <3>4. QED BY <3>2, <3>3
  <2>7. QED BY <2>2, <2>3, <2>4, <2>5, <2>6
<1>5. CASE /\ up' = NoUpload /\ pc' = [pc EXCEPT ![Httpd] = "idle"] /\ UNCHANGED store
  <2>1. /\ pc'[Httpd] = "idle" /\ \A t \in Tasks \ {Httpd} : pc'[t] = pc[t]
        /\ up'.name = None
    BY <1>1, <1>5 DEF TypeOK, NoUpload
  <2>2. TypeOK'
    BY <1>1, <1>5, ScriptsAssumption DEF TypeOK, NoUpload
  <2>3. UpInv' /\ NameInv'
    BY <1>1, <1>5, <2>1 DEF UpInv, NameInv, Uploading
  <2>4. CrossInv'
    BY <1>1, <1>3, <1>5, <2>1 DEF CrossInv
  <2>5. WrittenInv' /\ AckedInv' /\ ExistInv' /\ ListInv'
    BY <1>1, <1>5, <2>1 DEF WrittenInv, AckedInv, ExistInv, ListInv
  <2>6. PageInv'
    BY <1>1, <1>3, <1>5, <2>1 DEF PageInv, Unsettled
  <2>7. QED BY <2>2, <2>3, <2>4, <2>5, <2>6
<1>6. QED BY <1>4, <1>5 DEF Write, Goto

\* The write is announced and answered.
LEMMA AnnounceStep ==
  ASSUME IInv, Announce
  PROVE  IInv'
<1> USE DEF IInv
<1>1. /\ pc[Httpd] = "announce" /\ Httpd \in Tasks
      /\ page' = IF open THEN Announced(up) ELSE page
      /\ acked' = [acked EXCEPT ![up.name] =
                     IF up.cut \/ up.len > Cap \/ up.name \in crossed THEN None ELSE up.len]
      /\ up' = NoUpload /\ pc' = [pc EXCEPT ![Httpd] = "idle"]
      /\ UNCHANGED <<store, name, open, listing, listed, crossed, ops>>
  BY DEF Announce, Goto, pageVars, Tasks
<1>2. /\ up.name \in Names /\ up.name # None /\ up.len \in 1..MaxLen /\ up.got \in 0..Cap
      /\ up.got <= up.len /\ up.got # None
  BY <1>1, ScriptsAssumption DEF UpInv, Uploading, TypeOK
<1>3. \A m : Unannounced(m)' <=> Unannounced(m)
  BY <1>1 DEF Unannounced
<1>4. /\ pc'[Httpd] = "idle" /\ \A t \in Tasks \ {Httpd} : pc'[t] = pc[t]
      /\ up'.name = None
      /\ \A n \in Names \ {up.name} : acked'[n] = acked[n]
  BY <1>1, <1>2 DEF TypeOK, NoUpload
<1>5. acked'[up.name] = IF up.cut \/ up.len > Cap \/ up.name \in crossed THEN None ELSE up.len
  BY <1>1, <1>2 DEF TypeOK
<1>6. TypeOK'
  <2>1. page' \subseteq Names
    BY <1>1, <1>2 DEF TypeOK, Announced
  <2>2. acked' \in [Names -> 1..MaxLen \cup {None}]
    BY <1>1, <1>2 DEF TypeOK
  <2>3. up' \in [name : Names \cup {None}, len : 0..MaxLen, got : 0..MaxLen,
                 existed : BOOLEAN, cut : BOOLEAN] /\ up'.got <= up'.len /\ up'.got <= Cap
    BY <1>1, ScriptsAssumption DEF NoUpload
  <2>4. QED BY <1>1, <2>1, <2>2, <2>3 DEF TypeOK
<1>7. UpInv' /\ NameInv' /\ CrossInv' /\ WrittenInv' /\ ExistInv' /\ ListInv'
  BY <1>1, <1>3, <1>4 DEF UpInv, NameInv, CrossInv, WrittenInv, ExistInv, ListInv, Uploading
<1>8. AckedInv'
  <2>1. ASSUME acked'[up.name] # None
        PROVE  store[up.name] = acked'[up.name]
    <3>1. ~up.cut /\ ~(up.len > Cap) /\ up.name \notin crossed /\ acked'[up.name] = up.len
      BY <1>5, <2>1
    <3>2. up.got = up.len \/ up.got = Cap
      BY <1>1, <3>1 DEF UpInv, Received
    <3>3. up.got = up.len
      BY <1>2, <3>1, <3>2, ScriptsAssumption
    <3>4. QED BY <1>1, <3>1, <3>3 DEF WrittenInv
  <2>2. QED BY <1>1, <1>4, <2>1 DEF AckedInv
<1>9. PageInv'
  <2>1. SUFFICES ASSUME open, listed, NEW n \in Names \ crossed, ~Unannounced(n)
                 PROVE  n \in Announced(up) <=> store[n] # None
    BY <1>1, <1>3, <1>4 DEF PageInv, Unsettled
  <2>2. CASE n = up.name
    <3>1. store[n] # None
      BY <1>1, <1>2, <2>1, <2>2 DEF WrittenInv
    <3>2. QED BY <1>1, <2>1, <2>2, <3>1 DEF PageInv, Announced
  <2>3. CASE n # up.name
    BY <2>1, <2>3 DEF PageInv, Unsettled, Announced
  <2>4. QED BY <2>2, <2>3
<1>10. QED BY <1>6, <1>7, <1>8, <1>9

\* A script is deleted.
LEMMA DeleteStep ==
  ASSUME IInv, NEW t \in Deleters, Delete(t)
  PROVE  IInv'
<1> USE DEF IInv
<1>1. PICK n \in Names :
        /\ store[n] # None
        /\ store' = [store EXCEPT ![n] = None]
        /\ acked' = [acked EXCEPT ![n] = None]
        /\ name' = [name EXCEPT ![t] = n]
        /\ crossed' = IF up.name = n THEN crossed \cup {n} ELSE crossed
  BY Zenon DEF Delete
<1>2. /\ pc[t] = "idle" /\ pc' = [pc EXCEPT ![t] = "deleted"] /\ t \in Tasks /\ Httpd \in Tasks
      /\ ops < MaxOps /\ ops' = ops + 1
      /\ UNCHANGED <<up, page, open, listing, listed>>
  BY DEF Delete, Goto, pageVars, Tasks
<1>3. /\ pc'[t] = "deleted" /\ \A s \in Tasks \ {t} : pc'[s] = pc[s] /\ name'[s] = name[s]
      /\ name'[t] = n /\ name[t] = None /\ n # None
      /\ store'[n] = None /\ acked'[n] = None
      /\ \A m \in Names \ {n} : store'[m] = store[m] /\ acked'[m] = acked[m]
  BY <1>1, <1>2, NoneIsNeither DEF TypeOK, NameInv
<1>4. \A m \in Names : Unannounced(m)' <=> Unannounced(m) \/ m = n
  BY <1>2, <1>3, NoneIsNeither DEF Unannounced
<1>5. crossed \subseteq crossed' /\ (up.name = n => n \in crossed')
  BY <1>1
<1>6. TypeOK'
  BY <1>1, <1>2, ScriptsAssumption DEF TypeOK
<1>7. pc'[Httpd] \in Uploading \cup {"list"} => pc'[Httpd] = pc[Httpd]
  BY <1>2, <1>3 DEF Uploading
<1>8. UpInv'
  BY <1>2, <1>3, <1>7 DEF UpInv, Uploading, Received
<1>9. NameInv'
  BY <1>3 DEF NameInv
<1>10. CrossInv'
  <2>1. up.name \in Names \cup {None}
    BY DEF TypeOK
  <2>2. QED BY <1>2, <1>3, <1>4, <1>5, <2>1 DEF CrossInv
<1>11. WrittenInv' /\ ExistInv'
  <2>1. pc'[Httpd] \in Uploading => up.name \in Names
    BY <1>7 DEF UpInv, Uploading
  <2>2. QED BY <1>2, <1>3, <1>5, <1>7, <2>1 DEF WrittenInv, ExistInv, Uploading
<1>12. AckedInv' /\ ListInv'
  BY <1>2, <1>3, <1>7 DEF AckedInv, ListInv, UpInv, Uploading
<1>13. PageInv'
  <2>1. SUFFICES ASSUME open, listed
                 PROVE  /\ \A m \in Names \ crossed' :
                             ~Unsettled(m)' => (m \in page <=> store'[m] # None)
                        /\ pc'[Httpd] = "announce" /\ up.name \notin crossed' =>
                             (up.existed <=> up.name \in page)
    BY <1>2 DEF PageInv
  <2>2. ASSUME NEW m \in Names \ crossed', ~Unsettled(m)'
        PROVE  m \in page <=> store'[m] # None
    <3>1. m # n /\ ~Unannounced(m)
      BY <1>4, <2>2 DEF Unsettled
    <3>2. pc[Httpd] = "announce" => pc'[Httpd] = "announce"
      BY <1>2, <1>3
    <3>3. ~Unsettled(m)
      BY <1>2, <2>2, <3>1, <3>2 DEF Unsettled
    <3>4. QED BY <1>3, <1>5, <2>1, <2>2, <3>1, <3>3 DEF PageInv
  <2>3. ASSUME pc'[Httpd] = "announce", up.name \notin crossed'
        PROVE  up.existed <=> up.name \in page
    BY <1>5, <1>7, <2>1, <2>3 DEF PageInv, Uploading
  <2>4. QED BY <2>2, <2>3
<1>14. QED BY <1>6, <1>8, <1>9, <1>10, <1>11, <1>12, <1>13

\* The delete is announced.
LEMMA AnnounceDeleteStep ==
  ASSUME IInv, NEW t \in Deleters, AnnounceDelete(t)
  PROVE  IInv'
<1> USE DEF IInv
<1>1. /\ pc[t] = "deleted" /\ t \in Tasks /\ Httpd \in Tasks
      /\ page' = page \ {name[t]}
      /\ name' = [name EXCEPT ![t] = None] /\ pc' = [pc EXCEPT ![t] = "idle"]
      /\ UNCHANGED <<store, up, open, listing, listed, acked, crossed, ops>>
  BY DEF AnnounceDelete, Goto, pageVars, Tasks
<1>2. /\ pc'[t] = "idle" /\ \A s \in Tasks \ {t} : pc'[s] = pc[s] /\ name'[s] = name[s]
      /\ name'[t] = None /\ name[t] \in Names
  BY <1>1 DEF TypeOK, NameInv
<1>3. \A m \in Names : Unannounced(m) <=> Unannounced(m)' \/ m = name[t]
  BY <1>1, <1>2, NoneIsNeither DEF Unannounced
<1>4. TypeOK'
  BY <1>1 DEF TypeOK
<1>5. /\ pc'[Httpd] \in Uploading \cup {"list"} => pc'[Httpd] = pc[Httpd]
      /\ pc[Httpd] \in Uploading => pc'[Httpd] = pc[Httpd]
  BY <1>1, <1>2 DEF Uploading
<1>6. UpInv'
  BY <1>1, <1>5 DEF UpInv, Uploading, Received
<1>7. NameInv'
  BY <1>2 DEF NameInv
<1>8. CrossInv'
  <2>1. up.name \in Names \cup {None}
    BY DEF TypeOK
  <2>2. QED BY <1>1, <1>3, <2>1 DEF CrossInv
<1>9. WrittenInv' /\ ExistInv' /\ AckedInv' /\ ListInv'
  BY <1>1, <1>5 DEF WrittenInv, ExistInv, AckedInv, ListInv, Uploading
<1>10. PageInv'
  <2>1. SUFFICES ASSUME open, listed
                 PROVE  /\ \A m \in Names \ crossed :
                             ~Unsettled(m)' => (m \in page \ {name[t]} <=> store[m] # None)
                        /\ pc'[Httpd] = "announce" /\ up.name \notin crossed =>
                             (up.existed <=> up.name \in page \ {name[t]})
    BY <1>1 DEF PageInv
  <2>2. ASSUME NEW m \in Names \ crossed, ~Unsettled(m)'
        PROVE  m \in page \ {name[t]} <=> store[m] # None
    <3>1. CASE m = name[t]
      BY <1>1, <2>2, <3>1 DEF CrossInv, Unannounced
    <3>2. CASE m # name[t]
      <4>1. ~Unsettled(m)
        BY <1>1, <1>3, <1>5, <2>2, <3>2 DEF Unsettled, Uploading
      <4>2. QED BY <2>1, <2>2, <3>2, <4>1 DEF PageInv
    <3>3. QED BY <3>1, <3>2
  <2>3. ASSUME pc'[Httpd] = "announce", up.name \notin crossed
        PROVE  up.existed <=> up.name \in page \ {name[t]}
    <3>1. pc[Httpd] = "announce" /\ up.name \in Names
      BY <1>5, <2>3 DEF UpInv, Uploading
    <3>2. up.name # name[t]
      BY <1>1, <2>3, <3>1, NoneIsNeither DEF CrossInv, Unannounced
    <3>3. QED BY <2>1, <2>3, <3>1, <3>2 DEF PageInv
  <2>4. QED BY <2>2, <2>3
<1>11. QED BY <1>4, <1>6, <1>7, <1>8, <1>9, <1>10

\* A page comes or goes.
LEMMA PageStep ==
  ASSUME IInv, Open \/ Close
  PROVE  IInv'
<1> USE DEF IInv
<1>1. /\ page' = {} /\ listed' = FALSE /\ open' \in BOOLEAN
      /\ listing' = listing \/ listing' = None
      /\ UNCHANGED <<store, pc, up, name, acked, crossed, ops>>
  BY DEF Open, Close
<1>2. TypeOK'
  BY <1>1 DEF TypeOK
<1>3. \A m : Unannounced(m)' <=> Unannounced(m)
  BY <1>1 DEF Unannounced
<1>4. QED
  BY <1>1, <1>2, <1>3 DEF UpInv, NameInv, CrossInv, WrittenInv, AckedInv, ExistInv, PageInv,
     ListInv, Received

\* The list of the scripts is read.
LEMMA ListLoadStep ==
  ASSUME IInv, ListLoad
  PROVE  IInv'
<1> USE DEF IInv
<1>1. /\ pc[Httpd] = "idle" /\ ~listed /\ Httpd \in Tasks
      /\ listing' = {n \in Names : store[n] # None}
      /\ pc' = [pc EXCEPT ![Httpd] = "list"]
      /\ UNCHANGED <<store, up, name, open, page, listed, acked, crossed, ops>>
  BY DEF ListLoad, Goto, Tasks
<1>2. pc'[Httpd] = "list" /\ \A t \in Tasks \ {Httpd} : pc'[t] = pc[t]
  BY <1>1 DEF TypeOK
<1>3. TypeOK'
  BY <1>1 DEF TypeOK
<1>4. \A m : Unannounced(m)' <=> Unannounced(m)
  BY <1>1 DEF Unannounced
<1>5. UpInv' /\ NameInv' /\ CrossInv'
  BY <1>1, <1>2, <1>4 DEF UpInv, NameInv, CrossInv, Uploading
<1>6. WrittenInv' /\ AckedInv' /\ ExistInv' /\ PageInv' /\ ListInv'
  BY <1>1, <1>2 DEF WrittenInv, AckedInv, ExistInv, PageInv, ListInv
<1>7. QED BY <1>3, <1>5, <1>6

\* The list is sent; a script deleted and announced meanwhile is on it, and the
\* observer has it.
LEMMA ListReplyStep ==
  ASSUME IInv, ListReply
  PROVE  IInv'
<1> USE DEF IInv
<1>1. /\ pc[Httpd] = "list" /\ pc' = [pc EXCEPT ![Httpd] = "idle"] /\ listing' = None
      /\ Httpd \in Tasks /\ UNCHANGED <<store, up, name, open, acked, ops>>
  BY DEF ListReply, Goto, Tasks
<1>2. pc'[Httpd] = "idle" /\ up = NoUpload /\ \A t \in Tasks \ {Httpd} : pc'[t] = pc[t]
  BY <1>1 DEF TypeOK, UpInv, Uploading
<1>3. \A m : Unannounced(m)' <=> Unannounced(m)
  BY <1>1 DEF Unannounced
<1>4. UpInv' /\ NameInv' /\ WrittenInv' /\ ExistInv' /\ ListInv'
  BY <1>1, <1>2 DEF UpInv, NameInv, WrittenInv, ExistInv, ListInv, Uploading
<1>5. AckedInv'
  BY <1>1, <1>2 DEF AckedInv
<1>6. up.name = None
  BY <1>2 DEF NoUpload
<1>7. CASE UNCHANGED <<page, listed, crossed>>
  <2>1. TypeOK'
    BY <1>1, <1>7 DEF TypeOK
  <2>2. CrossInv' /\ PageInv'
    BY <1>1, <1>2, <1>3, <1>6, <1>7 DEF CrossInv, PageInv, Unsettled
  <2>3. QED BY <1>4, <1>5, <2>1, <2>2
<1>8. CASE /\ listing # None /\ page' = listing /\ listed' = TRUE
           /\ crossed' = {n \in listing : store[n] = None /\ ~Unannounced(n)}
                         \cup {n \in crossed : Unannounced(n)}
  <2>1. TypeOK'
    BY <1>1, <1>8 DEF TypeOK
  <2>2. \A n \in crossed : Unannounced(n) => n \in crossed'
    BY <1>8
  <2>3. CrossInv'
    BY <1>1, <1>3, <1>6, <2>2 DEF CrossInv
  <2>4. PageInv'
    <3>1. SUFFICES ASSUME NEW n \in Names \ crossed', ~Unannounced(n)
                   PROVE  n \in listing <=> store[n] # None
      BY <1>1, <1>2, <1>3, <1>8 DEF PageInv, Unsettled
    <3>2. n \in listing => store[n] # None
      BY <1>8, <3>1
    <3>3. QED BY <1>1, <1>8, <3>2 DEF ListInv
  <2>5. QED BY <1>4, <1>5, <2>1, <2>3, <2>4
<1>9. QED BY <1>7, <1>8 DEF ListReply

\* Every step keeps the invariant.
LEMMA InvStep == IInv /\ [Next]_vars => IInv'
<1> SUFFICES ASSUME IInv, [Next]_vars
             PROVE  IInv'
  OBVIOUS
<1>1. CASE UNCHANGED vars
  BY <1>1 DEF vars, pageVars, IInv, TypeOK, UpInv, NameInv, CrossInv, WrittenInv, AckedInv,
     ExistInv, PageInv, ListInv, Unsettled, Unannounced, Received
<1>2. CASE Upload \/ Recv \/ Write \/ Announce
  BY <1>2, UploadStep, RecvStep, WriteStep, AnnounceStep
<1>3. CASE Open \/ Close \/ ListLoad \/ ListReply
  BY <1>3, PageStep, ListLoadStep, ListReplyStep
<1>4. ASSUME NEW t \in Deleters, Delete(t) \/ AnnounceDelete(t)
      PROVE  IInv'
  BY <1>4, DeleteStep, AnnounceDeleteStep
<1>5. QED BY <1>1, <1>2, <1>3, <1>4 DEF Next

(***************************************************************************)
(* The theorems                                                            *)
(***************************************************************************)

\* The invariant holds in every behaviour.
THEOREM ScriptInvariance == Spec => []IInv
BY InvInit, InvStep, PTL DEF Spec

\* The state is always typed: no upload receives more than it was sent or more
\* than its buffer holds.
THEOREM ScriptsTyped == Spec => []TypeOK
<1>1. IInv => TypeOK
  BY DEF IInv
<1>2. QED BY <1>1, ScriptInvariance, PTL

\* A body that fits and that was received to its end is stored whole when its
\* upload is answered ok, and stays so until it is deleted or sent again.
THEOREM AckedSourceIsStored == Spec => []AckedSourceIsWhole
<1>1. IInv => AckedSourceIsWhole
  BY DEF IInv, AckedInv, AckedSourceIsWhole, Quiet, Tasks
<1>2. QED BY <1>1, ScriptInvariance, PTL

\* With every change announced, a page that has its list lists the scripts that
\* are there, however the uploads, deletes and lists were interleaved.
THEOREM PageFollowsScripts == Spec => []PageListsScripts
<1>1. IInv => PageListsScripts
  <2>1. SUFFICES ASSUME IInv, Quiet, open, listed
                 PROVE  \A n \in Names \ crossed : n \in page <=> store[n] # None
    BY DEF PageListsScripts, IInv, TypeOK
  <2>2. \A n \in Names : ~Unsettled(n)
    BY <2>1, NoneIsNeither DEF IInv, NameInv, Quiet, Unsettled, Unannounced, Tasks
  <2>3. QED BY <2>1, <2>2 DEF IInv, PageInv
<1>2. QED BY <1>1, ScriptInvariance, PTL
=============================================================================
