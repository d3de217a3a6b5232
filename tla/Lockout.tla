------------------------------- MODULE Lockout -------------------------------
(***************************************************************************)
(* The per-peer lockout of main/auth.cpp: five failed sign-ins within 60 s *)
(* and the peer is refused, right credential or wrong, until the first of  *)
(* them is 60 s old.                                                       *)
(*                                                                         *)
(* The failures of a peer are kept in one of eight buckets, a ring of      *)
(* uint32_t milliseconds in which 0 stands for "empty"; a new peer takes   *)
(* the least recently used bucket.  Every sign-in is handled by the httpd  *)
(* task, so the mutex around the buckets is never waited for.              *)
(*                                                                         *)
(* One unit of the clock stands for any number of milliseconds; the clock  *)
(* wraps at Wrap where now_ms() wraps at 2^32.                             *)
(***************************************************************************)
EXTENDS Integers, Sequences, FiniteSets

CONSTANTS
  Addresses,  \* peers that peer_ipv4 tells apart
  Shared,     \* address 0: WebSocket sign-ins, and peers without an address
  FailLimit,  \* kFailLimit
  Window,     \* kFailWindowMs
  Buckets,    \* kBuckets
  Wrap,       \* 2^32
  MaxTime     \* bound: the clock, counted without wrapping

ASSUME LockoutAssumption ==
  /\ Shared \notin Addresses /\ IsFiniteSet(Addresses)
  /\ FailLimit \in Nat \ {0} /\ Buckets \in Nat \ {0}
  /\ Window \in Nat \ {0} /\ Wrap \in Nat /\ Window < Wrap
  /\ MaxTime \in Nat

VARIABLES
  time,     \* esp_timer_get_time(), not wrapped
  buckets,  \* s_buckets
  fails     \* observer: per peer, the times of its last FailLimit + 1 failures

lockVars == <<time, buckets, fails>>

Peers == Addresses \cup {Shared}
Index == 0..(FailLimit - 1)

Bucket(ip) == [ip |-> ip, ts |-> [k \in Index |-> 0], head |-> 0, lastUse |-> 0]

now == time % Wrap

(***************************************************************************)
(* The buckets                                                             *)
(***************************************************************************)

\* bucket_find: the slots in use for this address (there is one at most).
InUse(ip) == {b \in 1..Buckets : buckets[b].lastUse # 0 /\ buckets[b].ip = ip}

\* Mutant: the bucket used last is taken.
MostRecent(b) == \A c \in 1..Buckets : buckets[b].lastUse >= buckets[c].lastUse

\* The scan for the least recently used bucket: the first with the lowest value.
LeastRecent(b) ==
  /\ \A c \in 1..Buckets : buckets[b].lastUse <= buckets[c].lastUse
  /\ \A c \in 1..(b - 1) : buckets[b].lastUse < buckets[c].lastUse

\* The ring of a bucket takes one more failure.
Noted(b) == [b EXCEPT !.lastUse = now, !.ts[b.head] = now, !.head = (b.head + 1) % FailLimit]

\* record_failure.
RecordFailure(ip) ==
  /\ IF InUse(ip) # {}
     THEN \E b \in InUse(ip) : buckets' = [buckets EXCEPT ![b] = Noted(buckets[b])]
     ELSE \E b \in 1..Buckets :
            /\ LeastRecent(b)
            /\ buckets' = [buckets EXCEPT ![b] = Noted(Bucket(ip))]
  /\ fails' = [fails EXCEPT ![ip] =
                 LET s == Append(@, time)
                 IN  IF Len(s) > FailLimit + 1 THEN Tail(s) ELSE s]

\* uint32_t subtraction.
Age(t) == (now - t) % Wrap

\* Mutant: a failure counts for one unit more.
CountsAtWindow(t) == t # 0 /\ Age(t) <= Window

\* A failure that still counts.
Counts(t) == t # 0 /\ Age(t) < Window

\* locked.
Locked(ip) ==
  \E b \in InUse(ip) : Cardinality({k \in Index : Counts(buckets[b].ts[k])}) >= FailLimit

(***************************************************************************)
(* Sign-ins with a wrong credential.  A right one changes nothing, even if *)
(* it is looked at: it does not clear the failures.                        *)
(***************************************************************************)

\* check_request, password_check and auth_check_token: the lock is looked at
\* first, only then the credential.
WrongCredential(ip) ==
  /\ ~Locked(ip)
  /\ RecordFailure(ip)
  /\ UNCHANGED time

\* The X-Api-Key header of a REST request, checked ahead of its handler.
RestKey(ip) == WrongCredential(ip)

\* The password of a login, and the current one of a password change (which with
\* sign-in off is compared all the same).
Password(ip) == WrongCredential(ip)

\* The "auth" message of a WebSocket: no address, all share one bucket.
SocketToken == WrongCredential(Shared)

Tick ==
  /\ time < MaxTime
  /\ time' = time + 1
  /\ UNCHANGED <<buckets, fails>>

\* The server starts some time after the clock did.
LockInit ==
  /\ time = 1
  /\ buckets = [b \in 1..Buckets |-> Bucket(Shared)]
  /\ fails = [ip \in Peers |-> <<>>]

LockNext ==
  \/ \E ip \in Peers : RestKey(ip) \/ Password(ip)
  \/ SocketToken
  \/ Tick

LockSpec == LockInit /\ [][LockNext]_lockVars

(***************************************************************************)
(* Properties                                                              *)
(***************************************************************************)

\* The failures of a peer that are less than Window old, by the true clock.
Recent(ip) == {k \in DOMAIN fails[ip] : time - fails[ip][k] < Window}

\* The peers other than ip that failed at or after this time.
OthersSince(ip, t) ==
  {q \in Peers \ {ip} : \E k \in DOMAIN fails[q] : fails[q][k] >= t}

\* In any Window a peer gets at most FailLimit wrong credentials compared, one
\* entry point or several ("5 failures in 60 s blocks that peer", auth.cpp:35),
\* unless as many other peers as there are buckets failed meanwhile (one of them
\* then took this peer's bucket); until the clock wraps for the first time.
GuessesAreBounded ==
  time < Wrap =>
    \A ip \in Peers :
      \/ Cardinality(Recent(ip)) <= FailLimit
      \/ \E k \in Recent(ip) : Cardinality(OthersSince(ip, fails[ip][k])) >= Buckets

\* A peer is refused only when it has itself failed FailLimit times in the last
\* Window, also across the wrap of the clock, unless a failure of its is a whole
\* turn of the clock old: then it looks recent again.
RefusedForCause ==
  \A ip \in Peers : Locked(ip) =>
    \/ Cardinality(Recent(ip)) >= FailLimit
    \/ \E k \in DOMAIN fails[ip] : time - fails[ip][k] >= Wrap
==============================================================================
