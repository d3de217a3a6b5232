---------------------------- MODULE SignInProofs ----------------------------
(***************************************************************************)
(* What AuthStore promises about passwords, tokens, switches and sessions, *)
(* for any passwords and sockets, any number of tokens, salts, NVS errors  *)
(* and resets, and every interleaving of httpd and the relay; then what    *)
(* Lockout promises about the sign-ins of a peer, for any addresses, any   *)
(* number of buckets and any limit, window and width of the clock.         *)
(*                                                                         *)
(* The two specifications share no variable: the first half is about       *)
(* Init, Next and vars, the second about LockInit, LockNext and lockVars.  *)
(***************************************************************************)
EXTENDS AuthStore, Lockout, Functions, FiniteSetTheorems, TLAPS


(***************************************************************************)
(* The inductive invariant                                                 *)
(***************************************************************************)

PwOps        == {"setup", "password"}
TokenOps     == {"rotate", "password"}
PwSteps      == {"set_salt", "set_hash", "commit_pw"}
TokenSteps   == {"set_token", "commit_token", "deauth"}
SettingSteps == {"flag_flash", "switch_ram", "switch_flash"}
AuthSteps    == {"check_token", "set_authed"}

\* No request without power, a token with it, and every request fits its step.
StepInv ==
  /\ power # "on" => /\ \A t \in Tasks : pc[t] = "idle"
                     /\ \A fd \in Sockets : sessions[fd] = None
  /\ power = "on" => ram.token # None
  /\ \A t \in Tasks :
       /\ pc[t] = "idle" => req[t].op = None
       /\ pc[t] \in PwSteps \cup AuthSteps \cup {"draw_token"} => t = Httpd
       /\ pc[t] \in PwSteps => req[t].op \in PwOps
       /\ pc[t] = "draw_token" => req[t].op = "password"
       /\ pc[t] \in TokenSteps => req[t].op \in TokenOps /\ req[t].token \in Tok
       /\ pc[t] \in AuthSteps => /\ req[t].op = "auth"
                                 /\ req[t].fd # None /\ req[t].token # None
       /\ pc[t] \in SettingSteps => req[t].op = "settings"
       /\ pc[t] = "flag_flash" => req[t].flag # None
       /\ pc[t] \in {"switch_ram", "switch_flash"} => req[t].on # None
       /\ req[t].op \in PwOps => t = Httpd /\ req[t].pw # None /\ req[t].salt # None

\* The observer has every overlap on one key.
RaceInv == ~raced => ~Clash(req[Httpd].op, req[Relay].op)

\* Before the first error and overlap, RAM and flash agree on a key but for the
\* task between the two writes of it.
Reliable == power = "on" /\ faults = 0 /\ ~raced

TokenInv ==
  Reliable =>
    /\ \A t \in Tasks : pc[t] = "commit_token" => flash.token = req[t].token
    /\ (\A t \in Tasks : pc[t] # "commit_token") => ram.token = flash.token

SwitchInv ==
  Reliable =>
    /\ \A t \in Tasks : pc[t] = "switch_flash" => ram.enabled = req[t].on
    /\ (\A t \in Tasks : pc[t] # "switch_flash") => ram.enabled = StoredSwitch

FlagInv ==
  Reliable =>
    /\ \A t \in Tasks : pc[t] = "flag_flash" => ram.flag = req[t].flag
    /\ (\A t \in Tasks : pc[t] # "flag_flash") => ram.flag = StoredFlag

\* sys_state_init comes before auth_init.
SysInv == power = "sys" /\ faults = 0 => ram.flag = StoredFlag

\* The password of the request in hand, of the change that rotates the token now.
Changing == req[Httpd].op = "password" /\ pc[Httpd] \in TokenSteps \cup {"draw_token"}

\* The stored pair: a hash never has a newer salt than the one beside it, and an
\* older one only when its write was cut or is about to come.
FlashPwInv ==
  /\ flash.hash # None => flash.salt # None /\ flash.hash.salt <= flash.salt
  /\ flash.salt # None => flash.salt <= drawn.salt
  /\ flash.hash # None /\ ~torn /\ pc[Httpd] # "set_hash" => flash.hash.salt = flash.salt
  /\ flash.hash # None /\ torn => flash.hash.salt < flash.salt
  /\ pc[Httpd] \in PwSteps => req[Httpd].salt = drawn.salt
  /\ pc[Httpd] = "set_salt" /\ flash.salt # None => flash.salt < drawn.salt
  /\ pc[Httpd] = "set_hash" => /\ flash.salt = drawn.salt
                               /\ flash.hash # None => flash.hash.salt < drawn.salt
  /\ pc[Httpd] = "commit_pw" \/ Changing =>
       flash.salt = req[Httpd].salt /\ flash.hash = NewHash

\* A pair that is the acknowledged one or newer.
NotOlder(hash) ==
  /\ hash # None /\ acked.salt <= hash.salt
  /\ acked.salt = hash.salt => acked.pw = hash.pw

AckedInv ==
  acked.pw # None =>
    /\ acked.salt # None /\ acked.salt <= drawn.salt
    /\ NotOlder(flash.hash)
    /\ req[Httpd].op \in PwOps => acked.salt < req[Httpd].salt

\* The pair in RAM goes together unless a boot loaded a cut one: then no change
\* of it gets past the comparison, and the cut stays.
RamPwInv ==
  /\ power = "on" /\ ram.pwSet =>
       /\ ram.salt # None /\ ram.hash # None
       /\ ram.hash.salt = ram.salt \/ (torn /\ req[Httpd].op \notin PwOps)
  /\ power = "on" /\ acked.pw # None =>
       /\ ram.pwSet \/ ram.storageError \/ unread
       /\ ram.pwSet => NotOlder(ram.hash)
  /\ Changing => ram.pwSet /\ ram.salt = req[Httpd].salt /\ ram.hash = NewHash

\* Before the first error the password in RAM is the stored one, but during the
\* writes.
PwMatchInv ==
  power = "on" /\ faults = 0 /\ pc[Httpd] \notin {"set_hash", "commit_pw"} =>
    /\ ram.pwSet = StoredPassword
    /\ ram.pwSet => ram.salt = flash.salt /\ ram.hash = flash.hash

\* Sessions and a sign-in about to be marked showed the current token, unless the
\* observer has the socket, but between a new token and the end of the old sessions;
\* a sign-in in hand is of a socket without a session.
SessionInv ==
  /\ pc[Httpd] \in AuthSteps => sessions[req[Httpd].fd] = None
  /\ (\A t \in Tasks : pc[t] # "deauth") =>
       /\ \A fd \in Sockets \ excused : sessions[fd] \in {None, ram.token}
       /\ pc[Httpd] = "set_authed" /\ req[Httpd].fd \notin excused =>
            req[Httpd].token = ram.token

KeyInv == TokenInv /\ SwitchInv /\ FlagInv /\ SysInv
PwInv  == FlashPwInv /\ AckedInv /\ RamPwInv /\ PwMatchInv
IInv   == TypeOK /\ StepInv /\ RaceInv /\ KeyInv /\ PwInv /\ SessionInv

(***************************************************************************)
(* Types and frames                                                        *)
(***************************************************************************)

LEMMA Apart ==
  /\ None \notin Tok /\ None \notin Shown /\ Tok \subseteq Shown /\ None \notin Salt /\ None \notin Passwords /\ None \notin BOOLEAN
  /\ None \notin Sockets /\ None \notin Hash
  /\ None \notin {"setup", "password", "rotate", "settings", "auth"}
  /\ Tasks = {Httpd, Relay} /\ Httpd # Relay
BY AuthAssumption DEF Tok, Shown, Salt, Hash, Tasks

\* The fields of RAM, flash and what was drawn.
LEMMA Fields ==
  ASSUME TypeOK
  PROVE  /\ ram.token \in Tok \cup {None} /\ ram.enabled \in BOOLEAN
         /\ ram.pwSet \in BOOLEAN /\ ram.salt \in Salt \cup {None}
         /\ ram.hash \in Hash \cup {None} /\ ram.storageError \in BOOLEAN
         /\ ram.flag \in BOOLEAN
         /\ flash.token \in Tok \cup {None} /\ flash.enabled \in BOOLEAN \cup {None}
         /\ flash.salt \in Salt \cup {None} /\ flash.hash \in Hash \cup {None}
         /\ flash.flag \in BOOLEAN \cup {None}
         /\ drawn.token \in 0..MaxTokens /\ drawn.salt \in 0..MaxSalts
         /\ \A t \in Tasks : req[t] \in Requests
BY DEF TypeOK

\* The fields of a request, and none of an ended one.
LEMMA RequestFields ==
  /\ \A r \in Requests :
       /\ r.op \in {"setup", "password", "rotate", "settings", "auth", None}
       /\ r.pw \in Passwords \cup {None} /\ r.salt \in Salt \cup {None}
       /\ r.token \in Shown \cup {None} /\ r.on \in BOOLEAN \cup {None}
       /\ r.flag \in BOOLEAN \cup {None} /\ r.fd \in Sockets \cup {None}
  /\ NoReq \in Requests /\ NoReq.op = None
BY DEF Requests, NoReq

\* An operation that is none clashes with nothing.
LEMMA NoClash ==
  /\ \A a : ~Clash(None, a) /\ ~Clash(a, None) /\ ~Clash("setup", a) /\ ~Clash(a, "setup")
  /\ \A a : ~Clash("auth", a) /\ ~Clash(a, "auth")
  /\ \A a, b : Clash(a, b) <=> Clash(b, a)
BY Apart DEF Clash

Steps == {"idle", "set_salt", "set_hash", "commit_pw", "draw_token",
          "set_token", "commit_token", "deauth", "check_token", "set_authed",
          "flag_flash", "switch_ram", "switch_flash"}

\* A step that moves one task.
Moved(t, step) ==
  /\ pc'[t] = step /\ \A u \in Tasks \ {t} : pc'[u] = pc[u]
  /\ pc' \in [Tasks -> Steps]

LEMMA GotoMoves ==
  ASSUME TypeOK, NEW t \in Tasks, NEW step \in Steps, Goto(t, step)
  PROVE  Moved(t, step) /\ req' = req
BY DEF Goto, Moved, TypeOK, Steps

LEMMA FinishMoves ==
  ASSUME TypeOK, NEW t \in Tasks, Finish(t)
  PROVE  /\ Moved(t, "idle") /\ req'[t].op = None
         /\ req' \in [Tasks -> Requests] /\ \A u \in Tasks \ {t} : req'[u] = req[u]
BY RequestFields DEF Finish, Moved, TypeOK, Steps

LEMMA BeginMoves ==
  ASSUME TypeOK, NEW t \in Tasks, NEW step \in Steps, NEW r \in Requests, Begin(t, r, step)
  PROVE  /\ Moved(t, step) /\ req'[t] = r
         /\ req' \in [Tasks -> Requests] /\ \A u \in Tasks \ {t} : req'[u] = req[u]
BY DEF Begin, Moved, TypeOK, Steps

\* A request in hand is served with power.
LEMMA ServesWithPower ==
  ASSUME StepInv, NEW t \in Tasks, pc[t] # "idle", UNCHANGED power
  PROVE  SysInv'
BY DEF StepInv, SysInv

(***************************************************************************)
(* password_store                                                          *)
(***************************************************************************)

LEMMA SetSaltStep == IInv /\ SetSalt => IInv'
<1> SUFFICES ASSUME IInv, SetSalt
             PROVE  IInv'
  OBVIOUS
<1> USE DEF IInv, KeyInv, PwInv
<1>1. /\ pc[Httpd] = "set_salt" /\ Httpd \in Tasks /\ Moved(Httpd, "set_hash")
      /\ UNCHANGED <<req, ram, power, window, sessions, drawn, acked, torn, raced, unread, excused, faults, crashes>>
  BY GotoMoves DEF SetSalt, Tasks, Steps, observers
<1>2. /\ flash'.salt = req[Httpd].salt /\ flash'.hash = flash.hash
      /\ flash'.token = flash.token /\ flash'.enabled = flash.enabled /\ flash'.flag = flash.flag
  BY DEF SetSalt, TypeOK
<1>3. req[Httpd].salt \in Salt /\ req[Httpd].op \in PwOps /\ req[Httpd].salt = drawn.salt
  BY <1>1, Fields, RequestFields DEF StepInv, FlashPwInv, PwOps, PwSteps
<1>4. TypeOK'
  BY <1>1, <1>3 DEF TypeOK, SetSalt, Moved, Steps
<1>5. StepInv'
  BY <1>1, <1>3 DEF StepInv, Moved, PwSteps, TokenSteps, SettingSteps, AuthSteps, PwOps
<1>6. RaceInv'
  BY <1>1 DEF RaceInv
<1>7. TokenInv' /\ SwitchInv' /\ FlagInv'
  BY <1>1, <1>2 DEF TokenInv, SwitchInv, FlagInv, Reliable, Moved, StoredSwitch, StoredFlag
<1>8. FlashPwInv'
  BY <1>1, <1>2, <1>3, Fields, Apart DEF FlashPwInv, Moved, Changing, PwSteps, TokenSteps, Salt, Hash
<1>9. AckedInv'
  BY <1>1, <1>2 DEF AckedInv, NotOlder
<1>10. RamPwInv'
  BY <1>1 DEF RamPwInv, Moved, Changing, TokenSteps, NotOlder
<1>11. PwMatchInv'
  BY <1>1 DEF PwMatchInv, Moved
<1>12. SessionInv'
  BY <1>1 DEF SessionInv, AuthSteps, Moved
<1>13. SysInv'
  BY <1>1, ServesWithPower
<1>14. QED BY <1>4, <1>5, <1>6, <1>7, <1>8, <1>9, <1>10, <1>11, <1>12, <1>13

\* The hash goes with the salt that is in flash, and both are newer than what
\* was acknowledged.
LEMMA SetHashStep == IInv /\ SetHash => IInv'
<1> SUFFICES ASSUME IInv, SetHash
             PROVE  IInv'
  OBVIOUS
<1> USE DEF IInv, KeyInv, PwInv
<1>1. /\ pc[Httpd] = "set_hash" /\ Httpd \in Tasks /\ Moved(Httpd, "commit_pw") /\ torn' = FALSE
      /\ UNCHANGED <<req, ram, power, window, sessions, drawn, acked, raced, unread, excused, faults, crashes>>
  BY GotoMoves DEF SetHash, Tasks, Steps
<1>2. /\ flash'.salt = flash.salt /\ flash'.hash = NewHash
      /\ flash'.token = flash.token /\ flash'.enabled = flash.enabled /\ flash'.flag = flash.flag
  BY DEF SetHash, TypeOK
<1>3. /\ req[Httpd].salt \in Salt /\ req[Httpd].pw \in Passwords
      /\ req[Httpd].op \in PwOps /\ req[Httpd].salt = drawn.salt
  BY <1>1, Fields, RequestFields DEF StepInv, FlashPwInv, PwOps, PwSteps
<1>4. /\ NewHash \in Hash /\ NewHash' = NewHash /\ NewHash # None
      /\ NewHash.salt = req[Httpd].salt /\ NewHash.pw = req[Httpd].pw
  BY <1>1, <1>3, Apart DEF NewHash, Hash
<1>5. TypeOK'
  <2> DEFINE Stores == [token : Tok \cup {None}, enabled : BOOLEAN \cup {None},
                        salt : Salt \cup {None}, hash : Hash \cup {None},
                        flag : BOOLEAN \cup {None}]
  <2>1. flash \in Stores /\ flash' = [flash EXCEPT !.hash = NewHash]
    BY DEF TypeOK, SetHash
  <2>2. flash' \in Stores
    BY <1>4, <2>1
  <2>3. TypeOK /\ torn' \in BOOLEAN
    BY <1>1
  <2>4. pc' \in [Tasks -> Steps]
    BY <1>1, <2>3 DEF Moved, TypeOK, Steps
  <2> HIDE DEF IInv, KeyInv, PwInv
  <2>5. QED BY <1>1, <2>2, <2>3, <2>4 DEF TypeOK, Steps
<1>6. StepInv'
  BY <1>1, <1>3 DEF StepInv, Moved, PwSteps, TokenSteps, SettingSteps, AuthSteps, PwOps
<1>7. RaceInv'
  BY <1>1 DEF RaceInv
<1>8. TokenInv' /\ SwitchInv' /\ FlagInv'
  BY <1>1, <1>2 DEF TokenInv, SwitchInv, FlagInv, Reliable, Moved, StoredSwitch, StoredFlag
<1>9. FlashPwInv'
  BY <1>1, <1>2, <1>3, <1>4, Fields, Apart
  DEF FlashPwInv, Moved, Changing, PwSteps, TokenSteps, Salt
<1>10. AckedInv'
  BY <1>1, <1>2, <1>3, <1>4, Fields DEF AckedInv, NotOlder, TypeOK, Salt
<1>11. RamPwInv'
  BY <1>1, <1>3 DEF RamPwInv, Moved, Changing, TokenSteps, NotOlder
<1>12. PwMatchInv'
  BY <1>1 DEF PwMatchInv, Moved
<1>13. SessionInv'
  BY <1>1 DEF SessionInv, AuthSteps, Moved
<1>14. SysInv'
  BY <1>1, ServesWithPower
<1>15. QED BY <1>5, <1>6, <1>7, <1>8, <1>9, <1>10, <1>11, <1>12, <1>13, <1>14

\* RAM takes the pair; a setup is acknowledged.
LEMMA PwCommitStep == IInv /\ PwCommit => IInv'
<1> SUFFICES ASSUME IInv, PwCommit
             PROVE  IInv'
  OBVIOUS
<1> USE DEF IInv, KeyInv, PwInv
<1>1. /\ pc[Httpd] = "commit_pw" /\ Httpd \in Tasks
      /\ unread' = FALSE
      /\ UNCHANGED <<flash, power, window, sessions, drawn, torn, raced, excused, faults, crashes>>
  BY DEF PwCommit, Tasks
<1>2. /\ ram'.salt = req[Httpd].salt /\ ram'.hash = NewHash /\ ram'.pwSet = TRUE
      /\ ram'.token = ram.token /\ ram'.enabled = ram.enabled
      /\ ram'.flag = ram.flag /\ ram'.storageError = ram.storageError
  BY DEF PwCommit, TypeOK
<1>3. /\ req[Httpd].salt \in Salt /\ req[Httpd].pw \in Passwords
      /\ req[Httpd].op \in PwOps /\ req[Httpd].salt = drawn.salt
      /\ flash.salt = req[Httpd].salt /\ flash.hash = NewHash
  BY <1>1, Fields, RequestFields DEF StepInv, FlashPwInv, PwOps, PwSteps
<1>4. /\ NewHash \in Hash /\ NewHash # None
      /\ NewHash.salt = req[Httpd].salt /\ NewHash.pw = req[Httpd].pw
  BY <1>1, <1>3, Apart DEF NewHash, Hash
<1>5. \/ /\ req[Httpd].op = "setup" /\ Moved(Httpd, "idle") /\ req'[Httpd].op = None
         /\ req' \in [Tasks -> Requests] /\ req'[Relay] = req[Relay]
         /\ acked' = NewHash
      \/ /\ req[Httpd].op = "password" /\ Moved(Httpd, "draw_token")
         /\ req' = req /\ acked' = acked
  BY <1>1, <1>3, GotoMoves, FinishMoves, Apart DEF PwCommit, Tasks, Steps, PwOps
<1>6. TypeOK'
  <2>1. ram' \in [token : Tok \cup {None}, enabled : BOOLEAN, pwSet : BOOLEAN,
                  salt : Salt \cup {None}, hash : Hash \cup {None}, storageError : BOOLEAN,
                  flag : BOOLEAN]
    BY <1>3, <1>4 DEF PwCommit, TypeOK
  <2>2. acked' \in [pw : Passwords \cup {None}, salt : Salt \cup {None}]
    BY <1>4, <1>5 DEF TypeOK, Hash
  <2>3. unread' \in BOOLEAN
    BY <1>1
  <2>4. req' \in [Tasks -> Requests] /\ pc' \in [Tasks -> Steps]
    BY <1>5 DEF TypeOK, Moved
  <2>5. QED BY <1>1, <2>1, <2>2, <2>3, <2>4 DEF TypeOK, Steps
<1>7. /\ power = "on" /\ req'[Relay] = req[Relay] /\ pc'[Relay] = pc[Relay]
      /\ Relay \in Tasks /\ pc'[Httpd] \in {"idle", "draw_token"}
      /\ req'[Httpd].op \in {None, "password"}
      /\ pc'[Httpd] = "idle" => req'[Httpd].op = None
      /\ pc'[Httpd] # "idle" => req' = req /\ req[Httpd].op = "password"
  BY <1>1, <1>5, Apart DEF StepInv, Moved
<1>8. StepInv'
  BY <1>1, <1>2, <1>3, <1>7, Apart DEF StepInv, PwSteps, TokenSteps, SettingSteps, AuthSteps, PwOps
<1>9. RaceInv'
  BY <1>1, <1>5, <1>7, NoClash, Apart DEF RaceInv
<1>10. TokenInv' /\ SwitchInv' /\ FlagInv'
  <2>1. /\ \A t \in Tasks : pc'[t] \in {"commit_token", "switch_flash", "flag_flash"} => t = Relay
        /\ pc[Httpd] \notin {"commit_token", "switch_flash", "flag_flash"}
        /\ Reliable' = Reliable /\ StoredSwitch' = StoredSwitch /\ StoredFlag' = StoredFlag
    BY <1>1, <1>7, Apart DEF Reliable, StoredSwitch, StoredFlag
  <2>2. TokenInv'
    BY <1>1, <1>2, <1>7, <2>1, Apart DEF TokenInv
  <2>3. SwitchInv'
    BY <1>1, <1>2, <1>7, <2>1, Apart DEF SwitchInv
  <2>4. FlagInv'
    BY <1>1, <1>2, <1>7, <2>1, Apart DEF FlagInv
  <2>5. QED BY <2>2, <2>3, <2>4
<1>11. NewHash' = NewHash \/ pc'[Httpd] = "idle"
  BY <1>7 DEF NewHash
<1>12. FlashPwInv'
  BY <1>1, <1>3, <1>5, <1>7, <1>11, Apart DEF FlashPwInv, Changing, PwSteps, TokenSteps, Moved
<1>13. AckedInv'
  <2>1. CASE acked' = NewHash /\ req'[Httpd].op = None
    BY <1>1, <1>3, <1>4, <2>1, Fields, Apart DEF AckedInv, NotOlder, PwOps, Salt
  <2>2. CASE req' = req /\ acked' = acked
    BY <1>1, <2>2 DEF AckedInv, NotOlder
  <2>3. QED BY <1>5, <2>1, <2>2
<1>14. RamPwInv'
  <2>1. acked'.pw # None => NotOlder(ram.hash)'
    <3>1. CASE acked' = NewHash
      BY <1>2, <1>3, <1>4, <3>1 DEF NotOlder, Salt
    <3>2. CASE acked' = acked
      BY <1>1, <1>2, <1>3, <1>4, <3>2 DEF NotOlder, AckedInv
    <3>3. QED BY <1>5, <3>1, <3>2
  <2>2. QED BY <1>1, <1>2, <1>3, <1>4, <1>7, <1>11, <2>1, Apart
        DEF RamPwInv, Changing, TokenSteps, NotOlder
<1>15. PwMatchInv'
  BY <1>1, <1>2, <1>3, <1>4, Apart DEF PwMatchInv, StoredPassword
<1>16. SessionInv'
  BY <1>1, <1>2, <1>7, Apart DEF SessionInv, AuthSteps
<1>17. SysInv'
  BY <1>1, ServesWithPower
<1>18. QED BY <1>6, <1>8, <1>9, <1>10, <1>12, <1>13, <1>14, <1>15, <1>16, <1>17

\* A failing NVS call ends the request; what was written stays written.
LEMMA FailStep ==
  IInv /\ (SaltFails \/ PwCommitFails \/ \E t \in Tasks : TokenFails(t) \/ TokenCommitFails(t))
    => IInv'
<1> SUFFICES ASSUME IInv,
                    SaltFails \/ PwCommitFails \/ \E t \in Tasks : TokenFails(t) \/ TokenCommitFails(t)
             PROVE  IInv'
  OBVIOUS
<1> USE DEF IInv, KeyInv, PwInv
<1>1. PICK t \in Tasks : /\ pc[t] \in {"set_salt", "commit_pw", "set_token", "commit_token"}
                         /\ Finish(t)
  BY Apart DEF SaltFails, PwCommitFails, TokenFails, TokenCommitFails, StepFails
<1>2. /\ \E call \in NvsCalls : MayFail(call)
      /\ faults' = faults + 1
      /\ UNCHANGED <<ram, flash, power, window, sessions, drawn, acked, torn, raced, unread, excused, crashes>>
  BY DEF SaltFails, PwCommitFails, TokenFails, TokenCommitFails, StepFails, observers,
             NvsCalls, BootCalls
<1>3. faults' \in 0..MaxFaults /\ faults' # 0
  BY <1>2, AuthAssumption DEF MayFail, TypeOK
<1>4. /\ Moved(t, "idle") /\ req'[t].op = None
      /\ req' \in [Tasks -> Requests] /\ \A u \in Tasks \ {t} : req'[u] = req[u]
  BY <1>1, FinishMoves
<1>5. TypeOK'
  BY <1>2, <1>3, <1>4 DEF TypeOK, Moved, Steps
<1>6. StepInv'
  BY <1>1, <1>2, <1>4, Apart DEF StepInv, Moved, PwSteps, TokenSteps, SettingSteps, AuthSteps, PwOps
<1>7. RaceInv'
  BY <1>2, <1>4, NoClash, Apart DEF RaceInv
<1>8. TokenInv' /\ SwitchInv' /\ FlagInv' /\ PwMatchInv'
  BY <1>3 DEF TokenInv, SwitchInv, FlagInv, PwMatchInv, Reliable
<1>9. Httpd \in Tasks /\ (t # Httpd => req'[Httpd] = req[Httpd] /\ pc'[Httpd] = pc[Httpd])
  BY <1>4, Apart DEF Moved
<1>10. Changing' => Changing /\ req'[Httpd] = req[Httpd]
  BY <1>4, <1>9, Apart DEF Changing, Moved, TokenSteps
<1>11. FlashPwInv'
  <2>1. CASE t = Httpd
    BY <1>1, <1>2, <1>4, <1>10, <2>1, Apart DEF FlashPwInv, Moved, PwSteps, NewHash
  <2>2. CASE t # Httpd
    BY <1>2, <1>9, <1>10, <2>2 DEF FlashPwInv, NewHash
  <2>3. QED BY <2>1, <2>2
<1>12. AckedInv'
  BY <1>2, <1>4, <1>9, Apart DEF AckedInv, NotOlder, PwOps
<1>13. RamPwInv'
  BY <1>2, <1>4, <1>9, <1>10, Apart DEF RamPwInv, NotOlder, PwOps, NewHash
<1>14. SessionInv'
  BY <1>1, <1>2, <1>4, <1>9 DEF SessionInv, AuthSteps, Moved
<1>15. SysInv'
  BY <1>1, <1>2, ServesWithPower
<1>16. QED BY <1>5, <1>6, <1>7, <1>8, <1>11, <1>12, <1>13, <1>14, <1>15

\* The hash is not written: the pair in flash is cut.
LEMMA HashFailsStep == IInv /\ HashFails => IInv'
<1> SUFFICES ASSUME IInv, HashFails
             PROVE  IInv'
  OBVIOUS
<1> USE DEF IInv, KeyInv, PwInv
<1>1. /\ pc[Httpd] = "set_hash" /\ Httpd \in Tasks /\ Finish(Httpd) /\ torn' = TRUE
      /\ \E call \in NvsCalls : MayFail(call)
      /\ faults' = faults + 1
      /\ UNCHANGED <<ram, flash, power, window, sessions, drawn, acked, raced, unread, excused, crashes>>
  BY Apart DEF HashFails, StepFails, NvsCalls, BootCalls
<1>2. faults' \in 0..MaxFaults /\ faults' # 0
  BY <1>1, AuthAssumption DEF MayFail, TypeOK
<1>3. /\ Moved(Httpd, "idle") /\ req'[Httpd].op = None
      /\ req' \in [Tasks -> Requests] /\ \A u \in Tasks \ {Httpd} : req'[u] = req[u]
  BY <1>1, FinishMoves
<1>4. TypeOK'
  BY <1>1, <1>2, <1>3 DEF TypeOK, Moved, Steps
<1>5. StepInv'
  BY <1>1, <1>3, Apart DEF StepInv, Moved, PwSteps, TokenSteps, SettingSteps, AuthSteps, PwOps
<1>6. RaceInv'
  BY <1>1, <1>3, NoClash, Apart DEF RaceInv
<1>7. TokenInv' /\ SwitchInv' /\ FlagInv' /\ PwMatchInv'
  BY <1>2 DEF TokenInv, SwitchInv, FlagInv, PwMatchInv, Reliable
<1>8. FlashPwInv'
  BY <1>1, <1>3, Apart DEF FlashPwInv, Moved, Changing, PwSteps, TokenSteps
<1>9. AckedInv'
  BY <1>1, <1>3, Apart DEF AckedInv, NotOlder, PwOps
<1>10. RamPwInv'
  BY <1>1, <1>3, Apart DEF RamPwInv, NotOlder, PwOps, Changing, Moved, TokenSteps
<1>11. SessionInv'
  BY <1>1, <1>3 DEF SessionInv, AuthSteps, Moved
<1>12. SysInv'
  BY <1>1, ServesWithPower
<1>13. QED BY <1>4, <1>5, <1>6, <1>7, <1>8, <1>9, <1>10, <1>11, <1>12

(***************************************************************************)
(* auth_rotate_token                                                       *)
(***************************************************************************)

\* A password change goes on with a new token.
LEMMA DrawTokenStep == IInv /\ DrawToken => IInv'
<1> SUFFICES ASSUME IInv, DrawToken
             PROVE  IInv'
  OBVIOUS
<1> USE DEF IInv, KeyInv, PwInv
<1>1. /\ pc[Httpd] = "draw_token" /\ Httpd \in Tasks
      /\ pc' = [pc EXCEPT ![Httpd] = "set_token"]
      /\ drawn.token < MaxTokens
      /\ drawn'.token = drawn.token + 1 /\ drawn'.salt = drawn.salt
      /\ UNCHANGED <<ram, flash, power, window, sessions, acked, torn, raced, unread, excused, faults, crashes>>
  BY DEF DrawToken, TypeOK, observers, Tasks
<1>2. drawn.token + 1 \in Tok /\ drawn.token + 1 # None
  BY <1>1, Fields, AuthAssumption, Apart DEF Tok
<1>3. /\ req'[Httpd].op = req[Httpd].op /\ req'[Httpd].pw = req[Httpd].pw
      /\ req'[Httpd].salt = req[Httpd].salt /\ req'[Httpd].on = req[Httpd].on
      /\ req'[Httpd].flag = req[Httpd].flag /\ req'[Httpd].fd = req[Httpd].fd
      /\ req'[Httpd].token = drawn.token + 1
      /\ \A u \in Tasks \ {Httpd} : req'[u] = req[u]
  BY <1>1 DEF DrawToken, TypeOK, Requests
<1>4. req' \in [Tasks -> Requests] /\ req[Httpd].op = "password" /\ Moved(Httpd, "set_token")
  <2>1. drawn.token + 1 \in Shown \cup {None}
    BY <1>2, Apart
  <2>2. QED BY <1>1, <2>1 DEF DrawToken, TypeOK, Requests, StepInv, Moved, Steps
<1>5. drawn' \in [token : 0..MaxTokens, salt : 0..MaxSalts]
  BY <1>1, AuthAssumption DEF DrawToken, TypeOK
<1>6. TypeOK'
  BY <1>1, <1>4, <1>5 DEF TypeOK, Moved, Steps
<1>7. StepInv'
  BY <1>1, <1>2, <1>3, <1>4, Apart
  DEF StepInv, Moved, PwSteps, TokenSteps, SettingSteps, AuthSteps, PwOps, TokenOps
<1>8. RaceInv'
  BY <1>1, <1>3, Apart DEF RaceInv
<1>9. Reliable' = Reliable /\ StoredSwitch' = StoredSwitch /\ StoredFlag' = StoredFlag
  BY <1>1 DEF Reliable, StoredSwitch, StoredFlag
<1>10. TokenInv' /\ SwitchInv' /\ FlagInv'
  BY <1>1, <1>3, <1>4, <1>9 DEF TokenInv, SwitchInv, FlagInv, Moved
<1>11. Changing /\ NewHash' = NewHash
  BY <1>1, <1>3, <1>4 DEF Changing, NewHash
<1>12. FlashPwInv'
  BY <1>1, <1>3, <1>4, <1>11 DEF FlashPwInv, Moved, PwSteps
<1>13. AckedInv'
  BY <1>1, <1>3 DEF AckedInv, NotOlder
<1>14. RamPwInv'
  BY <1>1, <1>3, <1>11 DEF RamPwInv, NotOlder
<1>15. PwMatchInv'
  BY <1>1, <1>4 DEF PwMatchInv, Moved, StoredPassword
<1>16. SessionInv'
  BY <1>1, <1>4 DEF SessionInv, AuthSteps, Moved
<1>17. SysInv'
  BY <1>1, ServesWithPower
<1>18. QED BY <1>6, <1>7, <1>8, <1>10, <1>12, <1>13, <1>14, <1>15, <1>16, <1>17

\* A step that leaves the password alone, in RAM, in flash and in the request.
LEMMA PwFrame ==
  ASSUME PwInv,
         UNCHANGED <<power, acked, torn, unread>>, drawn'.salt = drawn.salt,
         ram'.salt = ram.salt, ram'.hash = ram.hash, ram'.pwSet = ram.pwSet,
         ram'.storageError = ram.storageError,
         flash'.salt = flash.salt, flash'.hash = flash.hash,
         faults' = 0 => faults = 0,
         pc'[Httpd] = pc[Httpd] \/ (pc'[Httpd] \notin PwSteps /\ pc[Httpd] \notin PwSteps),
         Changing' => Changing,
         req'[Httpd] = req[Httpd] \/ (pc'[Httpd] \notin PwSteps /\ req'[Httpd].op \notin PwOps)
  PROVE  PwInv'
<1> USE DEF PwInv
<1>1. Changing' => NewHash' = NewHash /\ req'[Httpd] = req[Httpd]
  BY DEF Changing, NewHash, PwOps
<1>2. pc'[Httpd] = "commit_pw" => NewHash' = NewHash /\ req'[Httpd] = req[Httpd]
  BY DEF PwSteps, NewHash
<1>3. FlashPwInv'
  BY <1>1, <1>2 DEF FlashPwInv, PwSteps
<1>4. AckedInv'
  BY DEF AckedInv, NotOlder
<1>5. RamPwInv'
  BY <1>1 DEF RamPwInv, NotOlder
<1>6. PwMatchInv'
  BY DEF PwMatchInv, StoredPassword, PwSteps
<1>7. QED BY <1>3, <1>4, <1>5, <1>6

\* The token is written.
LEMMA SetTokenStep == ASSUME IInv, NEW t \in Tasks, SetToken(t) PROVE IInv'
<1> USE DEF IInv, KeyInv
<1>1. /\ pc[t] = "set_token" /\ Moved(t, "commit_token")
      /\ UNCHANGED <<req, ram, power, window, sessions, drawn, acked, torn, raced, unread, excused, faults, crashes>>
  BY GotoMoves DEF SetToken, Steps, observers
<1>2. /\ flash'.token = req[t].token
      /\ flash'.salt = flash.salt /\ flash'.hash = flash.hash
      /\ flash'.enabled = flash.enabled /\ flash'.flag = flash.flag
  BY DEF SetToken, TypeOK
<1>3. req[t].token \in Tok /\ req[t].op \in TokenOps
  BY <1>1, Fields, RequestFields DEF StepInv, TokenSteps
<1>4. TypeOK'
  BY <1>1, <1>3 DEF TypeOK, SetToken, Moved, Steps
<1>5. StepInv'
  BY <1>1, <1>3 DEF StepInv, Moved, PwSteps, TokenSteps, SettingSteps, AuthSteps, PwOps
<1>6. RaceInv'
  BY <1>1 DEF RaceInv
<1>7. Reliable' = Reliable /\ StoredSwitch' = StoredSwitch /\ StoredFlag' = StoredFlag
  BY <1>1, <1>2 DEF Reliable, StoredSwitch, StoredFlag
<1>8. TokenInv'
  <2>1. ASSUME ~raced, NEW u \in Tasks, u # t
        PROVE  pc[u] # "commit_token"
    BY <1>3, <2>1, Apart DEF RaceInv, Clash, StepInv, TokenOps, TokenSteps
  <2>2. QED BY <1>1, <1>2, <1>7, <2>1 DEF TokenInv, Moved, Reliable
<1>9. SwitchInv' /\ FlagInv'
  BY <1>1, <1>7 DEF SwitchInv, FlagInv, Moved
<1>10. PwInv'
  BY <1>1, <1>2, PwFrame, Apart DEF Moved, Changing, PwSteps, TokenSteps
<1>11. SessionInv'
  BY <1>1, Apart DEF SessionInv, AuthSteps, Moved
<1>12. SysInv'
  BY <1>1, ServesWithPower
<1>13. QED BY <1>4, <1>5, <1>6, <1>8, <1>9, <1>10, <1>11, <1>12

\* RAM takes the token.
LEMMA TokenCommitStep == ASSUME IInv, NEW t \in Tasks, TokenCommit(t) PROVE IInv'
<1> USE DEF IInv, KeyInv
<1>1. /\ pc[t] = "commit_token" /\ Moved(t, "deauth")
      /\ UNCHANGED <<req, flash, power, window, sessions, drawn, acked, torn, raced, unread, excused, faults, crashes>>
  BY GotoMoves DEF TokenCommit, Steps, observers
<1>2. /\ ram'.token = req[t].token
      /\ ram'.salt = ram.salt /\ ram'.hash = ram.hash /\ ram'.pwSet = ram.pwSet
      /\ ram'.storageError = ram.storageError
      /\ ram'.enabled = ram.enabled /\ ram'.flag = ram.flag
  BY DEF TokenCommit, TypeOK, TakesToken
<1>3. req[t].token \in Tok /\ req[t].op \in TokenOps /\ req[t].token # None
  BY <1>1, Fields, RequestFields, Apart DEF StepInv, TokenSteps
<1>4. TypeOK'
  BY <1>1, <1>3 DEF TypeOK, TokenCommit, TakesToken, Moved, Steps
<1>5. StepInv'
  BY <1>1, <1>2, <1>3 DEF StepInv, Moved, PwSteps, TokenSteps, SettingSteps, AuthSteps, PwOps
<1>6. RaceInv'
  BY <1>1 DEF RaceInv
<1>7. Reliable' = Reliable /\ StoredSwitch' = StoredSwitch /\ StoredFlag' = StoredFlag
  BY <1>1, <1>2 DEF Reliable, StoredSwitch, StoredFlag
<1>8. TokenInv'
  <2>1. ASSUME ~raced, NEW u \in Tasks, u # t
        PROVE  pc[u] # "commit_token"
    BY <1>3, <2>1, Apart DEF RaceInv, Clash, StepInv, TokenOps, TokenSteps
  <2>2. QED BY <1>1, <1>2, <1>7, <2>1 DEF TokenInv, Moved, Reliable
<1>9. SwitchInv' /\ FlagInv'
  BY <1>1, <1>2, <1>7 DEF SwitchInv, FlagInv, Moved
<1>10. PwInv'
  BY <1>1, <1>2, PwFrame, Apart DEF Moved, Changing, PwSteps, TokenSteps
<1>11. SessionInv'
  <2>1. pc'[Httpd] \in AuthSteps => pc'[Httpd] = pc[Httpd]
    BY <1>1, Apart DEF Moved, AuthSteps
  <2>2. pc'[t] = "deauth"
    BY <1>1 DEF Moved
  <2>3. QED BY <1>1, <2>1, <2>2 DEF SessionInv
<1>12. SysInv'
  BY <1>1, ServesWithPower
<1>13. QED BY <1>4, <1>5, <1>6, <1>8, <1>9, <1>10, <1>11, <1>12

\* The old sessions end, unless sign-in is off or one is about to be marked; a
\* password change is acknowledged.
LEMMA DeauthStep == ASSUME IInv, NEW t \in Tasks, Deauth(t) PROVE IInv'
<1> USE DEF IInv, KeyInv
<1>1. /\ pc[t] = "deauth" /\ Finish(t)
      /\ excused' = IF ram.enabled THEN HalfDone
                    ELSE HalfDone \cup {fd \in Sockets : sessions[fd] # None}
      /\ UNCHANGED <<ram, flash, power, window, drawn, torn, raced, unread, faults, crashes>>
  BY DEF Deauth
<1>2. /\ Moved(t, "idle") /\ req'[t].op = None
      /\ req' \in [Tasks -> Requests] /\ \A u \in Tasks \ {t} : req'[u] = req[u]
  BY <1>1, FinishMoves
<1>3. /\ sessions' \in [Sockets -> Shown \cup {None}]
      /\ ram.enabled => \A fd \in Sockets : sessions'[fd] = None
      /\ ~ram.enabled => sessions' = sessions
      /\ (\A fd \in Sockets : sessions[fd] = None) => \A fd \in Sockets : sessions'[fd] = None
  BY DEF Deauth, DeauthSessions, TypeOK
<1>4. req[t].op \in TokenOps /\ (req[t].op = "password" => t = Httpd /\ Changing)
  BY <1>1 DEF StepInv, TokenSteps, PwOps, Changing
<1>5. \/ req[t].op = "password" /\ t = Httpd /\ Changing /\ acked' = NewHash
      \/ req[t].op # "password" /\ acked' = acked
  BY <1>4 DEF Deauth, NewHash
<1>6. Changing => /\ NewHash \in Hash /\ NewHash.pw = req[Httpd].pw
                  /\ NewHash.salt = req[Httpd].salt /\ req[Httpd].salt \in Salt
                  /\ flash.hash = NewHash /\ ram.hash = NewHash
                  /\ flash.salt = req[Httpd].salt
  BY Fields, RequestFields, Apart
  DEF Changing, NewHash, Hash, StepInv, PwInv, FlashPwInv, RamPwInv, PwOps
<1>7. TypeOK'
  <2>1. acked' \in [pw : Passwords \cup {None}, salt : Salt \cup {None}]
    BY <1>5, <1>6 DEF TypeOK, Hash
  <2>2. excused' \in SUBSET Sockets
    <3>1. HalfDone \in SUBSET Sockets
      BY Fields, RequestFields, Apart DEF HalfDone, StepInv, AuthSteps
    <3>2. {fd \in Sockets : sessions[fd] # None} \in SUBSET Sockets
      OBVIOUS
    <3>3. QED BY <1>1, <3>1, <3>2
  <2>3. QED BY <1>1, <1>2, <1>3, <2>1, <2>2 DEF TypeOK, Moved, Steps
<1>8. StepInv'
  BY <1>1, <1>2, <1>3, Apart DEF StepInv, Moved, PwSteps, TokenSteps, SettingSteps, AuthSteps, PwOps
<1>9. RaceInv'
  BY <1>1, <1>2, NoClash, Apart DEF RaceInv
<1>10. Reliable' = Reliable /\ StoredSwitch' = StoredSwitch /\ StoredFlag' = StoredFlag
  BY <1>1 DEF Reliable, StoredSwitch, StoredFlag
<1>11. TokenInv' /\ SwitchInv' /\ FlagInv'
  BY <1>1, <1>2, <1>10 DEF TokenInv, SwitchInv, FlagInv, Moved
<1>12. PwInv'
  <2>1. CASE acked' = acked
    <3>1. UNCHANGED <<power, acked, torn>>
      BY <1>1, <2>1
    <3>2. \/ pc'[Httpd] = pc[Httpd] /\ req'[Httpd] = req[Httpd]
          \/ /\ pc'[Httpd] = "idle" /\ pc[Httpd] = "deauth" /\ req'[Httpd].op = None
      BY <1>1, <1>2, Apart DEF Moved
    <3>3. QED BY <1>1, <3>1, <3>2, PwFrame, Apart DEF Changing, PwSteps, TokenSteps, PwOps
  <2>2. CASE t = Httpd /\ Changing /\ acked' = NewHash
    <3>1. pc'[Httpd] = "idle" /\ req'[Httpd].op = None /\ ~Changing'
      BY <1>2, <2>2 DEF Moved, Changing, TokenSteps
    <3>2. NewHash # None /\ NewHash.salt <= drawn.salt
      BY <1>6, <2>2, Fields, Apart DEF PwInv, FlashPwInv
    <3>3. FlashPwInv'
      BY <1>1, <2>2, <3>1 DEF PwInv, FlashPwInv, PwSteps
    <3>4. AckedInv'
      BY <1>1, <1>6, <2>2, <3>1, <3>2, Apart DEF AckedInv, NotOlder, PwOps, Salt
    <3>5. RamPwInv'
      BY <1>1, <1>6, <2>2, <3>1, <3>2, Apart DEF PwInv, RamPwInv, NotOlder, PwOps, Salt
    <3>6. PwMatchInv'
      BY <1>1, <2>2, <3>1 DEF PwInv, PwMatchInv, StoredPassword
    <3>7. QED BY <3>3, <3>4, <3>5, <3>6 DEF PwInv
  <2>3. QED BY <1>5, <2>1, <2>2
<1>13. SessionInv'
  <2>1. \A fd \in Sockets : sessions'[fd] # None => fd \in excused' /\ sessions'[fd] = sessions[fd]
    BY <1>1, <1>3
  <2>2. /\ Httpd \in Tasks
        /\ pc'[Httpd] \in AuthSteps =>
             pc'[Httpd] = pc[Httpd] /\ req'[Httpd] = req[Httpd] /\ req[Httpd].fd \in Sockets
    BY <1>1, <1>2, Fields, RequestFields, Apart DEF Moved, AuthSteps, StepInv
  <2>3. pc'[Httpd] \in AuthSteps => sessions'[req'[Httpd].fd] = None
    BY <2>1, <2>2 DEF SessionInv
  <2>4. pc'[Httpd] = "set_authed" => req'[Httpd].fd \in excused'
    BY <1>1, <2>2 DEF HalfDone, AuthSteps
  <2>5. QED BY <2>1, <2>3, <2>4 DEF SessionInv
<1>14. SysInv'
  BY <1>1, ServesWithPower
<1>15. QED BY <1>7, <1>8, <1>9, <1>11, <1>12, <1>13, <1>14

(***************************************************************************)
(* The settings                                                            *)
(***************************************************************************)

\* Without an overlap one task at most is setting.
LEMMA OneSetting ==
  ASSUME StepInv, RaceInv, ~raced, NEW t \in Tasks, pc[t] \in SettingSteps,
         NEW u \in Tasks, u # t
  PROVE  pc[u] \notin SettingSteps
BY Apart DEF StepInv, RaceInv, Clash

\* The flag is in flash, or the write failed.
LEMMA StoreFlagStep == ASSUME IInv, NEW t \in Tasks, StoreFlag(t) PROVE IInv'
<1> USE DEF IInv, KeyInv
<1>1. /\ pc[t] = "flag_flash"
      /\ UNCHANGED <<ram, power, window, sessions, drawn, acked, torn, raced, unread, excused, crashes>>
  BY DEF StoreFlag, observers
<1>2. /\ flash'.salt = flash.salt /\ flash'.hash = flash.hash
      /\ flash'.token = flash.token /\ flash'.enabled = flash.enabled
  BY DEF StoreFlag, TypeOK
<1>3. /\ faults' \in 0..MaxFaults
      /\ faults' = 0 => faults = 0 /\ flash'.flag = req[t].flag
  BY AuthAssumption DEF StoreFlag, TypeOK, MayFail
<1>4. /\ pc'[t] \in {"idle", "switch_ram"}
      /\ pc' \in [Tasks -> Steps] /\ \A u \in Tasks \ {t} : pc'[u] = pc[u]
      /\ pc'[t] = "idle" => req'[t].op = None
      /\ pc'[t] = "switch_ram" => req'[t] = req[t] /\ req[t].on # None
      /\ req' \in [Tasks -> Requests] /\ \A u \in Tasks \ {t} : req'[u] = req[u]
  <2>1. CASE req[t].on # None /\ Goto(t, "switch_ram")
    BY <2>1, GotoMoves DEF Moved, Steps, TypeOK
  <2>2. CASE Finish(t)
    BY <2>2, FinishMoves DEF Moved
  <2>3. QED BY <2>1, <2>2 DEF StoreFlag, AfterFlag
<1>5. req[t].flag \in BOOLEAN /\ req[t].op = "settings" /\ req[t].flag # None
  BY <1>1, Fields, RequestFields DEF StepInv, SettingSteps
<1>6. TypeOK'
  <2>1. flash' \in [token : Tok \cup {None}, enabled : BOOLEAN \cup {None},
                    salt : Salt \cup {None}, hash : Hash \cup {None},
                    flag : BOOLEAN \cup {None}]
    BY <1>5 DEF StoreFlag, TypeOK
  <2>2. QED BY <1>1, <1>3, <1>4, <2>1 DEF TypeOK, Steps
<1>7. StepInv'
  BY <1>1, <1>4, <1>5, Apart DEF StepInv, PwSteps, TokenSteps, SettingSteps, AuthSteps, PwOps, TokenOps
<1>8. RaceInv'
  BY <1>1, <1>4, NoClash, Apart DEF RaceInv
<1>9. /\ Reliable' => Reliable /\ flash'.flag = req[t].flag
      /\ StoredSwitch' = StoredSwitch
  BY <1>1, <1>2, <1>3 DEF Reliable, StoredSwitch
<1>10. TokenInv' /\ SwitchInv'
  BY <1>1, <1>2, <1>4, <1>9 DEF TokenInv, SwitchInv
<1>11. FlagInv'
  <2>1. ASSUME Reliable', NEW u \in Tasks, u # t
        PROVE  pc'[u] # "flag_flash"
    BY <1>1, <1>4, <1>9, <2>1, OneSetting DEF Reliable, SettingSteps
  <2>2. ASSUME Reliable'
        PROVE  ram'.flag = StoredFlag'
    BY <1>1, <1>5, <1>9, <2>2 DEF FlagInv, StoredFlag
  <2>3. QED BY <1>4, <2>1, <2>2 DEF FlagInv
<1>12. PwInv'
  BY <1>1, <1>2, <1>3, <1>4, <1>5, PwFrame, Apart DEF Changing, PwSteps, TokenSteps, PwOps
<1>13. SessionInv'
  BY <1>1, <1>4, Apart DEF SessionInv, AuthSteps
<1>14. SysInv'
  BY <1>1, ServesWithPower
<1>15. QED BY <1>6, <1>7, <1>8, <1>10, <1>11, <1>12, <1>13, <1>14

\* auth_set_enabled: RAM first.
LEMMA SetSwitchStep == ASSUME IInv, NEW t \in Tasks, SetSwitch(t) PROVE IInv'
<1> USE DEF IInv, KeyInv
<1>1. /\ pc[t] = "switch_ram" /\ Moved(t, "switch_flash")
      /\ UNCHANGED <<req, flash, power, window, sessions, drawn, acked, torn, raced, unread, excused, faults, crashes>>
  BY GotoMoves DEF SetSwitch, Steps, observers
<1>2. /\ ram'.enabled = req[t].on
      /\ ram'.salt = ram.salt /\ ram'.hash = ram.hash /\ ram'.pwSet = ram.pwSet
      /\ ram'.storageError = ram.storageError
      /\ ram'.token = ram.token /\ ram'.flag = ram.flag
  BY DEF SetSwitch, TypeOK
<1>3. req[t].on \in BOOLEAN /\ req[t].op = "settings" /\ req[t].on # None
  BY <1>1, Fields, RequestFields DEF StepInv, SettingSteps
<1>4. TypeOK'
  BY <1>1, <1>3 DEF TypeOK, SetSwitch, Moved, Steps
<1>5. StepInv'
  BY <1>1, <1>2, <1>3, Apart DEF StepInv, Moved, PwSteps, TokenSteps, SettingSteps, AuthSteps, PwOps, TokenOps
<1>6. RaceInv'
  BY <1>1 DEF RaceInv
<1>7. Reliable' = Reliable /\ StoredFlag' = StoredFlag
  BY <1>1 DEF Reliable, StoredFlag
<1>8. TokenInv' /\ FlagInv'
  BY <1>1, <1>2, <1>7 DEF TokenInv, FlagInv, Moved
<1>9. SwitchInv'
  <2>1. ASSUME Reliable', NEW u \in Tasks, u # t
        PROVE  pc'[u] # "switch_flash"
    BY <1>1, <1>7, <2>1, OneSetting DEF Reliable, SettingSteps, Moved
  <2>2. QED BY <1>1, <1>2, <2>1 DEF SwitchInv, Moved
<1>10. PwInv'
  BY <1>1, <1>2, PwFrame, Apart DEF Moved, Changing, PwSteps, TokenSteps
<1>11. SessionInv'
  BY <1>1, <1>2, Apart DEF SessionInv, AuthSteps, Moved
<1>12. SysInv'
  BY <1>1, ServesWithPower
<1>13. QED BY <1>4, <1>5, <1>6, <1>8, <1>9, <1>10, <1>11, <1>12

\* The switch is in flash, or the write failed.
LEMMA StoreSwitchStep == ASSUME IInv, NEW t \in Tasks, StoreSwitch(t) PROVE IInv'
<1> USE DEF IInv, KeyInv
<1>1. /\ pc[t] = "switch_flash" /\ Finish(t)
      /\ UNCHANGED <<ram, power, window, sessions, drawn, acked, torn, raced, unread, excused, crashes>>
  BY DEF StoreSwitch, observers
<1>2. /\ flash'.salt = flash.salt /\ flash'.hash = flash.hash
      /\ flash'.token = flash.token /\ flash'.flag = flash.flag
  BY DEF StoreSwitch, TypeOK
<1>3. /\ faults' \in 0..MaxFaults
      /\ faults' = 0 => faults = 0 /\ flash'.enabled = req[t].on
  BY AuthAssumption DEF StoreSwitch, TypeOK, MayFail
<1>4. /\ Moved(t, "idle") /\ req'[t].op = None
      /\ req' \in [Tasks -> Requests] /\ \A u \in Tasks \ {t} : req'[u] = req[u]
  BY <1>1, FinishMoves
<1>5. req[t].on \in BOOLEAN /\ req[t].op = "settings" /\ req[t].on # None
  BY <1>1, Fields, RequestFields DEF StepInv, SettingSteps
<1>6. TypeOK'
  <2>1. flash' \in [token : Tok \cup {None}, enabled : BOOLEAN \cup {None},
                    salt : Salt \cup {None}, hash : Hash \cup {None},
                    flag : BOOLEAN \cup {None}]
    BY <1>5 DEF StoreSwitch, TypeOK
  <2>2. QED BY <1>1, <1>3, <1>4, <2>1 DEF TypeOK, Moved, Steps
<1>7. StepInv'
  BY <1>1, <1>4, Apart DEF StepInv, Moved, PwSteps, TokenSteps, SettingSteps, AuthSteps, PwOps
<1>8. RaceInv'
  BY <1>1, <1>4, NoClash, Apart DEF RaceInv
<1>9. /\ Reliable' => Reliable /\ flash'.enabled = req[t].on
      /\ StoredFlag' = StoredFlag
  BY <1>1, <1>2, <1>3 DEF Reliable, StoredFlag
<1>10. TokenInv' /\ FlagInv'
  BY <1>1, <1>2, <1>4, <1>9 DEF TokenInv, FlagInv, Moved
<1>11. SwitchInv'
  <2>1. ASSUME Reliable', NEW u \in Tasks, u # t
        PROVE  pc'[u] # "switch_flash"
    BY <1>1, <1>4, <1>9, <2>1, OneSetting DEF Reliable, SettingSteps, Moved
  <2>2. ASSUME Reliable'
        PROVE  ram'.enabled = StoredSwitch'
    BY <1>1, <1>5, <1>9, <2>2 DEF SwitchInv, StoredSwitch
  <2>3. QED BY <1>4, <2>1, <2>2 DEF SwitchInv, Moved
<1>12. PwInv'
  BY <1>1, <1>2, <1>3, <1>4, PwFrame, Apart DEF Moved, Changing, PwSteps, TokenSteps, PwOps
<1>13. SessionInv'
  BY <1>1, <1>4, Apart DEF SessionInv, AuthSteps, Moved
<1>14. SysInv'
  BY <1>1, ServesWithPower
<1>15. QED BY <1>6, <1>7, <1>8, <1>10, <1>11, <1>12, <1>13, <1>14

(***************************************************************************)
(* The requests                                                            *)
(***************************************************************************)

\* A request that begins is idle before, and has no part in a race unless the
\* observer says so.
LEMMA BeginRace ==
  ASSUME TypeOK, RaceInv, NEW t \in Tasks, NEW r \in Requests,
         req'[t] = r, \A u \in Tasks \ {t} : req'[u] = req[u],
         raced' = Overlaps(t, r.op)
  PROVE  RaceInv' /\ raced' \in BOOLEAN /\ (raced => raced')
BY NoClash, Apart DEF RaceInv, Overlaps, TypeOK

LEMMA Fresh ==
  ASSUME TypeOK
  PROVE  /\ drawn.salt < MaxSalts => drawn.salt + 1 \in Salt /\ drawn.salt + 1 # None
         /\ drawn.token < MaxTokens => drawn.token + 1 \in Tok /\ drawn.token + 1 # None
BY Fields, AuthAssumption, Apart DEF Salt, Tok

\* The request of a password: a fresh salt, newer than every one in use.
LEMMA AskPw ==
  ASSUME IInv, NEW pw \in Passwords, NEW op \in PwOps,
         Ready(Httpd), drawn.salt < MaxSalts,
         Begin(Httpd, [NoReq EXCEPT !.op = op, !.pw = pw, !.salt = drawn.salt + 1],
               "set_salt"),
         drawn' = [drawn EXCEPT !.salt = @ + 1],
         raced' \in BOOLEAN, raced => raced', RaceInv',
         ram.pwSet => ram.hash.salt = ram.salt,
         UNCHANGED <<ram, flash, power, window, sessions, acked, torn, unread, excused, faults, crashes>>
  PROVE  IInv'
<1> USE DEF IInv, KeyInv, PwInv
<1> DEFINE r == [NoReq EXCEPT !.op = op, !.pw = pw, !.salt = drawn.salt + 1]
<1>1. /\ r \in Requests /\ r.op = op /\ r.op # None /\ r.pw # None /\ r.salt # None
      /\ r.salt = drawn.salt + 1 /\ drawn.salt + 1 \in Salt
  <2>1. drawn.salt + 1 \in Salt /\ drawn.salt + 1 # None /\ pw # None /\ op # None
    BY Fresh, Apart DEF PwOps
  <2>2. op \in {"setup", "password"}
    BY DEF PwOps
  <2>3. r \in Requests /\ r.op = op /\ r.pw = pw /\ r.salt = drawn.salt + 1
    BY <2>1, <2>2 DEF Requests, NoReq
  <2>4. QED BY <2>1, <2>3
<1>2. /\ Httpd \in Tasks /\ power = "on" /\ pc[Httpd] = "idle"
      /\ Moved(Httpd, "set_salt") /\ req'[Httpd] = r
      /\ req' \in [Tasks -> Requests] /\ \A u \in Tasks \ {Httpd} : req'[u] = req[u]
  <2>1. Httpd \in Tasks /\ power = "on" /\ pc[Httpd] = "idle" /\ "set_salt" \in Steps
    BY Apart DEF Ready, Steps
  <2>2. Begin(Httpd, r, "set_salt")
    OBVIOUS
  <2> HIDE DEF r, IInv
  <2>3. TypeOK
    BY DEF IInv
  <2>4. QED BY <1>1, <2>1, <2>2, <2>3, BeginMoves
<1> HIDE DEF r
<1>3. drawn'.salt = drawn.salt + 1 /\ drawn' \in [token : 0..MaxTokens, salt : 0..MaxSalts]
  BY AuthAssumption DEF TypeOK
<1>4. TypeOK'
  BY <1>2, <1>3 DEF TypeOK, Moved, Steps
<1>5. StepInv'
  BY <1>1, <1>2, Apart DEF StepInv, Moved, PwSteps, TokenSteps, SettingSteps, AuthSteps, PwOps
<1>6. (Reliable' => Reliable) /\ StoredSwitch' = StoredSwitch /\ StoredFlag' = StoredFlag
  BY DEF Reliable, StoredSwitch, StoredFlag
<1>7. TokenInv' /\ SwitchInv' /\ FlagInv'
  BY <1>2, <1>6 DEF TokenInv, SwitchInv, FlagInv, Moved
<1>8. FlashPwInv'
  BY <1>1, <1>2, <1>3, Fields, Apart
  DEF FlashPwInv, Moved, Changing, PwSteps, TokenSteps, Salt, Hash
<1>9. AckedInv'
  BY <1>1, <1>2, <1>3, Fields, Apart DEF AckedInv, NotOlder, TypeOK, Salt
<1>10. RamPwInv'
  BY <1>2 DEF RamPwInv, NotOlder, Changing, Moved, TokenSteps
<1>11. PwMatchInv'
  BY <1>2 DEF PwMatchInv, Moved, StoredPassword
<1>12. SessionInv'
  BY <1>2 DEF SessionInv, AuthSteps, Moved
<1>13. SysInv'
  BY <1>2 DEF SysInv
<1>14. QED BY <1>4, <1>5, <1>7, <1>8, <1>9, <1>10, <1>11, <1>12, <1>13

LEMMA AskSetupStep == ASSUME IInv, NEW pw \in Passwords, AskSetup(pw) PROVE IInv'
<1>1. Begin(Httpd, [NoReq EXCEPT !.op = "setup", !.pw = pw, !.salt = drawn.salt + 1], "set_salt")
  BY DEF AskSetup
<1>2. /\ Httpd \in Tasks /\ req'[Httpd].op = "setup"
      /\ \A u \in Tasks \ {Httpd} : req'[u] = req[u]
  BY <1>1, Apart DEF Begin, NoReq, IInv, TypeOK
<1>3. RaceInv'
  BY <1>2, NoClash, Apart DEF RaceInv, IInv, AskSetup, observers
<1>4. "setup" \in PwOps /\ raced' \in BOOLEAN /\ (raced => raced')
  BY DEF PwOps, AskSetup, observers, IInv, TypeOK
<1>5. ~ram.pwSet
  BY DEF AskSetup
<1>6. QED BY <1>1, <1>3, <1>4, <1>5, AskPw DEF AskSetup, observers

LEMMA AskPasswordStep ==
  ASSUME IInv, NEW pw \in Passwords, NEW current \in Passwords, AskPassword(current, pw)
  PROVE  IInv'
<1> DEFINE r == [NoReq EXCEPT !.op = "password", !.pw = pw, !.salt = drawn.salt + 1]
<1>1. r \in Requests /\ r.op = "password"
  <2>1. drawn.salt + 1 \in Salt
    BY Fresh DEF AskPassword, IInv
  <2>2. QED BY <2>1 DEF Requests, NoReq
<1>2. /\ Httpd \in Tasks /\ req'[Httpd] = r /\ \A u \in Tasks \ {Httpd} : req'[u] = req[u]
  BY <1>1, BeginMoves, Apart DEF AskPassword, IInv, Steps
<1>3. RaceInv' /\ raced' \in BOOLEAN /\ (raced => raced')
  <2> HIDE DEF r
  <2>1. QED BY <1>1, <1>2, BeginRace DEF AskPassword, IInv
<1>4. ram.pwSet => ram.hash.salt = ram.salt
  BY DEF AskPassword
<1>5. "password" \in PwOps
  BY DEF PwOps
<1>6. QED BY <1>3, <1>4, <1>5, AskPw DEF AskPassword

\* A rotation: a fresh token, nothing of the password.
LEMMA AskRotateStep == ASSUME IInv, NEW t \in Tasks, AskRotate(t) PROVE IInv'
<1> USE DEF IInv, KeyInv
<1> DEFINE r == [NoReq EXCEPT !.op = "rotate", !.token = drawn.token + 1]
<1>1. r \in Requests /\ r.op = "rotate" /\ r.token \in Tok
  <2>1. drawn.token + 1 \in Tok /\ drawn.token + 1 \in Shown
    BY Fresh, Apart DEF AskRotate
  <2>2. QED BY <2>1 DEF Requests, NoReq
<1>2. /\ power = "on" /\ pc[t] = "idle" /\ Moved(t, "set_token") /\ req'[t] = r
      /\ req' \in [Tasks -> Requests] /\ \A u \in Tasks \ {t} : req'[u] = req[u]
  BY <1>1, BeginMoves DEF AskRotate, Ready, Steps
<1> HIDE DEF r
<1>3. /\ drawn'.salt = drawn.salt /\ drawn' \in [token : 0..MaxTokens, salt : 0..MaxSalts]
      /\ UNCHANGED <<ram, flash, power, window, sessions, acked, torn, unread, excused, faults, crashes>>
  BY AuthAssumption DEF AskRotate, TypeOK
<1>4. RaceInv' /\ raced' \in BOOLEAN /\ (raced => raced')
  BY <1>1, <1>2, BeginRace DEF AskRotate
<1>5. TypeOK'
  BY <1>2, <1>3, <1>4 DEF TypeOK, Moved, Steps
<1>6. StepInv'
  BY <1>1, <1>2, <1>3, Apart DEF StepInv, Moved, PwSteps, TokenSteps, SettingSteps, AuthSteps, PwOps, TokenOps
<1>7. (Reliable' => Reliable) /\ StoredSwitch' = StoredSwitch /\ StoredFlag' = StoredFlag
  BY <1>3, <1>4 DEF Reliable, StoredSwitch, StoredFlag
<1>8. TokenInv' /\ SwitchInv' /\ FlagInv'
  BY <1>2, <1>3, <1>7 DEF TokenInv, SwitchInv, FlagInv, Moved
<1>9. PwInv'
  BY <1>1, <1>2, <1>3, PwFrame, Apart DEF Moved, Changing, PwSteps, TokenSteps, PwOps
<1>10. SessionInv'
  BY <1>2, <1>3, Apart DEF SessionInv, AuthSteps, Moved
<1>11. SysInv'
  BY <1>2, <1>3 DEF SysInv
<1>12. QED BY <1>4, <1>5, <1>6, <1>8, <1>9, <1>10, <1>11

\* The first setting goes to RAM.
LEMMA AskSettingsStep ==
  ASSUME IInv, NEW t \in Tasks, NEW flag \in BOOLEAN \cup {None}, NEW on \in BOOLEAN \cup {None},
         flag # None \/ on # None, AskSettings(t, flag, on)
  PROVE  IInv'
<1> USE DEF IInv, KeyInv
<1> DEFINE r == [NoReq EXCEPT !.op = "settings", !.flag = flag, !.on = on]
           first == IF flag # None THEN "flag_flash" ELSE "switch_flash"
<1>1. r \in Requests /\ r.op = "settings" /\ r.flag = flag /\ r.on = on
  BY DEF Requests, NoReq
<1>2. /\ power = "on" /\ pc[t] = "idle" /\ Moved(t, first) /\ req'[t] = r
      /\ req' \in [Tasks -> Requests] /\ \A u \in Tasks \ {t} : req'[u] = req[u]
  BY <1>1, BeginMoves DEF AskSettings, Ready, Steps
<1> HIDE DEF r
<1>3. UNCHANGED <<flash, power, window, sessions, drawn, acked, torn, unread, excused, faults, crashes>>
  BY DEF AskSettings
<1>4. /\ ram'.salt = ram.salt /\ ram'.hash = ram.hash /\ ram'.pwSet = ram.pwSet
      /\ ram'.storageError = ram.storageError /\ ram'.token = ram.token
      /\ flag # None => ram'.flag = flag /\ ram'.enabled = ram.enabled
      /\ flag = None => ram'.enabled = on /\ ram'.flag = ram.flag
  BY DEF AskSettings, TypeOK
<1>5. RaceInv' /\ raced' \in BOOLEAN /\ (raced => raced')
  BY <1>1, <1>2, BeginRace DEF AskSettings
<1>6. TypeOK'
  <2>1. ram' \in [token : Tok \cup {None}, enabled : BOOLEAN, pwSet : BOOLEAN,
                  salt : Salt \cup {None}, hash : Hash \cup {None}, storageError : BOOLEAN,
                  flag : BOOLEAN]
    BY DEF AskSettings, TypeOK
  <2>2. QED BY <1>2, <1>3, <1>5, <2>1 DEF TypeOK, Moved, Steps
<1>7. StepInv'
  BY <1>1, <1>2, <1>3, <1>4, Apart
  DEF StepInv, Moved, PwSteps, TokenSteps, SettingSteps, AuthSteps, PwOps, TokenOps
<1>8. (Reliable' => Reliable) /\ StoredSwitch' = StoredSwitch /\ StoredFlag' = StoredFlag
  BY <1>3, <1>5 DEF Reliable, StoredSwitch, StoredFlag
<1>9. TokenInv'
  BY <1>2, <1>3, <1>4, <1>8 DEF TokenInv, Moved
<1>10. ASSUME Reliable', NEW u \in Tasks, u # t
       PROVE  pc'[u] \notin SettingSteps
  <2>1. StepInv' /\ ~raced' /\ pc'[t] \in SettingSteps
    BY <1>2, <1>7, <1>10 DEF Reliable, Moved, SettingSteps
  <2>2. req'[t].op = "settings" /\ req'[u].op # "settings"
    BY <1>1, <1>2, <1>5, <1>10, <2>1, Apart DEF RaceInv, Clash
  <2>3. QED BY <1>7, <2>2 DEF StepInv
<1>11. SwitchInv'
  BY <1>1, <1>2, <1>3, <1>4, <1>8, <1>10 DEF SwitchInv, Moved, SettingSteps
<1>12. FlagInv'
  BY <1>1, <1>2, <1>3, <1>4, <1>8, <1>10 DEF FlagInv, Moved, SettingSteps
<1>13. PwInv'
  BY <1>1, <1>2, <1>3, <1>4, PwFrame, Apart DEF Moved, Changing, PwSteps, TokenSteps, PwOps
<1>14. SessionInv'
  BY <1>2, <1>3, <1>4, Apart DEF SessionInv, AuthSteps, Moved
<1>15. SysInv'
  BY <1>2, <1>3 DEF SysInv
<1>16. QED BY <1>5, <1>6, <1>7, <1>9, <1>11, <1>12, <1>13, <1>14, <1>15

(***************************************************************************)
(* Sign-in and the setup window                                            *)
(***************************************************************************)

\* A socket without a session asks, whatever it shows.
LEMMA AskAuthStep ==
  ASSUME IInv, NEW fd \in Sockets, NEW token \in Shown, AskAuth(fd, token)
  PROVE  IInv'
<1> USE DEF IInv, KeyInv
<1> DEFINE r == [NoReq EXCEPT !.op = "auth", !.fd = fd, !.token = token]
<1>1. power = "on" /\ pc[Httpd] = "idle" /\ Httpd \in Tasks /\ sessions[fd] = None
  BY Apart DEF AskAuth, Ready
<1>2. token # None /\ fd # None
  BY Apart
<1>3. /\ r \in Requests /\ r.op = "auth" /\ r.fd = fd /\ r.token = token
  BY <1>2 DEF Requests, NoReq
<1>4. /\ Moved(Httpd, "check_token") /\ req'[Httpd] = r
      /\ req' \in [Tasks -> Requests] /\ \A u \in Tasks \ {Httpd} : req'[u] = req[u]
  BY <1>1, <1>3, BeginMoves DEF AskAuth, Steps
<1> HIDE DEF r
<1>5. UNCHANGED <<ram, flash, power, window, sessions, drawn, acked, torn, raced, unread, excused, faults, crashes>>
  BY DEF AskAuth, observers
<1>6. TypeOK'
  BY <1>4, <1>5 DEF TypeOK, Moved, Steps
<1>7. StepInv'
  BY <1>1, <1>2, <1>3, <1>4, <1>5, Apart
  DEF StepInv, Moved, PwSteps, TokenSteps, SettingSteps, AuthSteps, PwOps
<1>8. RaceInv'
  BY <1>3, <1>4, <1>5, NoClash, Apart DEF RaceInv
<1>9. Reliable' = Reliable /\ StoredSwitch' = StoredSwitch /\ StoredFlag' = StoredFlag
  BY <1>5 DEF Reliable, StoredSwitch, StoredFlag
<1>10. TokenInv' /\ SwitchInv' /\ FlagInv'
  BY <1>1, <1>4, <1>5, <1>9 DEF TokenInv, SwitchInv, FlagInv, Moved
<1>11. PwInv'
  BY <1>1, <1>3, <1>4, <1>5, PwFrame DEF Moved, Changing, PwSteps, TokenSteps, PwOps
<1>12. SessionInv'
  BY <1>1, <1>3, <1>4, <1>5 DEF SessionInv, AuthSteps, Moved
<1>13. SysInv'
  BY <1>1, <1>5 DEF SysInv
<1>14. QED BY <1>6, <1>7, <1>8, <1>10, <1>11, <1>12, <1>13

\* What passes with sign-in on is the current token; with sign-in off the observer
\* has the socket.
LEMMA CheckTokenStep == ASSUME IInv, CheckToken PROVE IInv'
<1> USE DEF IInv, KeyInv
<1>1. /\ pc[Httpd] = "check_token" /\ Httpd \in Tasks
      /\ UNCHANGED <<ram, flash, power, window, sessions, drawn, acked, torn, raced, unread, faults, crashes>>
      /\ excused' = IF ram.enabled THEN excused ELSE excused \cup {req[Httpd].fd}
  BY Apart DEF CheckToken
<1>2. /\ req[Httpd].op = "auth" /\ req[Httpd].fd \in Sockets
      /\ req[Httpd].fd # None /\ req[Httpd].token # None
      /\ sessions[req[Httpd].fd] = None
  BY <1>1, Fields, RequestFields DEF StepInv, SessionInv, AuthSteps
<1>3. \/ /\ Moved(Httpd, "set_authed") /\ req' = req
         /\ ram.enabled => req[Httpd].token = ram.token
      \/ Moved(Httpd, "idle") /\ req'[Httpd].op = None
  BY <1>1, GotoMoves, FinishMoves DEF CheckToken, TokenPasses, Steps
<1>4. /\ \A u \in Tasks \ {Httpd} : pc'[u] = pc[u] /\ req'[u] = req[u]
      /\ pc' \in [Tasks -> Steps] /\ req' \in [Tasks -> Requests]
      /\ pc'[Httpd] \in {"set_authed", "idle"}
      /\ pc'[Httpd] = "idle" => req'[Httpd].op = None
      /\ pc'[Httpd] = "set_authed" =>
           req' = req /\ (ram.enabled => req[Httpd].token = ram.token)
  <2>1. Goto(Httpd, "set_authed") \/ Finish(Httpd)
    BY DEF CheckToken
  <2>2. CASE Goto(Httpd, "set_authed")
    <3>1. Moved(Httpd, "set_authed") /\ req' = req /\ pc'[Httpd] # "idle"
      BY <1>1, <2>2, GotoMoves DEF Steps, Moved
    <3>2. req \in [Tasks -> Requests]
      BY DEF TypeOK
    <3>3. QED BY <1>3, <3>1, <3>2 DEF Moved
  <2>3. CASE Finish(Httpd)
    BY <1>1, <2>3, FinishMoves DEF Moved
  <2>4. QED BY <2>1, <2>2, <2>3
<1>5. TypeOK'
  <2>1. excused' \in SUBSET Sockets
    BY <1>1, <1>2 DEF TypeOK
  <2>2. QED BY <1>1, <1>4, <2>1 DEF TypeOK, Steps
<1>6. StepInv'
  BY <1>1, <1>2, <1>4, Apart
  DEF StepInv, PwSteps, TokenSteps, SettingSteps, AuthSteps, PwOps
<1>7. RaceInv'
  BY <1>1, <1>2, <1>4, NoClash, Apart DEF RaceInv
<1>8. Reliable' = Reliable /\ StoredSwitch' = StoredSwitch /\ StoredFlag' = StoredFlag
  BY <1>1 DEF Reliable, StoredSwitch, StoredFlag
<1>9. TokenInv' /\ SwitchInv' /\ FlagInv'
  BY <1>1, <1>4, <1>8 DEF TokenInv, SwitchInv, FlagInv
<1>10. PwInv'
  BY <1>1, <1>2, <1>4, PwFrame, Apart DEF Changing, PwSteps, TokenSteps, PwOps
<1>11. SessionInv'
  BY <1>1, <1>2, <1>4 DEF SessionInv, AuthSteps
<1>12. SysInv'
  BY <1>1, ServesWithPower
<1>13. QED BY <1>5, <1>6, <1>7, <1>9, <1>10, <1>11, <1>12

\* The socket is marked.
LEMMA SetAuthedStep == ASSUME IInv, SetAuthed PROVE IInv'
<1> USE DEF IInv, KeyInv
<1>1. /\ pc[Httpd] = "set_authed" /\ Httpd \in Tasks /\ Finish(Httpd)
      /\ UNCHANGED <<ram, flash, power, window, drawn, acked, torn, raced, unread, excused, faults, crashes>>
  BY Apart DEF SetAuthed, observers
<1>2. /\ Moved(Httpd, "idle") /\ req'[Httpd].op = None
      /\ req' \in [Tasks -> Requests] /\ \A u \in Tasks \ {Httpd} : req'[u] = req[u]
  BY <1>1, FinishMoves
<1>3. req[Httpd].fd \in Sockets /\ req[Httpd].token \in Shown /\ req[Httpd].op = "auth"
  BY <1>1, Fields, RequestFields DEF StepInv, AuthSteps
<1>4. /\ sessions' \in [Sockets -> Shown \cup {None}]
      /\ \A fd \in Sockets : sessions'[fd] = IF fd = req[Httpd].fd THEN req[Httpd].token
                                                ELSE sessions[fd]
  BY <1>3 DEF SetAuthed, TypeOK
<1>5. TypeOK'
  BY <1>1, <1>2, <1>4 DEF TypeOK, Moved, Steps
<1>6. StepInv'
  BY <1>1, <1>2, Apart DEF StepInv, Moved, PwSteps, TokenSteps, SettingSteps, AuthSteps, PwOps
<1>7. RaceInv'
  BY <1>1, <1>2, NoClash, Apart DEF RaceInv
<1>8. Reliable' = Reliable /\ StoredSwitch' = StoredSwitch /\ StoredFlag' = StoredFlag
  BY <1>1 DEF Reliable, StoredSwitch, StoredFlag
<1>9. TokenInv' /\ SwitchInv' /\ FlagInv'
  BY <1>1, <1>2, <1>8 DEF TokenInv, SwitchInv, FlagInv, Moved
<1>10. PwInv'
  BY <1>1, <1>2, PwFrame, Apart DEF Moved, Changing, PwSteps, TokenSteps, PwOps
<1>11. SessionInv'
  BY <1>1, <1>2, <1>4 DEF SessionInv, AuthSteps, Moved
<1>12. SysInv'
  BY <1>1, ServesWithPower
<1>13. QED BY <1>5, <1>6, <1>7, <1>9, <1>10, <1>11, <1>12

\* A socket that closes and a window that closes touch nothing else.
LEMMA CloseStep ==
  ASSUME IInv, CloseWindow \/ (\E fd \in Sockets : Disconnect(fd)) \/ UNCHANGED vars
  PROVE  IInv'
<1> USE DEF IInv, KeyInv
<1>1. /\ UNCHANGED <<ram, flash, power, pc, req, drawn, acked, torn, raced, unread, faults, crashes>>
      /\ window' \in BOOLEAN /\ sessions' \in [Sockets -> Shown \cup {None}]
      /\ \A fd \in Sockets :
           \/ sessions'[fd] = sessions[fd] /\ (fd \in excused' <=> fd \in excused)
           \/ sessions'[fd] = None /\ sessions[fd] # None
      /\ excused' \in SUBSET Sockets
  <2>1. UNCHANGED <<ram, flash, power, pc, req, drawn, acked, torn, raced, unread, faults, crashes>>
    BY DEF CloseWindow, Disconnect, vars, observers
  <2>2. window' \in {window, FALSE} /\ window \in BOOLEAN
    BY DEF CloseWindow, Disconnect, vars, TypeOK
  <2>3. \/ UNCHANGED <<sessions, excused>>
        \/ \E fd \in Sockets : /\ sessions[fd] # None
                               /\ sessions' = [sessions EXCEPT ![fd] = None]
                               /\ excused' = excused \ {fd}
    BY DEF CloseWindow, Disconnect, vars, observers
  <2>4. sessions \in [Sockets -> Shown \cup {None}] /\ excused \in SUBSET Sockets
    BY DEF TypeOK
  <2>5. QED BY <2>1, <2>2, <2>3, <2>4
<1>2. TypeOK'
  BY <1>1 DEF TypeOK
<1>3. StepInv'
  BY <1>1 DEF StepInv
<1>4. RaceInv'
  BY <1>1 DEF RaceInv
<1>5. TokenInv' /\ SwitchInv' /\ FlagInv' /\ SysInv'
  BY <1>1 DEF TokenInv, SwitchInv, FlagInv, SysInv, Reliable, StoredSwitch, StoredFlag
<1>6. PwInv'
  BY <1>1, PwFrame DEF Changing
<1>7. SessionInv'
  <2>1. pc[Httpd] \in AuthSteps => req[Httpd].fd \in Sockets /\ sessions[req[Httpd].fd] = None
    BY Fields, RequestFields, Apart DEF SessionInv, StepInv
  <2>2. QED BY <1>1, <2>1 DEF SessionInv, AuthSteps
<1>8. QED BY <1>2, <1>3, <1>4, <1>5, <1>6, <1>7

(***************************************************************************)
(* Boot and reset                                                          *)
(***************************************************************************)

\* The flag is loaded, or sys_cfg cannot be opened.
LEMMA SysInitStep == ASSUME IInv, SysInit PROVE IInv'
<1> USE DEF IInv, KeyInv
<1>1. /\ power = "off" /\ power' = "sys"
      /\ UNCHANGED <<flash, pc, req, window, sessions, drawn, acked, torn, raced, unread, excused, crashes>>
  BY DEF SysInit, observers
<1>2. /\ faults' \in 0..MaxFaults /\ (faults' = 0 => faults = 0 /\ ram'.flag = StoredFlag)
  BY AuthAssumption DEF SysInit, MayFail, TypeOK
<1>3. ram' \in [token : Tok \cup {None}, enabled : BOOLEAN, pwSet : BOOLEAN,
                salt : Salt \cup {None}, hash : Hash \cup {None}, storageError : BOOLEAN,
                flag : BOOLEAN]
  BY DEF SysInit, StoredFlag, TypeOK
<1>4. TypeOK'
  BY <1>1, <1>2, <1>3 DEF TypeOK
<1>5. StepInv'
  BY <1>1 DEF StepInv
<1>6. RaceInv'
  BY <1>1 DEF RaceInv
<1>7. TokenInv' /\ SwitchInv' /\ FlagInv' /\ PwMatchInv'
  BY <1>1 DEF TokenInv, SwitchInv, FlagInv, PwMatchInv, Reliable
<1>8. SysInv'
  BY <1>1, <1>2 DEF SysInv, StoredFlag
<1>9. Changing' = Changing /\ ~Changing
  BY <1>1, Apart DEF Changing, TokenSteps, StepInv
<1>10. FlashPwInv' /\ AckedInv' /\ RamPwInv'
  BY <1>1, <1>9 DEF PwInv, FlashPwInv, AckedInv, RamPwInv, NotOlder, NewHash
<1>11. SessionInv'
  BY <1>1, Apart DEF SessionInv, AuthSteps, StepInv
<1>12. QED BY <1>4, <1>5, <1>6, <1>7, <1>8, <1>10, <1>11 DEF PwInv

\* At boot nobody is served and nobody is signed in.
LEMMA BootFrame ==
  ASSUME IInv, power = "sys", power' = "on", ram'.token # None,
         UNCHANGED <<pc, req, window, sessions, acked, torn, raced, excused, crashes>>
  PROVE  /\ StepInv' /\ RaceInv' /\ SysInv' /\ SessionInv'
         /\ \A t \in Tasks : pc'[t] = "idle" /\ req'[t].op = None
<1> USE DEF IInv
<1>1. /\ \A t \in Tasks : pc'[t] = "idle" /\ req'[t].op = None
      /\ \A fd \in Sockets : sessions'[fd] = None
  BY DEF StepInv
<1>2. StepInv'
  BY <1>1, Apart DEF StepInv, PwSteps, TokenSteps, SettingSteps, AuthSteps, PwOps
<1>3. RaceInv' /\ SysInv'
  BY DEF RaceInv, SysInv
<1>4. SessionInv'
  BY <1>1, Apart DEF SessionInv, AuthSteps
<1>5. QED BY <1>1, <1>2, <1>3, <1>4

LEMMA BootWithoutStorageStep == ASSUME IInv, BootWithoutStorage PROVE IInv'
<1> USE DEF IInv, KeyInv
<1>1. /\ power = "sys" /\ power' = "on" /\ drawn.token < MaxTokens
      /\ UNCHANGED <<flash, pc, req, window, sessions, acked, torn, raced, unread, excused, crashes>>
  BY DEF BootWithoutStorage, observers
<1>2. drawn.token + 1 \in Tok /\ drawn.token + 1 # None
  BY <1>1, Fresh
<1>3. /\ ram'.token = drawn.token + 1 /\ ram'.pwSet = FALSE /\ ram'.storageError = TRUE
      /\ drawn'.salt = drawn.salt
  BY DEF BootWithoutStorage, TypeOK
<1>4. faults' \in 0..MaxFaults /\ faults' # 0
  BY AuthAssumption DEF BootWithoutStorage, MayFail, TypeOK
<1>5. TypeOK'
  <2>1. ram' \in [token : Tok \cup {None}, enabled : BOOLEAN, pwSet : BOOLEAN,
                  salt : Salt \cup {None}, hash : Hash \cup {None}, storageError : BOOLEAN,
                  flag : BOOLEAN]
    BY <1>2 DEF BootWithoutStorage, TypeOK
  <2>2. drawn' \in [token : 0..MaxTokens, salt : 0..MaxSalts]
    BY <1>1, AuthAssumption DEF BootWithoutStorage, TypeOK
  <2>3. QED BY <1>1, <1>4, <2>1, <2>2 DEF TypeOK
<1>6. /\ StepInv' /\ RaceInv' /\ SysInv' /\ SessionInv'
      /\ \A t \in Tasks : pc'[t] = "idle" /\ req'[t].op = None
  BY <1>1, <1>2, <1>3, BootFrame
<1>7. TokenInv' /\ SwitchInv' /\ FlagInv' /\ PwMatchInv'
  BY <1>4 DEF TokenInv, SwitchInv, FlagInv, PwMatchInv, Reliable
<1>8. ~Changing' /\ ~Changing
  BY <1>1, <1>6, Apart DEF Changing, TokenSteps
<1>9. FlashPwInv' /\ AckedInv'
  BY <1>1, <1>3, <1>8 DEF PwInv, FlashPwInv, AckedInv, NotOlder, NewHash
<1>10. RamPwInv'
  BY <1>3, <1>8 DEF RamPwInv
<1>11. QED BY <1>5, <1>6, <1>7, <1>9, <1>10 DEF PwInv

\* The calls of the boot that fail.
LEMMA BootFailures ==
  ASSUME NEW failed \in SUBSET (BootCalls \cap Faults)
  PROVE  Cardinality(failed) \in Nat /\ (Cardinality(failed) = 0 => failed = {})
<1>1. IsFiniteSet(BootCalls)
  <2>1. /\ IsFiniteSet({})
        /\ \A S, x : IsFiniteSet(S) => IsFiniteSet(S \cup {x})
    BY FS_EmptySet, FS_AddElement
  <2>2. IsFiniteSet(((({} \cup {"get_u8"}) \cup {"get_str"}) \cup {"get_blob"}) \cup {"set_str"})
    BY <2>1
  <2>3. BootCalls = ((({} \cup {"get_u8"}) \cup {"get_str"}) \cup {"get_blob"}) \cup {"set_str"}
    BY DEF BootCalls
  <2>4. QED BY <2>2, <2>3
<1>2. failed \in SUBSET BootCalls
  OBVIOUS
<1>3. IsFiniteSet(failed)
  BY <1>1, <1>2, FS_Subset
<1>4. QED BY <1>3, FS_CardinalityType, FS_EmptySet

\* RAM is loaded from flash, but for what cannot be read; a token is drawn when
\* there is none to read.
LEMMA BootStep == ASSUME IInv, Boot PROVE IInv'
<1> USE DEF IInv, KeyInv
<1>1. /\ power = "sys" /\ power' = "on"
      /\ UNCHANGED <<pc, req, window, sessions, acked, torn, raced, excused, crashes>>
  BY DEF Boot
<1> DEFINE Draws(f) == flash.token = None \/ "get_str" \in f
           Token(f) == IF Draws(f) THEN drawn.token + 1 ELSE flash.token
           Reads(f) == StoredPassword /\ "get_blob" \notin f
<1>2. PICK failed \in SUBSET (BootCalls \cap Faults) :
        /\ Draws(failed) => drawn.token < MaxTokens
        /\ "set_str" \in failed => Draws(failed)
        /\ faults' = faults + Cardinality(failed) /\ faults' <= MaxFaults
        /\ ram' = [ram EXCEPT !.token = Token(failed),
                              !.enabled = "get_u8" \in failed \/ StoredSwitch,
                              !.pwSet = Reads(failed),
                              !.salt = IF Reads(failed) THEN flash.salt ELSE None,
                              !.hash = IF Reads(failed) THEN flash.hash ELSE None]
        /\ drawn' = [drawn EXCEPT !.token = IF Draws(failed) THEN Token(failed) ELSE @]
        /\ flash' = [flash EXCEPT !.token = IF "set_str" \in failed THEN @ ELSE Token(failed)]
        /\ unread' = (StoredPassword /\ ~Reads(failed))
  BY DEF Boot
<1> DEFINE token == Token(failed)
           reads == Reads(failed)
<1>tok. /\ token \in Tok /\ token # None
      /\ drawn'.salt = drawn.salt /\ drawn' \in [token : 0..MaxTokens, salt : 0..MaxSalts]
  <2>1. token \in Tok
    BY <1>2, Fresh, Fields
  <2>2. token \in 0..MaxTokens
    BY <2>1 DEF Tok
  <2>3. QED BY <1>2, <2>1, <2>2, Apart DEF TypeOK
<1>ram. /\ ram' = [ram EXCEPT !.token = token,
                            !.enabled = "get_u8" \in failed \/ StoredSwitch,
                            !.pwSet = reads,
                            !.salt = IF reads THEN flash.salt ELSE None,
                            !.hash = IF reads THEN flash.hash ELSE None]
  BY <1>2
<1>bools. StoredSwitch \in BOOLEAN /\ StoredPassword \in BOOLEAN
  BY Fields DEF StoredSwitch, StoredPassword
<1>3. /\ ram'.token = token /\ ram'.pwSet = reads
      /\ failed = {} => ram'.enabled = StoredSwitch /\ reads = StoredPassword
      /\ reads => StoredPassword /\ ram'.salt = flash.salt /\ ram'.hash = flash.hash
      /\ ram'.flag = ram.flag /\ ram'.storageError = ram.storageError
  BY <1>2, <1>bools DEF TypeOK
<1>4. /\ faults' \in 0..MaxFaults
      /\ faults' = 0 => faults = 0 /\ failed = {} /\ flash'.token = token
      /\ flash'.salt = flash.salt /\ flash'.hash = flash.hash
      /\ flash'.enabled = flash.enabled /\ flash'.flag = flash.flag
  <2>1. faults' \in 0..MaxFaults /\ (faults' = 0 => faults = 0 /\ failed = {})
    BY <1>2, BootFailures, AuthAssumption DEF TypeOK
  <2>2. failed = {} => flash'.token = token
    BY <1>2 DEF TypeOK
  <2>3. /\ flash'.salt = flash.salt /\ flash'.hash = flash.hash
        /\ flash'.enabled = flash.enabled /\ flash'.flag = flash.flag
    BY <1>2 DEF TypeOK
  <2>4. QED BY <2>1, <2>2, <2>3
<1>5. TypeOK'
  <2>1. ram' \in [token : Tok \cup {None}, enabled : BOOLEAN, pwSet : BOOLEAN,
                  salt : Salt \cup {None}, hash : Hash \cup {None}, storageError : BOOLEAN,
                  flag : BOOLEAN]
    <3>1. ("get_u8" \in failed \/ StoredSwitch) \in BOOLEAN
      BY <1>bools
    <3>2. reads \in BOOLEAN
      BY <1>bools
    <3>3. /\ (IF reads THEN flash.salt ELSE None) \in Salt \cup {None}
          /\ (IF reads THEN flash.hash ELSE None) \in Hash \cup {None}
      BY Fields
    <3> HIDE DEF reads, token
    <3>4. QED BY <1>ram, <1>tok, <3>1, <3>2, <3>3 DEF TypeOK
  <2>2. flash' \in [token : Tok \cup {None}, enabled : BOOLEAN \cup {None},
                    salt : Salt \cup {None}, hash : Hash \cup {None},
                    flag : BOOLEAN \cup {None}]
    BY <1>2, <1>tok DEF TypeOK
  <2>3. unread' \in BOOLEAN
    BY <1>2
  <2>4. QED BY <1>1, <1>4, <1>tok, <2>1, <2>2, <2>3 DEF TypeOK
<1>6. /\ StepInv' /\ RaceInv' /\ SysInv' /\ SessionInv'
      /\ \A t \in Tasks : pc'[t] = "idle" /\ req'[t].op = None
  BY <1>1, <1>3, <1>tok, BootFrame
<1>7. /\ StoredSwitch' = StoredSwitch /\ StoredFlag' = StoredFlag
      /\ StoredPassword' = StoredPassword
  BY <1>4 DEF StoredSwitch, StoredFlag, StoredPassword
<1>8. TokenInv'
  BY <1>3, <1>4, <1>6 DEF TokenInv, Reliable
<1>9. SwitchInv'
  BY <1>3, <1>4, <1>6, <1>7 DEF SwitchInv, Reliable
<1>10. FlagInv'
  BY <1>1, <1>3, <1>4, <1>6, <1>7 DEF FlagInv, Reliable, SysInv
<1>11. pc[Httpd] = "idle" /\ pc'[Httpd] = "idle" /\ req'[Httpd].op \notin PwOps
       /\ ~Changing' /\ ~Changing
  BY <1>1, <1>6, Apart DEF Changing, TokenSteps, PwOps
<1>12. FlashPwInv' /\ AckedInv'
  BY <1>1, <1>4, <1>tok, <1>11 DEF PwInv, FlashPwInv, AckedInv, NotOlder, PwSteps
<1>13. RamPwInv'
  <2>1. reads => /\ flash.salt # None /\ flash.hash # None
                 /\ flash.hash.salt = flash.salt \/ torn
    BY <1>3, <1>11 DEF PwInv, FlashPwInv, StoredPassword
  <2>2. acked.pw # None => NotOlder(flash.hash) /\ StoredPassword
    BY DEF PwInv, AckedInv, FlashPwInv, NotOlder, StoredPassword
  <2>3. acked.pw # None => reads \/ unread'
    BY <1>2, <2>2
  <2>4. QED BY <1>1, <1>3, <1>11, <2>1, <2>2, <2>3 DEF RamPwInv, NotOlder
<1>14. PwMatchInv'
  BY <1>3, <1>4, <1>7 DEF PwMatchInv
<1>15. QED BY <1>5, <1>6, <1>8, <1>9, <1>10, <1>12, <1>13, <1>14 DEF PwInv

\* A reset between salt and hash cuts the pair in flash.
LEMMA CrashStep == ASSUME IInv, Crash PROVE IInv'
<1> USE DEF IInv, KeyInv
<1>1. /\ power' = "off" /\ crashes' \in 0..MaxCrashes
      /\ torn' = (torn \/ pc[Httpd] = "set_hash")
      /\ raced' = FALSE /\ unread' = FALSE /\ excused' = {} /\ window' = TRUE
      /\ UNCHANGED <<flash, drawn, acked, faults>>
  BY AuthAssumption DEF Crash, TypeOK
<1>2. /\ \A t \in Tasks : pc'[t] = "idle" /\ req'[t].op = None
      /\ pc' \in [Tasks -> Steps] /\ req' \in [Tasks -> Requests]
      /\ sessions' \in [Sockets -> Shown \cup {None}]
      /\ \A fd \in Sockets : sessions'[fd] = None
      /\ ram' \in [token : Tok \cup {None}, enabled : BOOLEAN, pwSet : BOOLEAN,
                   salt : Salt \cup {None}, hash : Hash \cup {None}, storageError : BOOLEAN,
                   flag : BOOLEAN]
  BY RequestFields DEF Crash, Steps, RamAtReset
<1>3. TypeOK'
  BY <1>1, <1>2 DEF TypeOK, Steps
<1>4. StepInv'
  BY <1>1, <1>2, Apart DEF StepInv, PwSteps, TokenSteps, SettingSteps, AuthSteps, PwOps
<1>5. RaceInv'
  BY <1>2, NoClash, Apart DEF RaceInv
<1>6. TokenInv' /\ SwitchInv' /\ FlagInv' /\ SysInv' /\ PwMatchInv'
  BY <1>1 DEF TokenInv, SwitchInv, FlagInv, SysInv, PwMatchInv, Reliable
<1>7. pc'[Httpd] = "idle" /\ req'[Httpd].op \notin PwOps /\ ~Changing'
  BY <1>2, Apart DEF Changing, TokenSteps, PwOps
<1>8. FlashPwInv'
  BY <1>1, <1>7 DEF PwInv, FlashPwInv, PwSteps
<1>9. AckedInv' /\ RamPwInv'
  BY <1>1, <1>7 DEF PwInv, AckedInv, RamPwInv, NotOlder
<1>10. SessionInv'
  BY <1>2, Apart DEF SessionInv, AuthSteps
<1>11. QED BY <1>3, <1>4, <1>5, <1>6, <1>8, <1>9, <1>10 DEF PwInv

(***************************************************************************)
(* The theorems                                                            *)
(***************************************************************************)

LEMMA IInit == Init => IInv
<1> SUFFICES ASSUME Init
             PROVE  IInv
  OBVIOUS
<1> USE DEF Init
<1>1. TypeOK
  <2>1. ram \in [token : Tok \cup {None}, enabled : BOOLEAN, pwSet : BOOLEAN,
                 salt : Salt \cup {None}, hash : Hash \cup {None}, storageError : BOOLEAN,
                 flag : BOOLEAN]
    BY DEF RamAtReset
  <2>2. req \in [Tasks -> Requests]
    BY RequestFields
  <2>3. 0 \in 0..MaxTokens /\ 0 \in 0..MaxSalts /\ 0 \in 0..MaxFaults /\ 0 \in 0..MaxCrashes
    BY AuthAssumption
  <2>4. drawn \in [token : 0..MaxTokens, salt : 0..MaxSalts]
    BY <2>3
  <2>5. QED BY <2>1, <2>2, <2>3, <2>4 DEF TypeOK
<1>2. StepInv
  BY Apart, RequestFields DEF StepInv, PwSteps, TokenSteps, SettingSteps, AuthSteps, PwOps
<1>3. RaceInv
  BY NoClash, RequestFields, Apart DEF RaceInv
<1>4. KeyInv
  BY DEF KeyInv, TokenInv, SwitchInv, FlagInv, SysInv, Reliable
<1>5. PwInv
  BY Apart DEF PwInv, FlashPwInv, AckedInv, RamPwInv, PwMatchInv, Changing, PwSteps, TokenSteps
<1>6. SessionInv
  BY Apart DEF SessionInv, AuthSteps
<1>7. QED BY <1>1, <1>2, <1>3, <1>4, <1>5, <1>6 DEF IInv

LEMMA IStep == IInv /\ [Next]_vars => IInv'
<1> SUFFICES ASSUME IInv, [Next]_vars
             PROVE  IInv'
  OBVIOUS
<1>1. CASE SysInit \/ BootWithoutStorage \/ Boot \/ Crash
  BY <1>1, SysInitStep, BootWithoutStorageStep, BootStep, CrashStep
<1>2. CASE Request
  <2>1. CASE \E pw \in Passwords : AskSetup(pw) \/ \E current \in Passwords : AskPassword(current, pw)
    BY <2>1, AskSetupStep, AskPasswordStep
  <2>2. CASE \E t \in Tasks : AskRotate(t)
    BY <2>2, AskRotateStep
  <2>3. CASE \E t \in Tasks, s \in Settings \ {<<None, None>>} : AskSettings(t, s[1], s[2])
    <3>1. PICK t \in Tasks, s \in Settings \ {<<None, None>>} : AskSettings(t, s[1], s[2])
      BY <2>3
    <3>2. /\ s[1] \in BOOLEAN \cup {None} /\ s[2] \in BOOLEAN \cup {None}
          /\ s[1] # None \/ s[2] # None
      BY AuthAssumption DEF Settings
    <3>3. QED BY <3>1, <3>2, AskSettingsStep
  <2>4. CASE \E fd \in Sockets : Disconnect(fd) \/ \E token \in Shown : AskAuth(fd, token)
    BY <2>4, AskAuthStep, CloseStep
  <2>5. QED BY <1>2, <2>1, <2>2, <2>3, <2>4 DEF Request
<1>3. CASE Handler
  <2>1. CASE SetSalt \/ HashFails \/ SetHash \/ PwCommit \/ DrawToken \/ CheckToken
             \/ SetAuthed
    BY <2>1, CheckTokenStep, SetSaltStep, HashFailsStep, SetHashStep, PwCommitStep, DrawTokenStep, SetAuthedStep
  <2>2. CASE SaltFails \/ PwCommitFails \/ \E t \in Tasks : TokenFails(t) \/ TokenCommitFails(t)
    BY <2>2, FailStep
  <2>3. CASE \E t \in Tasks : SetToken(t) \/ TokenCommit(t) \/ Deauth(t)
    BY <2>3, SetTokenStep, TokenCommitStep, DeauthStep
  <2>4. CASE \E t \in Tasks : StoreFlag(t) \/ SetSwitch(t) \/ StoreSwitch(t)
    BY <2>4, StoreFlagStep, SetSwitchStep, StoreSwitchStep
  <2>5. QED BY <1>3, <2>1, <2>2, <2>3, <2>4 DEF Handler
<1>4. CASE CloseWindow \/ UNCHANGED vars
  BY <1>4, CloseStep
<1>5. QED BY <1>1, <1>2, <1>3, <1>4 DEF Next

\* Every reachable state satisfies the inductive invariant.
THEOREM AuthInvariance == Spec => []IInv
BY IInit, IStep, PTL DEF Spec

\* Types, for any number of passwords, sockets, tokens, salts, errors and resets
\* (auth.cpp, api_system.cpp).
THEOREM AuthTyping == Spec => []TypeOK
<1>1. IInv => TypeOK
  BY DEF IInv
<1>2. QED BY <1>1, AuthInvariance, PTL

\* Between requests, before the first NVS error and the first overlap on a key,
\* a reset changes nothing that was answered: RAM holds what flash holds
\* (password_store, auth_rotate_token, auth_set_enabled, nvs_set_u8_commit).
THEOREM RamAgreesWithFlash == Spec => []RamMatchesFlash
<1>1. IInv => RamMatchesFlash
  BY Apart DEF IInv, KeyInv, TokenInv, SwitchInv, FlagInv, PwInv, PwMatchInv, Reliable,
               RamMatchesFlash
<1>2. QED BY <1>1, AuthInvariance, PTL

\* An acknowledged password, or a later one, stays in flash whatever NVS calls fail
\* and whenever the gateway resets, but for a write cut between salt and hash, and is
\* the only one ever in force: a boot that cannot read it has none
\* (password_store, auth.cpp:138; auth_init, auth.cpp:307).
THEOREM PasswordSurvives == Spec => []AckedPasswordKept
<1>1. IInv => AckedPasswordKept
  BY Fields, Apart
  DEF IInv, PwInv, FlashPwInv, AckedInv, RamPwInv, StepInv, NotOlder, KeepsAcked,
      AckedPasswordKept, TypeOK, Salt, Hash, Tasks, PwOps
<1>2. QED BY <1>1, AuthInvariance, PTL

\* After a rotation no socket is signed in with another token, but for the sockets
\* the observer names (auth_rotate_token, auth.cpp:359).
THEOREM SessionsFollowToken == Spec => []SessionsCurrent
<1>1. IInv => SessionsCurrent
  BY DEF IInv, SessionInv, SessionsCurrent
<1>2. QED BY <1>1, AuthInvariance, PTL

-----------------------------------------------------------------------------

(***************************************************************************)
(* The inductive invariant.  Its parts are stated of a bucket and of the   *)
(* observer's failures as values, so that a step is a comparison of two.   *)
(***************************************************************************)

\* The j-th newest failure of the observer, and the slot of a ring it is in.
Back(s, j) == s[Len(s) - j + 1]
Slot(h, j) == IF j <= h THEN h - j ELSE h - j + FailLimit

BucketType == [ip : Peers, ts : [Index -> Nat], head : Index, lastUse : Nat]

\* At most FailLimit + 1 failures, none in the future, the newest last.
InOrder(s) ==
  /\ s \in Seq(Nat) /\ Len(s) <= FailLimit + 1
  /\ \A j \in 1..Len(s) : Back(s, j) \in 1..time
  /\ \A j, k \in 1..Len(s) : j <= k => Back(s, k) <= Back(s, j)

\* Buckets in use are of different peers.
TypeInv ==
  /\ time \in Nat \ {0}
  /\ buckets \in [1..Buckets -> BucketType]
  /\ fails \in [Peers -> Seq(Nat)]
  /\ \A ip \in Peers : InOrder(fails[ip])
  /\ \A b, c \in 1..Buckets :
       buckets[b].lastUse # 0 /\ buckets[c].lastUse # 0 /\ buckets[b].ip = buckets[c].ip
       => b = c

\* A slot holds the failure of its place, or nothing.
Mirrors(f, b) ==
  \A j \in 1..FailLimit :
    b.ts[Slot(b.head, j)] # 0 =>
      j <= Len(f[b.ip]) /\ b.ts[Slot(b.head, j)] = Back(f[b.ip], j) % Wrap

RingInv == \A b \in 1..Buckets : buckets[b].lastUse # 0 => Mirrors(fails, buckets[b])

\* As many others as there are buckets have failed since then.
Others(f, ip, t) == {q \in Peers \ {ip} : \E k \in DOMAIN f[q] : f[q][k] >= t}
Crowd(f, ip, t) == Cardinality(Others(f, ip, t)) >= Buckets

\* A bucket keeps the last m failures of its peer, and all that count unless the
\* bucket before it was taken, which takes a crowd.
Keeps(f, b, m) ==
  /\ m <= Len(f[b.ip])
  /\ \A j \in 1..FailLimit : b.ts[Slot(b.head, j)] # 0 <=> j <= m
  /\ m = Len(f[b.ip]) \/ m = FailLimit \/ Crowd(f, b.ip, Back(f[b.ip], m + 1))

KeptInv ==
  time < Wrap =>
    \A b \in 1..Buckets : buckets[b].lastUse # 0 =>
      /\ buckets[b].lastUse = Back(fails[buckets[b].ip], 1)
      /\ \E m \in 1..FailLimit : Keeps(fails, buckets[b], m)

\* A peer that failed has a bucket, unless a crowd took it.
Holds(bs, ip) == \E b \in 1..Buckets : bs[b].lastUse # 0 /\ bs[b].ip = ip

GoneInv ==
  time < Wrap =>
    \A ip \in Peers :
      Len(fails[ip]) >= 1 => Holds(buckets, ip) \/ Crowd(fails, ip, Back(fails[ip], 1))

\* One failure more than the limit takes a Window or a crowd.
Spread(f, ip) ==
  Len(f[ip]) = FailLimit + 1 =>
    \/ Back(f[ip], 1) - Back(f[ip], FailLimit + 1) >= Window
    \/ Crowd(f, ip, Back(f[ip], FailLimit + 1))

SpreadInv == time < Wrap => \A ip \in Peers : Spread(fails, ip)

LockInv == TypeInv /\ RingInv /\ KeptInv /\ GoneInv /\ SpreadInv

(***************************************************************************)
(* Remainders and slots                                                    *)
(***************************************************************************)

LEMMA Numbers ==
  /\ FailLimit \in Nat \ {0} /\ Buckets \in Nat \ {0} /\ Window \in Nat \ {0}
  /\ Wrap \in Nat \ {0} /\ Window < Wrap /\ Index = 0..(FailLimit - 1)
BY LockoutAssumption DEF Index

\* A remainder is told by any quotient it goes with.
LEMMA RemainderIs ==
  ASSUME NEW m \in Nat \ {0}, NEW a \in Int, NEW q \in Int, NEW r \in 0..(m - 1),
         a = m * q + r
  PROVE  a % m = r
OBVIOUS

\* A number below the modulus is its own remainder.
LEMMA SmallRemainder ==
  ASSUME NEW m \in Nat \ {0}, NEW a \in 0..(m - 1)
  PROVE  a % m = a
<1>1. a = m * 0 + a
  OBVIOUS
<1>2. QED BY <1>1, RemainderIs

\* The age of a remainder is the true one, while it is below a turn of the clock.
LEMMA AgeOfRemainder ==
  ASSUME NEW m \in Nat \ {0}, NEW a \in Nat, NEW b \in Nat, a - b \in 0..(m - 1)
  PROVE  ((a % m) - (b % m)) % m = a - b
<1> DEFINE x == a % m
           y == b % m
           p == a \div m
           q == b \div m
<1>1. a = m * p + x /\ p \in Int /\ x \in Int
  OBVIOUS
<1>2. b = m * q + y /\ q \in Int /\ y \in Int
  OBVIOUS
<1> HIDE DEF p, q, x, y
<1>3. m * (q - p) = m * q - m * p /\ m * q \in Int /\ m * p \in Int
  BY <1>1, <1>2
<1>4. x - y = m * (q - p) + (a - b)
  BY <1>1, <1>2, <1>3
<1>5. x - y \in Int /\ q - p \in Int
  BY <1>1, <1>2
<1>6. (x - y) % m = a - b
  BY <1>4, <1>5, RemainderIs
<1>7. QED BY <1>6 DEF x, y

LEMMA HeadMoves ==
  ASSUME NEW h \in Index
  PROVE  (h + 1) % FailLimit = IF h + 1 = FailLimit THEN 0 ELSE h + 1
<1>1. CASE h + 1 = FailLimit
  <2>1. h + 1 = FailLimit * 1 + 0 /\ 0 \in 0..(FailLimit - 1)
    BY <1>1, Numbers
  <2>2. QED BY <1>1, <2>1, Numbers, RemainderIs
<1>2. CASE h + 1 # FailLimit
  <2>1. h + 1 \in 0..(FailLimit - 1)
    BY <1>2, Numbers
  <2>2. QED BY <1>2, <2>1, Numbers, SmallRemainder
<1>3. QED BY <1>1, <1>2

\* The slots of a ring, from the newest to the oldest.
LEMMA Slots ==
  ASSUME NEW h \in Index
  PROVE  /\ \A j \in 1..FailLimit : Slot(h, j) \in Index
         /\ \A k \in Index : \E j \in 1..FailLimit : Slot(h, j) = k
<1>1. \A j \in 1..FailLimit : Slot(h, j) \in Index
  BY Numbers DEF Slot
<1>2. ASSUME NEW k \in Index
      PROVE  \E j \in 1..FailLimit : Slot(h, j) = k
  <2>1. CASE k < h
    <3>1. h - k \in 1..FailLimit /\ Slot(h, h - k) = k
      BY <2>1, Numbers DEF Slot
    <3>2. QED BY <3>1
  <2>2. CASE ~(k < h)
    <3>1. h - k + FailLimit \in 1..FailLimit /\ Slot(h, h - k + FailLimit) = k
      BY <2>2, Numbers DEF Slot
    <3>2. QED BY <3>1
  <2>3. QED BY <2>1, <2>2
<1>3. QED BY <1>1, <1>2

\* The head moves on: what was j-th is the next one, the new one is the first.
LEMMA NextSlots ==
  ASSUME NEW h \in Index, NEW g, g = IF h + 1 = FailLimit THEN 0 ELSE h + 1
  PROVE  /\ g \in Index /\ Slot(g, 1) = h
         /\ \A j \in 1..(FailLimit - 1) : Slot(g, j + 1) = Slot(h, j) /\ Slot(h, j) # h
BY Numbers DEF Slot

(***************************************************************************)
(* The observer                                                            *)
(***************************************************************************)

\* One failure more, and the oldest forgotten beyond FailLimit + 1.
Pushed(s) == LET x == Append(s, time) IN IF Len(x) > FailLimit + 1 THEN Tail(x) ELSE x

LEMMA PushShape ==
  ASSUME NEW s \in Seq(Nat), Len(s) <= FailLimit + 1, time \in Nat
  PROVE  /\ Pushed(s) \in Seq(Nat)
         /\ Len(Pushed(s)) = IF Len(s) <= FailLimit THEN Len(s) + 1 ELSE FailLimit + 1
         /\ Back(Pushed(s), 1) = time
         /\ \A j \in 1..FailLimit : j <= Len(s) => Back(Pushed(s), j + 1) = Back(s, j)
<1> DEFINE x == Append(s, time)
<1>1. /\ x \in Seq(Nat) /\ Len(x) = Len(s) + 1 /\ Len(s) \in Nat /\ x[Len(s) + 1] = time
      /\ \A a \in 1..Len(s) : x[a] = s[a]
  OBVIOUS
<1> HIDE DEF x
<1>2. CASE Len(s) <= FailLimit
  <2>1. Pushed(s) = x
    BY <1>1, <1>2, Numbers DEF Pushed, x
  <2>2. ASSUME NEW j \in 1..FailLimit, j <= Len(s)
        PROVE  x[Len(x) - (j + 1) + 1] = s[Len(s) - j + 1]
    <3>1. Len(x) - (j + 1) + 1 = Len(s) - j + 1 /\ Len(s) - j + 1 \in 1..Len(s)
      BY <1>1, <2>2
    <3>2. QED BY <1>1, <3>1
  <2>3. Len(x) - 1 + 1 = Len(s) + 1
    BY <1>1
  <2>4. QED BY <1>1, <1>2, <2>1, <2>2, <2>3 DEF Back
<1>3. CASE Len(s) = FailLimit + 1
  <2> DEFINE y == Tail(x)
  <2>1. Pushed(s) = y
    BY <1>1, <1>3, Numbers DEF Pushed, x
  <2>2. /\ y \in Seq(Nat) /\ Len(y) = FailLimit + 1
        /\ \A a \in 1..(FailLimit + 1) : y[a] = x[a + 1]
    BY <1>1, <1>3, Numbers
  <2> HIDE DEF y
  <2>3. ASSUME NEW j \in 1..FailLimit
        PROVE  y[Len(y) - (j + 1) + 1] = s[Len(s) - j + 1]
    <3>1. /\ Len(y) - (j + 1) + 1 = FailLimit + 1 - j
          /\ FailLimit + 1 - j \in 1..(FailLimit + 1)
          /\ (FailLimit + 1 - j) + 1 = Len(s) - j + 1 /\ Len(s) - j + 1 \in 1..Len(s)
      BY <1>3, <2>2, Numbers
    <3>2. y[FailLimit + 1 - j] = x[(FailLimit + 1 - j) + 1]
      BY <2>2, <3>1
    <3>3. x[Len(s) - j + 1] = s[Len(s) - j + 1]
      BY <1>1, <3>1
    <3>4. QED BY <3>1, <3>2, <3>3
  <2>4. y[Len(y) - 1 + 1] = time
    <3>1. Len(y) - 1 + 1 = FailLimit + 1 /\ FailLimit + 1 \in 1..(FailLimit + 1)
          /\ (FailLimit + 1) + 1 = Len(s) + 1
      BY <1>3, <2>2, Numbers
    <3>2. y[FailLimit + 1] = x[(FailLimit + 1) + 1]
      BY <2>2, <3>1
    <3>3. QED BY <1>1, <3>1, <3>2
  <2>5. ~(Len(s) <= FailLimit)
    BY <1>3, Numbers
  <2>6. QED BY <2>1, <2>2, <2>3, <2>4, <2>5 DEF Back
<1>4. QED BY <1>1, <1>2, <1>3, Numbers

\* The failures of a peer stay in order.
LEMMA PushInOrder ==
  ASSUME time \in Nat \ {0}, NEW s, InOrder(s)
  PROVE  InOrder(Pushed(s)) /\ Len(Pushed(s)) \in 1..(FailLimit + 1)
<1> DEFINE p == Pushed(s)
<1>1. s \in Seq(Nat) /\ Len(s) <= FailLimit + 1 /\ Len(s) \in Nat
  BY DEF InOrder
<1>2. /\ p \in Seq(Nat)
      /\ Len(p) = IF Len(s) <= FailLimit THEN Len(s) + 1 ELSE FailLimit + 1
      /\ Back(p, 1) = time
      /\ \A j \in 1..FailLimit : j <= Len(s) => Back(p, j + 1) = Back(s, j)
  BY <1>1, PushShape
<1> HIDE DEF p
<1>3. Len(p) \in 1..(FailLimit + 1)
  BY <1>1, <1>2, Numbers
<1>4. ASSUME NEW j \in 1..Len(p)
      PROVE  j = 1 \/ (j - 1 \in 1..Len(s) /\ Back(p, j) = Back(s, j - 1))
  <2>1. CASE j # 1
    <3>1. j - 1 \in 1..FailLimit /\ j - 1 <= Len(s) /\ j - 1 \in 1..Len(s) /\ (j - 1) + 1 = j
      BY <1>1, <1>2, <1>3, <2>1, Numbers
    <3>2. Back(p, (j - 1) + 1) = Back(s, j - 1)
      BY <1>2, <3>1
    <3>3. QED BY <3>1, <3>2
  <2>2. QED BY <2>1
<1>5. \A j \in 1..Len(p) : Back(p, j) \in 1..time
  <2>1. time \in 1..time
    OBVIOUS
  <2>2. QED BY <1>2, <1>4, <2>1 DEF InOrder
<1>6. ASSUME NEW j \in 1..Len(p), NEW k \in 1..Len(p), j <= k
      PROVE  Back(p, k) <= Back(p, j)
  <2>1. CASE j = 1
    BY <1>2, <1>5, <2>1
  <2>2. CASE j # 1
    <3>1. k # 1 /\ j - 1 <= k - 1
      BY <1>3, <1>6, <2>2
    <3>2. /\ j - 1 \in 1..Len(s) /\ Back(p, j) = Back(s, j - 1)
          /\ k - 1 \in 1..Len(s) /\ Back(p, k) = Back(s, k - 1)
      BY <1>4, <2>2, <3>1
    <3>3. QED BY <3>1, <3>2 DEF InOrder
  <2>3. QED BY <2>1, <2>2
<1>7. InOrder(p)
  BY <1>2, <1>3, <1>5, <1>6 DEF InOrder
<1>8. QED BY <1>3, <1>7 DEF p

(***************************************************************************)
(* Crowds                                                                  *)
(***************************************************************************)

LEMMA PeersFinite ==
  /\ IsFiniteSet(Peers)
  /\ \A f, ip, t : IsFiniteSet(Others(f, ip, t))
<1>1. IsFiniteSet(Peers)
  BY LockoutAssumption, FS_AddElement DEF Peers
<1>2. ASSUME NEW f, NEW ip, NEW t
      PROVE  IsFiniteSet(Others(f, ip, t))
  <2>1. Others(f, ip, t) \in SUBSET Peers
    BY DEF Others
  <2>2. QED BY <1>1, <2>1, FS_Subset
<1>3. QED BY <1>1, <1>2

\* More others, at least as large a crowd.
LEMMA LargerCrowd ==
  ASSUME NEW f, NEW g, NEW ip, NEW t, NEW u,
         Others(f, ip, t) \subseteq Others(g, ip, u), Crowd(f, ip, t)
  PROVE  Crowd(g, ip, u)
<1>1. /\ IsFiniteSet(Others(f, ip, t)) /\ IsFiniteSet(Others(g, ip, u))
  BY PeersFinite
<1>2. /\ Cardinality(Others(f, ip, t)) <= Cardinality(Others(g, ip, u))
      /\ Cardinality(Others(f, ip, t)) \in Nat /\ Cardinality(Others(g, ip, u)) \in Nat
  BY <1>1, FS_Subset, FS_CardinalityType
<1>3. QED BY <1>2, Numbers DEF Crowd

\* Since an earlier time there are more others.
LEMMA EarlierCrowd ==
  ASSUME NEW f \in [Peers -> Seq(Nat)], NEW ip, NEW t \in Nat, NEW u \in Nat, u <= t,
         Crowd(f, ip, t)
  PROVE  Crowd(f, ip, u)
<1>1. ASSUME NEW q \in Peers, NEW k \in DOMAIN f[q], f[q][k] >= t
      PROVE  f[q][k] >= u
  <2>1. f[q] \in Seq(Nat)
    OBVIOUS
  <2>2. f[q][k] \in Nat
    BY <2>1
  <2>3. QED BY <1>1, <2>2
<1>2. Others(f, ip, t) \subseteq Others(f, ip, u)
  BY <1>1 DEF Others
<1>3. QED BY <1>2, LargerCrowd

\* A failure of somebody makes no crowd smaller.
LEMMA CrowdGrows ==
  ASSUME TypeInv, NEW ip \in Peers, NEW g, g = [fails EXCEPT ![ip] = Pushed(fails[ip])],
         NEW q, NEW t \in Nat, t <= time, Crowd(fails, q, t)
  PROVE  Crowd(g, q, t)
<1>1. /\ g[ip] = Pushed(fails[ip]) /\ \A r \in Peers \ {ip} : g[r] = fails[r]
  BY DEF TypeInv
<1>2. Len(g[ip]) \in DOMAIN g[ip] /\ g[ip][Len(g[ip])] >= t
  <2>1. fails[ip] \in Seq(Nat) /\ Len(fails[ip]) <= FailLimit + 1 /\ time \in Nat
    BY DEF TypeInv, InOrder
  <2>2. /\ Len(g[ip]) \in Nat \ {0} /\ g[ip] \in Seq(Nat)
        /\ Back(g[ip], 1) = time
    BY <1>1, <2>1, PushShape, PushInOrder DEF TypeInv
  <2>3. Len(g[ip]) - 1 + 1 = Len(g[ip]) /\ DOMAIN g[ip] = 1..Len(g[ip])
    BY <2>2
  <2>4. QED BY <2>1, <2>2, <2>3 DEF Back
<1>3. Others(fails, q, t) \subseteq Others(g, q, t)
  BY <1>1, <1>2 DEF Others
<1>4. QED BY <1>3, LargerCrowd

(***************************************************************************)
(* A failure in a bucket                                                   *)
(***************************************************************************)

LEMMA NotedShape ==
  ASSUME time \in Nat, NEW b \in BucketType
  PROVE  /\ Noted(b) \in BucketType /\ Noted(b).ip = b.ip /\ Noted(b).lastUse = now
         /\ Noted(b).ts[Slot(Noted(b).head, 1)] = now
         /\ \A j \in 1..(FailLimit - 1) :
              Noted(b).ts[Slot(Noted(b).head, j + 1)] = b.ts[Slot(b.head, j)]
<1> DEFINE h == b.head
           g == (b.head + 1) % FailLimit
<1>1. now \in Nat
  BY SmallRemainder, Numbers DEF now
<1>2. h \in Index /\ b.ts \in [Index -> Nat] /\ b.ip \in Peers
  BY DEF BucketType
<1>3. g = IF h + 1 = FailLimit THEN 0 ELSE h + 1
  BY <1>2, HeadMoves
<1>4. /\ Noted(b).ip = b.ip /\ Noted(b).lastUse = now /\ Noted(b).head = g
      /\ Noted(b).ts = [b.ts EXCEPT ![h] = now]
  BY DEF Noted, BucketType
<1> HIDE DEF g, h
<1>5. /\ g \in Index /\ Slot(g, 1) = h
      /\ \A j \in 1..(FailLimit - 1) : Slot(g, j + 1) = Slot(h, j) /\ Slot(h, j) # h
  BY <1>2, <1>3, NextSlots
<1>6. Noted(b) \in BucketType
  <2>1. [b.ts EXCEPT ![h] = now] \in [Index -> Nat]
    BY <1>1, <1>2
  <2>2. g \in Index
    BY <1>5
  <2>3. QED BY <1>1, <2>1, <2>2 DEF BucketType, Noted, g, h
<1>7. Noted(b).ts[Slot(Noted(b).head, 1)] = now
  BY <1>2, <1>4, <1>5
<1>8. ASSUME NEW j \in 1..(FailLimit - 1)
      PROVE  Noted(b).ts[Slot(Noted(b).head, j + 1)] = b.ts[Slot(h, j)]
  <2>1. Slot(g, j + 1) = Slot(h, j) /\ Slot(h, j) # h
    BY <1>5
  <2>2. Slot(h, j) \in Index
    <3>1. j \in 1..FailLimit
      BY Numbers
    <3>2. QED BY <1>2, <3>1, Slots
  <2>3. QED BY <1>2, <1>4, <2>1, <2>2
<1>9. QED BY <1>4, <1>6, <1>7, <1>8 DEF h

LEMMA FreshBucket ==
  ASSUME NEW ip \in Peers
  PROVE  /\ Bucket(ip) \in BucketType /\ Bucket(ip).ip = ip
         /\ \A j \in 1..FailLimit : Bucket(ip).ts[Slot(Bucket(ip).head, j)] = 0
<1>1. 0 \in Index
  BY Numbers
<1>2. Bucket(ip) \in BucketType
  BY <1>1 DEF Bucket, BucketType
<1>3. \A j \in 1..FailLimit : Slot(0, j) \in Index
  BY <1>1, Slots
<1>4. QED BY <1>2, <1>3 DEF Bucket

\* The j-th slot of the ring that took one more: the new one, or the one before.
LEMMA NotedSlot ==
  ASSUME TypeInv, NEW b \in BucketType, NEW j \in 1..FailLimit
  PROVE  LET s == fails[b.ip]
             p == Pushed(s)
             t == Noted(b).ts[Slot(Noted(b).head, j)]
         IN  /\ j = 1 => t = now /\ Back(p, 1) = time /\ 1 <= Len(p)
             /\ j # 1 => /\ j - 1 \in 1..FailLimit
                         /\ t = b.ts[Slot(b.head, j - 1)]
                         /\ j - 1 <= Len(s) <=> j <= Len(p)
                         /\ j - 1 <= Len(s) => Back(p, j) = Back(s, j - 1)
<1> DEFINE s == fails[b.ip]
           p == Pushed(s)
<1>1. /\ s \in Seq(Nat) /\ Len(s) <= FailLimit + 1 /\ Len(s) \in Nat /\ time \in Nat
  BY DEF TypeInv, InOrder, BucketType
<1>2. /\ Len(p) = IF Len(s) <= FailLimit THEN Len(s) + 1 ELSE FailLimit + 1
      /\ Back(p, 1) = time
      /\ \A i \in 1..FailLimit : i <= Len(s) => Back(p, i + 1) = Back(s, i)
  BY <1>1, PushShape
<1>3. /\ Noted(b).ts[Slot(Noted(b).head, 1)] = now
      /\ \A i \in 1..(FailLimit - 1) :
           Noted(b).ts[Slot(Noted(b).head, i + 1)] = b.ts[Slot(b.head, i)]
  BY <1>1, NotedShape
<1> HIDE DEF s, p
<1>4. 1 <= Len(p)
  BY <1>1, <1>2, Numbers
<1>5. ASSUME j # 1
      PROVE  /\ j - 1 \in 1..(FailLimit - 1) /\ j - 1 \in 1..FailLimit /\ (j - 1) + 1 = j
             /\ j - 1 <= Len(s) <=> j <= Len(p)
  BY <1>1, <1>2, <1>5, Numbers
<1>6. ASSUME j # 1
      PROVE  /\ Noted(b).ts[Slot(Noted(b).head, (j - 1) + 1)] = b.ts[Slot(b.head, j - 1)]
             /\ j - 1 <= Len(s) => Back(p, (j - 1) + 1) = Back(s, j - 1)
  BY <1>2, <1>3, <1>5, <1>6
<1>7. QED BY <1>2, <1>3, <1>4, <1>5, <1>6 DEF s, p

LEMMA NotedMirrors ==
  ASSUME TypeInv, NEW b \in BucketType, Mirrors(fails, b),
         NEW g, g[b.ip] = Pushed(fails[b.ip])
  PROVE  Mirrors(g, Noted(b))
<1>1. Noted(b).ip = b.ip
  BY NotedShape DEF TypeInv
<1>2. ASSUME NEW j \in 1..FailLimit, Noted(b).ts[Slot(Noted(b).head, j)] # 0
      PROVE  /\ j <= Len(g[b.ip])
             /\ Noted(b).ts[Slot(Noted(b).head, j)] = Back(g[b.ip], j) % Wrap
  <2>1. CASE j = 1
    BY <2>1, NotedSlot DEF now
  <2>2. CASE j # 1
    <3>1. /\ j - 1 \in 1..FailLimit
          /\ Noted(b).ts[Slot(Noted(b).head, j)] = b.ts[Slot(b.head, j - 1)]
          /\ j - 1 <= Len(fails[b.ip]) <=> j <= Len(g[b.ip])
          /\ j - 1 <= Len(fails[b.ip]) => Back(g[b.ip], j) = Back(fails[b.ip], j - 1)
      BY <2>2, NotedSlot
    <3>2. /\ j - 1 <= Len(fails[b.ip])
          /\ b.ts[Slot(b.head, j - 1)] = Back(fails[b.ip], j - 1) % Wrap
      BY <1>2, <3>1 DEF Mirrors
    <3>3. QED BY <3>1, <3>2
  <2>3. QED BY <2>1, <2>2
<1>3. QED BY <1>1, <1>2 DEF Mirrors

\* Before the wrap the ring keeps the new failure and those before it, as many as
\* fit.
LEMMA NotedKeeps ==
  ASSUME TypeInv, time < Wrap, NEW b \in BucketType, NEW m \in 0..FailLimit,
         Keeps(fails, b, m),
         NEW g, g = [fails EXCEPT ![b.ip] = Pushed(fails[b.ip])]
  PROVE  /\ Noted(b).lastUse = Back(g[Noted(b).ip], 1)
         /\ \E k \in 1..FailLimit : Keeps(g, Noted(b), k)
<1> DEFINE s == fails[b.ip]
           p == Pushed(s)
           k == IF m = FailLimit THEN m ELSE m + 1
<1>1. b.ip \in Peers /\ g[b.ip] = p /\ Noted(b).ip = b.ip /\ Noted(b).lastUse = now
  BY NotedShape DEF TypeInv, BucketType
<1>2. time \in Nat \ {0} /\ now = time
  <2>1. time \in Nat \ {0} /\ time \in 0..(Wrap - 1)
    BY Numbers DEF TypeInv
  <2>2. QED BY <2>1, Numbers, SmallRemainder DEF now
<1>3. /\ s \in Seq(Nat) /\ Len(s) <= FailLimit + 1 /\ Len(s) \in Nat
      /\ \A j \in 1..Len(s) : Back(s, j) \in 1..time
  BY <1>1 DEF TypeInv, InOrder
<1>4. /\ Len(p) = IF Len(s) <= FailLimit THEN Len(s) + 1 ELSE FailLimit + 1
      /\ Back(p, 1) = time
      /\ \A i \in 1..FailLimit : i <= Len(s) => Back(p, i + 1) = Back(s, i)
  BY <1>2, <1>3, PushShape
<1>5. /\ m <= Len(s)
      /\ \A j \in 1..FailLimit : b.ts[Slot(b.head, j)] # 0 <=> j <= m
      /\ m = Len(s) \/ m = FailLimit \/ Crowd(fails, b.ip, Back(s, m + 1))
  BY DEF Keeps
<1>6. \A j \in 1..FailLimit :
        LET t == Noted(b).ts[Slot(Noted(b).head, j)]
        IN  /\ j = 1 => t = now
            /\ j # 1 => j - 1 \in 1..FailLimit /\ t = b.ts[Slot(b.head, j - 1)]
  BY NotedSlot
<1> HIDE DEF s, p
<1>7. k \in 1..FailLimit /\ k <= Len(p)
  BY <1>3, <1>4, <1>5, Numbers
<1>8. ASSUME NEW j \in 1..FailLimit
      PROVE  Noted(b).ts[Slot(Noted(b).head, j)] # 0 <=> j <= k
  <2>1. CASE j = 1
    <3>1. Noted(b).ts[Slot(Noted(b).head, j)] # 0
      BY <1>2, <1>6, <2>1
    <3>2. QED BY <1>7, <2>1, <3>1
  <2>2. CASE j # 1
    <3>1. Noted(b).ts[Slot(Noted(b).head, j)] # 0 <=> j - 1 <= m
      BY <1>5, <1>6, <2>2
    <3>2. j - 1 <= m <=> j <= k
      BY Numbers
    <3>3. QED BY <3>1, <3>2
  <2>3. QED BY <2>1, <2>2
<1>9. k = Len(p) \/ k = FailLimit \/ Crowd(g, b.ip, Back(p, k + 1))
  <2>1. CASE m = FailLimit
    BY <2>1
  <2>2. CASE m # FailLimit /\ m = Len(s)
    BY <1>4, <2>2, Numbers
  <2>3. CASE m # FailLimit /\ m # Len(s)
    <3>1. m + 1 \in 1..Len(s) /\ m + 1 \in 1..FailLimit /\ k = m + 1
      BY <1>3, <1>5, <2>3, Numbers
    <3>2. Crowd(fails, b.ip, Back(s, m + 1)) /\ Back(s, m + 1) \in 1..time
      BY <1>3, <1>5, <2>3, <3>1
    <3>3. Back(p, (m + 1) + 1) = Back(s, m + 1)
      BY <1>4, <3>1
    <3>4. Crowd(g, b.ip, Back(s, m + 1))
      <4>1. Back(s, m + 1) \in Nat /\ Back(s, m + 1) <= time
        BY <1>2, <3>2
      <4>2. QED BY <1>1, <3>2, <4>1, CrowdGrows DEF s
    <3>5. QED BY <3>1, <3>3, <3>4
  <2>4. QED BY <2>1, <2>2, <2>3
<1>10. Keeps(g, Noted(b), k)
  BY <1>1, <1>7, <1>8, <1>9 DEF Keeps
<1>11. Noted(b).lastUse = Back(g[Noted(b).ip], 1)
  BY <1>1, <1>2, <1>4
<1>12. QED BY <1>7, <1>10, <1>11

(***************************************************************************)
(* record_failure                                                          *)
(***************************************************************************)

\* The bucket of the peer, or a fresh one in the place of the least recently used.
Known(ip, b, old) == old = buckets[b] /\ buckets[b].lastUse # 0 /\ buckets[b].ip = ip
Taken(ip, b, old) == old = Bucket(ip) /\ LeastRecent(b) /\ ~Holds(buckets, ip)

LEMMA RecordShape ==
  ASSUME TypeInv, NEW ip \in Peers, RecordFailure(ip)
  PROVE  /\ fails' = [fails EXCEPT ![ip] = Pushed(fails[ip])]
         /\ \E b \in 1..Buckets, old \in BucketType :
              /\ old.ip = ip /\ buckets' = [buckets EXCEPT ![b] = Noted(old)]
              /\ Known(ip, b, old) \/ Taken(ip, b, old)
<1>1. fails' = [fails EXCEPT ![ip] = Pushed(fails[ip])]
  BY DEF RecordFailure, Pushed, TypeInv
<1>2. CASE InUse(ip) # {}
  <2>1. PICK b \in InUse(ip) : buckets' = [buckets EXCEPT ![b] = Noted(buckets[b])]
    BY <1>2 DEF RecordFailure
  <2>2. b \in 1..Buckets /\ Known(ip, b, buckets[b]) /\ buckets[b] \in BucketType
    BY DEF InUse, Known, TypeInv
  <2>3. QED BY <1>1, <2>1, <2>2 DEF Known
<1>3. CASE InUse(ip) = {}
  <2>1. PICK b \in 1..Buckets :
          LeastRecent(b) /\ buckets' = [buckets EXCEPT ![b] = Noted(Bucket(ip))]
    BY <1>3 DEF RecordFailure
  <2>2. ~Holds(buckets, ip)
    BY <1>3 DEF InUse, Holds
  <2>3. QED BY <1>1, <2>1, <2>2, FreshBucket DEF Taken
<1>4. QED BY <1>2, <1>3

\* A peer whose bucket is taken has seen a crowd: the peers of the other buckets
\* and the one that takes it, all different, failed no earlier than it did.
LEMMA TakenFromCrowd ==
  ASSUME LockInv, time < Wrap, NEW ip \in Peers, ~Holds(buckets, ip),
         NEW b \in 1..Buckets, LeastRecent(b), buckets[b].lastUse # 0,
         NEW g, g = [fails EXCEPT ![ip] = Pushed(fails[ip])]
  PROVE  Crowd(g, buckets[b].ip, Back(fails[buckets[b].ip], 1))
<1> USE DEF LockInv
<1> DEFINE e == buckets[b].ip
           t == Back(fails[e], 1)
           f == [c \in 1..Buckets |-> IF c = b THEN ip ELSE buckets[c].ip]
<1>1. /\ \A c \in 1..Buckets : /\ buckets[c] \in BucketType
                               /\ buckets[c].ip \in Peers /\ buckets[c].lastUse \in Nat
      /\ e \in Peers
  BY DEF TypeInv, BucketType
<1>2. /\ buckets[b].lastUse = t
      /\ \A c \in 1..Buckets : buckets[b].lastUse <= buckets[c].lastUse
  BY DEF KeptInv, LeastRecent
<1>3. \A c \in 1..Buckets : /\ buckets[c].lastUse # 0 /\ buckets[c].lastUse >= t
                            /\ buckets[c].lastUse = Back(fails[buckets[c].ip], 1)
                            /\ Len(fails[buckets[c].ip]) >= 1
  <2>1. ASSUME NEW c \in 1..Buckets
        PROVE  buckets[c].lastUse # 0 /\ buckets[c].lastUse >= t
    BY <1>1, <1>2
  <2>2. ASSUME NEW c \in 1..Buckets
        PROVE  /\ buckets[c].lastUse = Back(fails[buckets[c].ip], 1)
               /\ Len(fails[buckets[c].ip]) >= 1
    <3>1. PICK m \in 1..FailLimit : Keeps(fails, buckets[c], m)
      BY <2>1 DEF KeptInv
    <3>2. m <= Len(fails[buckets[c].ip]) /\ Len(fails[buckets[c].ip]) \in Nat
      BY <1>1, <3>1 DEF Keeps, TypeInv
    <3>3. QED BY <2>1, <3>2 DEF KeptInv
  <2>3. QED BY <2>1, <2>2
<1>4. \A c \in 1..Buckets : buckets[c].ip # ip
  BY <1>3 DEF Holds
<1>5. \A c \in 1..Buckets : f[c] \in Peers \ {e}
  BY <1>1, <1>3, <1>4 DEF TypeInv
<1>6. t \in Nat /\ t <= time
  <2>1. Len(fails[e]) >= 1 /\ InOrder(fails[e]) /\ Len(fails[e]) \in Nat /\ time \in Nat
    BY <1>1, <1>3 DEF TypeInv
  <2>2. t \in 1..time
    BY <2>1 DEF InOrder
  <2>3. QED BY <2>1, <2>2
<1>7. ASSUME NEW c \in 1..Buckets
      PROVE  \E k \in DOMAIN g[f[c]] : g[f[c]][k] >= t
  <2>1. /\ g[f[c]] \in Seq(Nat) /\ Len(g[f[c]]) >= 1 /\ Back(g[f[c]], 1) >= t
    <3>1. CASE c = b
      <4>1. f[c] = ip /\ g[ip] = Pushed(fails[ip])
        BY <3>1 DEF TypeInv
      <4>2. /\ Pushed(fails[ip]) \in Seq(Nat) /\ Back(Pushed(fails[ip]), 1) = time
            /\ Len(Pushed(fails[ip])) \in 1..(FailLimit + 1)
        BY PushShape, PushInOrder DEF TypeInv, InOrder
      <4>3. QED BY <1>6, <4>1, <4>2 DEF TypeInv
    <3>2. CASE c # b
      <4>1. f[c] = buckets[c].ip /\ g[f[c]] = fails[f[c]] /\ f[c] \in Peers
        BY <1>1, <1>4, <3>2 DEF TypeInv
      <4>2. fails[f[c]] \in Seq(Nat)
        BY <4>1 DEF TypeInv
      <4>3. QED BY <1>3, <4>1, <4>2
    <3>3. QED BY <3>1, <3>2
  <2>2. /\ Len(g[f[c]]) \in DOMAIN g[f[c]]
        /\ Len(g[f[c]]) - 1 + 1 = Len(g[f[c]])
    BY <2>1
  <2>3. QED BY <2>1, <2>2 DEF Back
<1>8. f \in [1..Buckets -> Others(g, e, t)]
  BY <1>5, <1>7 DEF Others
<1>9. ASSUME NEW c \in 1..Buckets, NEW d \in 1..Buckets, f[c] = f[d]
      PROVE  c = d
  BY <1>3, <1>4, <1>9 DEF TypeInv
<1> HIDE DEF f, t, e
<1>10. f \in Injection(1..Buckets, Others(g, e, t))
  BY <1>8, <1>9 DEF Injection, IsInjective
<1>11. Cardinality(1..Buckets) <= Cardinality(Others(g, e, t))
  BY <1>10, PeersFinite, FS_Injection
<1>12. Cardinality(1..Buckets) = Buckets
  BY FS_Interval, Numbers
<1>13. QED BY <1>11, <1>12 DEF Crowd, e, t

\* A failure that is let through comes a Window after the one FailLimit before it,
\* or after a crowd.
LEMMA LetThrough ==
  ASSUME LockInv, time < Wrap, NEW ip \in Peers, ~Locked(ip), Len(fails[ip]) >= FailLimit,
         NEW b \in 1..Buckets, NEW old \in BucketType, old.ip = ip,
         Known(ip, b, old) \/ Taken(ip, b, old),
         NEW m \in 0..FailLimit, Keeps(fails, old, m)
  PROVE  \/ time - Back(fails[ip], FailLimit) >= Window
         \/ Crowd(fails, ip, Back(fails[ip], FailLimit))
<1> USE DEF LockInv
<1> DEFINE s == fails[ip]
<1>1. /\ fails \in [Peers -> Seq(Nat)] /\ time \in Nat \ {0} /\ Len(s) \in Nat
      /\ \A j \in 1..Len(s) : Back(s, j) \in 1..time
      /\ \A j, k \in 1..Len(s) : j <= k => Back(s, k) <= Back(s, j)
  BY DEF TypeInv, InOrder
<1>2. FailLimit \in 1..Len(s)
  BY <1>1, Numbers
<1>3. CASE m < FailLimit
  <2>1. /\ m + 1 \in 1..Len(s) /\ m + 1 <= FailLimit /\ m # Len(s) /\ m # FailLimit
    BY <1>1, <1>3, Numbers
  <2>2. Crowd(fails, ip, Back(s, m + 1))
    BY <2>1 DEF Keeps
  <2>3. Back(s, FailLimit) <= Back(s, m + 1)
    BY <1>1, <1>2, <2>1
  <2>4. Back(s, FailLimit) \in Nat /\ Back(s, m + 1) \in Nat
    BY <1>1, <1>2, <2>1
  <2>5. QED BY <1>1, <2>2, <2>3, <2>4, EarlierCrowd
<1>4. CASE m = FailLimit
  <2>1. Known(ip, b, old)
    <3>1. 1 \in 1..FailLimit /\ 1 <= m
      BY <1>4, Numbers
    <3>2. old.ts[Slot(old.head, 1)] # 0
      BY <3>1 DEF Keeps
    <3>3. old # Bucket(ip)
      BY <3>1, <3>2, FreshBucket
    <3>4. QED BY <3>3 DEF Taken
  <2>2. b \in InUse(ip) /\ old = buckets[b] /\ Mirrors(fails, old)
    BY <2>1 DEF Known, InUse, RingInv
  <2>3. \E k \in Index : ~Counts(old.ts[k])
    <3>1. SUFFICES ASSUME \A k \in Index : Counts(old.ts[k])
                   PROVE  FALSE
      OBVIOUS
    <3>2. {k \in Index : Counts(buckets[b].ts[k])} = Index
      BY <2>2, <3>1
    <3>3. Cardinality(Index) = FailLimit
      BY FS_Interval, Numbers
    <3>4. Cardinality(Index) >= FailLimit
      BY <3>3, Numbers
    <3>5. QED BY <2>2, <3>2, <3>4 DEF Locked
  <2>4. PICK j \in 1..FailLimit : ~Counts(old.ts[Slot(old.head, j)])
    <3>1. PICK k \in Index : ~Counts(old.ts[k])
      BY <2>3
    <3>2. old.head \in Index
      BY DEF BucketType
    <3>3. QED BY <3>1, <3>2, Slots
  <2>5. /\ old.ts[Slot(old.head, j)] # 0
        /\ old.ts[Slot(old.head, j)] = Back(s, j) % Wrap
    <3>1. j <= m
      BY <1>4
    <3>2. old.ts[Slot(old.head, j)] # 0
      BY <3>1 DEF Keeps
    <3>3. QED BY <2>2, <3>2 DEF Mirrors
  <2>6. j \in 1..Len(s) /\ Back(s, j) \in 1..time
    BY <1>1, <1>2
  <2>7. time - Back(s, j) \in 0..(Wrap - 1)
    BY <1>1, <2>6, Numbers
  <2>8. Age(Back(s, j) % Wrap) = time - Back(s, j)
    <3>1. time \in Nat /\ Back(s, j) \in Nat /\ Wrap \in Nat \ {0}
      BY <1>1, <2>6, Numbers
    <3>2. ((time % Wrap) - (Back(s, j) % Wrap)) % Wrap = time - Back(s, j)
      BY <2>7, <3>1, AgeOfRemainder
    <3>3. QED BY <3>2 DEF Age, now
  <2>9. ~(time - Back(s, j) < Window)
    BY <2>4, <2>5, <2>8 DEF Counts
  <2>10. Back(s, FailLimit) <= Back(s, j) /\ Back(s, FailLimit) \in Nat
    BY <1>1, <1>2, <2>6
  <2>11. time - Back(s, FailLimit) >= Window
    BY <1>1, <2>6, <2>9, <2>10, Numbers
  <2>12. QED BY <2>11
<1>5. QED BY <1>3, <1>4, Numbers

\* One failure more of a peer, in that bucket.
Records(ip, b, old) ==
  /\ time' = time
  /\ fails' = [fails EXCEPT ![ip] = Pushed(fails[ip])]
  /\ buckets' = [buckets EXCEPT ![b] = Noted(old)]
  /\ old.ip = ip
  /\ Known(ip, b, old) \/ Taken(ip, b, old)

\* What it leaves: the other peers and buckets, none of which is this peer's.
LEMMA Recorded ==
  ASSUME TypeInv, NEW ip \in Peers, NEW b \in 1..Buckets, NEW old \in BucketType,
         Records(ip, b, old)
  PROVE  /\ fails'[ip] = Pushed(fails[ip])
         /\ \A q \in Peers \ {ip} : fails'[q] = fails[q]
         /\ buckets'[b] = Noted(old) /\ Noted(old) \in BucketType
         /\ Noted(old).ip = ip /\ Noted(old).lastUse = now
         /\ \A c \in (1..Buckets) \ {b} :
              buckets'[c] = buckets[c] /\ (buckets[c].lastUse # 0 => buckets[c].ip # ip)
<1>1. fails'[ip] = Pushed(fails[ip]) /\ \A q \in Peers \ {ip} : fails'[q] = fails[q]
  BY DEF Records, TypeInv
<1>2. buckets'[b] = Noted(old) /\ \A c \in (1..Buckets) \ {b} : buckets'[c] = buckets[c]
  BY DEF Records, TypeInv
<1>3. Noted(old) \in BucketType /\ Noted(old).ip = ip /\ Noted(old).lastUse = now
  BY NotedShape DEF Records, TypeInv
<1>4. ASSUME NEW c \in (1..Buckets) \ {b}, buckets[c].lastUse # 0
      PROVE  buckets[c].ip # ip
  <2>1. CASE Known(ip, b, old)
    BY <1>4, <2>1 DEF Known, TypeInv
  <2>2. CASE Taken(ip, b, old)
    BY <1>4, <2>2 DEF Taken, Holds
  <2>3. QED BY <2>1, <2>2 DEF Records
<1>5. QED BY <1>1, <1>2, <1>3, <1>4

LEMMA RecordTypes ==
  ASSUME TypeInv, NEW ip \in Peers, NEW b \in 1..Buckets, NEW old \in BucketType,
         Records(ip, b, old)
  PROVE  TypeInv'
<1>1. time' = time /\ time \in Nat \ {0}
  BY DEF Records, TypeInv
<1>2. \A q \in Peers : InOrder(fails'[q])
  <2>1. InOrder(fails[ip])
    BY DEF TypeInv
  <2>2. InOrder(Pushed(fails[ip]))
    BY <1>1, <2>1, PushInOrder
  <2>3. fails'[ip] = Pushed(fails[ip]) /\ \A q \in Peers \ {ip} : fails'[q] = fails[q]
    BY Recorded
  <2>4. InOrder(fails'[ip])
    BY <2>2, <2>3
  <2>5. QED BY <2>3, <2>4 DEF TypeInv
<1>3. buckets' \in [1..Buckets -> BucketType]
  BY Recorded DEF Records, TypeInv
<1>4. fails' \in [Peers -> Seq(Nat)]
  <2>1. Pushed(fails[ip]) \in Seq(Nat)
    BY <1>2, Recorded DEF InOrder
  <2>2. QED BY <2>1 DEF Records, TypeInv
<1>5. ASSUME NEW c \in 1..Buckets, NEW d \in 1..Buckets,
             buckets'[c].lastUse # 0, buckets'[d].lastUse # 0, buckets'[c].ip = buckets'[d].ip
      PROVE  c = d
  <2>1. CASE c = b \/ d = b
    BY <1>5, <2>1, Recorded
  <2>2. CASE c # b /\ d # b
    <3>1. buckets'[c] = buckets[c] /\ buckets'[d] = buckets[d]
      BY <2>2, Recorded
    <3>2. QED BY <1>5, <3>1 DEF TypeInv
  <2>3. QED BY <2>1, <2>2
<1>6. \A q \in Peers : InOrder(fails[q])'
  BY <1>1, <1>2 DEF InOrder
<1>7. QED BY <1>1, <1>3, <1>4, <1>5, <1>6 DEF TypeInv

LEMMA RecordMirrors ==
  ASSUME TypeInv, RingInv, NEW ip \in Peers, NEW b \in 1..Buckets, NEW old \in BucketType,
         Records(ip, b, old)
  PROVE  RingInv'
<1>1. Mirrors(fails', buckets'[b])
  <2>1. Mirrors(fails, old)
    <3>1. CASE Known(ip, b, old)
      BY <3>1 DEF Known, RingInv
    <3>2. CASE Taken(ip, b, old)
      BY <3>2, FreshBucket DEF Taken, Mirrors
    <3>3. QED BY <3>1, <3>2 DEF Records
  <2>2. fails'[ip] = Pushed(fails[ip]) /\ buckets'[b] = Noted(old)
    BY Recorded
  <2>3. old.ip = ip
    BY DEF Records
  <2>4. QED BY <2>1, <2>2, <2>3, NotedMirrors
<1>2. ASSUME NEW c \in (1..Buckets) \ {b}, buckets'[c].lastUse # 0
      PROVE  Mirrors(fails', buckets'[c])
  <2>1. buckets'[c] = buckets[c] /\ buckets[c].lastUse # 0 /\ buckets[c].ip # ip
    BY <1>2, Recorded
  <2>2. fails'[buckets[c].ip] = fails[buckets[c].ip]
    <3>1. buckets[c].ip \in Peers
      BY DEF TypeInv, BucketType
    <3>2. QED BY <2>1, <3>1, Recorded
  <2>3. Mirrors(fails, buckets[c])
    BY <2>1 DEF RingInv
  <2>4. QED BY <2>1, <2>2, <2>3 DEF Mirrors
<1>3. QED BY <1>1, <1>2 DEF RingInv

\* The bucket that takes the failure keeps what it should, a fresh one nothing.
LEMMA OldKeeps ==
  ASSUME TypeInv, KeptInv, GoneInv, time < Wrap, NEW ip \in Peers, NEW b \in 1..Buckets,
         NEW old \in BucketType, Known(ip, b, old) \/ Taken(ip, b, old)
  PROVE  \E m \in 0..FailLimit : Keeps(fails, old, m)
<1>1. CASE Known(ip, b, old)
  <2>1. PICK m \in 1..FailLimit : Keeps(fails, old, m)
    BY <1>1 DEF Known, KeptInv
  <2>2. m \in 0..FailLimit
    OBVIOUS
  <2>3. QED BY <2>1, <2>2
<1>2. CASE Taken(ip, b, old)
  <2>1. /\ old.ip = ip /\ ~Holds(buckets, ip)
        /\ \A j \in 1..FailLimit : old.ts[Slot(old.head, j)] = 0
    BY <1>2, FreshBucket DEF Taken
  <2>2. Len(fails[ip]) \in Nat
    BY DEF TypeInv
  <2>3. 0 = Len(fails[ip]) \/ Crowd(fails, ip, Back(fails[ip], 0 + 1))
    BY <2>1, <2>2 DEF GoneInv
  <2>4. \A j \in 1..FailLimit : old.ts[Slot(old.head, j)] # 0 <=> j <= 0
    BY <2>1
  <2>5. Keeps(fails, old, 0)
    BY <2>1, <2>2, <2>3, <2>4 DEF Keeps
  <2>6. 0 \in 0..FailLimit
    BY Numbers
  <2>7. QED BY <2>5, <2>6
<1>3. QED BY <1>1, <1>2

LEMMA RecordKeeps ==
  ASSUME TypeInv, KeptInv, GoneInv, NEW ip \in Peers, NEW b \in 1..Buckets,
         NEW old \in BucketType, Records(ip, b, old)
  PROVE  KeptInv'
<1> SUFFICES ASSUME time < Wrap, NEW c \in 1..Buckets, buckets'[c].lastUse # 0
             PROVE  /\ buckets'[c].lastUse = Back(fails'[buckets'[c].ip], 1)
                    /\ \E m \in 1..FailLimit : Keeps(fails', buckets'[c], m)
  BY DEF KeptInv, Records
<1>1. fails' = [fails EXCEPT ![ip] = Pushed(fails[ip])] /\ old.ip = ip
  BY DEF Records
<1>2. CASE c = b
  <2>1. PICK m \in 0..FailLimit : Keeps(fails, old, m)
    BY OldKeeps DEF Records
  <2>2. buckets'[c] = Noted(old)
    BY <1>2, Recorded
  <2>3. QED BY <1>1, <2>1, <2>2, NotedKeeps
<1>3. CASE c # b
  <2> DEFINE q == buckets[c].ip
  <2>1. /\ buckets'[c] = buckets[c] /\ buckets[c].lastUse # 0 /\ q # ip
        /\ q \in Peers /\ fails'[q] = fails[q]
    <3>1. buckets'[c] = buckets[c] /\ buckets[c].lastUse # 0 /\ q # ip
      BY <1>3, Recorded
    <3>2. q \in Peers
      BY DEF TypeInv, BucketType
    <3>3. QED BY <3>1, <3>2, Recorded
  <2>2. PICK m \in 1..FailLimit : Keeps(fails, buckets[c], m)
    BY <2>1 DEF KeptInv
  <2>3. m = Len(fails[q]) \/ m = FailLimit \/ Crowd(fails', q, Back(fails[q], m + 1))
    <3>1. SUFFICES ASSUME m # Len(fails[q]), m # FailLimit
                   PROVE  Crowd(fails', q, Back(fails[q], m + 1))
      OBVIOUS
    <3>2. Crowd(fails, q, Back(fails[q], m + 1)) /\ m <= Len(fails[q])
      BY <2>2, <3>1 DEF Keeps
    <3>3. Len(fails[q]) \in Nat /\ InOrder(fails[q]) /\ time \in Nat
      BY <2>1 DEF TypeInv
    <3>4. m + 1 \in 1..Len(fails[q])
      BY <3>1, <3>2, <3>3
    <3>5. Back(fails[q], m + 1) \in Nat /\ Back(fails[q], m + 1) <= time
      BY <3>3, <3>4 DEF InOrder
    <3>6. QED BY <1>1, <3>2, <3>5, CrowdGrows
  <2>4. Keeps(fails', buckets'[c], m)
    BY <2>1, <2>2, <2>3 DEF Keeps
  <2>5. buckets'[c].lastUse = Back(fails'[buckets'[c].ip], 1)
    BY <2>1 DEF KeptInv
  <2>6. QED BY <2>4, <2>5
<1>4. QED BY <1>2, <1>3

LEMMA NowIsTime ==
  ASSUME TypeInv, time < Wrap
  PROVE  now = time /\ time \in Nat \ {0}
<1>1. time \in Nat \ {0} /\ time \in 0..(Wrap - 1)
  BY Numbers DEF TypeInv
<1>2. QED BY <1>1, Numbers, SmallRemainder DEF now

LEMMA RecordGone ==
  ASSUME LockInv, NEW ip \in Peers, NEW b \in 1..Buckets, NEW old \in BucketType,
         Records(ip, b, old)
  PROVE  GoneInv'
<1> USE DEF LockInv
<1> SUFFICES ASSUME time < Wrap, NEW q \in Peers, Len(fails'[q]) >= 1
             PROVE  Holds(buckets', q) \/ Crowd(fails', q, Back(fails'[q], 1))
  BY DEF GoneInv, Records
<1>1. CASE q = ip
  <2>1. buckets'[b].ip = ip /\ buckets'[b].lastUse # 0
    BY Recorded, NowIsTime
  <2>2. QED BY <1>1, <2>1 DEF Holds
<1>2. CASE q # ip
  <2>1. fails'[q] = fails[q] /\ fails' = [fails EXCEPT ![ip] = Pushed(fails[ip])]
    BY <1>2, Recorded DEF Records
  <2>2. CASE Crowd(fails, q, Back(fails[q], 1))
    <3>1. /\ Len(fails[q]) \in Nat /\ InOrder(fails[q]) /\ time \in Nat
          /\ 1 \in 1..Len(fails[q])
      BY <2>1 DEF TypeInv
    <3>2. Back(fails[q], 1) \in Nat /\ Back(fails[q], 1) <= time
      BY <3>1 DEF InOrder
    <3>3. QED BY <2>1, <2>2, <3>2, CrowdGrows
  <2>3. CASE Holds(buckets, q)
    <3>1. PICK c \in 1..Buckets : buckets[c].lastUse # 0 /\ buckets[c].ip = q
      BY <2>3 DEF Holds
    <3>2. CASE c # b
      BY <3>1, <3>2, Recorded DEF Holds
    <3>3. CASE c = b
      <4>1. Taken(ip, b, old)
        BY <1>2, <3>1, <3>3 DEF Records, Known
      <4>2. LeastRecent(b) /\ ~Holds(buckets, ip)
        BY <4>1 DEF Taken
      <4>3. QED BY <2>1, <3>1, <3>3, <4>2, TakenFromCrowd
    <3>4. QED BY <3>2, <3>3
  <2>4. QED BY <2>1, <2>2, <2>3 DEF GoneInv
<1>3. QED BY <1>1, <1>2

LEMMA RecordSpread ==
  ASSUME LockInv, NEW ip \in Peers, NEW b \in 1..Buckets, NEW old \in BucketType,
         ~Locked(ip), Records(ip, b, old)
  PROVE  SpreadInv'
<1> USE DEF LockInv
<1> SUFFICES ASSUME time < Wrap, NEW q \in Peers, Len(fails'[q]) = FailLimit + 1
             PROVE  \/ Back(fails'[q], 1) - Back(fails'[q], FailLimit + 1) >= Window
                    \/ Crowd(fails', q, Back(fails'[q], FailLimit + 1))
  BY DEF SpreadInv, Spread, Records
<1>1. fails' = [fails EXCEPT ![ip] = Pushed(fails[ip])]
  BY DEF Records
<1>2. /\ Len(fails[q]) \in Nat /\ Len(fails[q]) <= FailLimit + 1 /\ InOrder(fails[q])
      /\ fails[q] \in Seq(Nat) /\ time \in Nat
  BY DEF TypeInv, InOrder
<1>3. CASE q = ip
  <2>1. /\ Len(fails'[ip]) = IF Len(fails[ip]) <= FailLimit THEN Len(fails[ip]) + 1
                             ELSE FailLimit + 1
        /\ Back(fails'[ip], 1) = time
        /\ \A j \in 1..FailLimit : j <= Len(fails[ip]) =>
             Back(fails'[ip], j + 1) = Back(fails[ip], j)
    BY <1>2, <1>3, Recorded, PushShape
  <2>2. Len(fails[ip]) >= FailLimit /\ FailLimit \in 1..FailLimit /\ FailLimit \in 1..Len(fails[ip])
    BY <1>2, <1>3, <2>1, Numbers
  <2>3. Back(fails'[ip], FailLimit + 1) = Back(fails[ip], FailLimit)
    BY <1>2, <1>3, <2>1, <2>2
  <2>4. PICK m \in 0..FailLimit : Keeps(fails, old, m)
    BY OldKeeps DEF Records
  <2>5. \/ time - Back(fails[ip], FailLimit) >= Window
        \/ Crowd(fails, ip, Back(fails[ip], FailLimit))
    BY <2>2, <2>4, LetThrough DEF Records
  <2>6. Back(fails[ip], FailLimit) \in Nat /\ Back(fails[ip], FailLimit) <= time
    BY <1>2, <1>3, <2>2 DEF InOrder
  <2>7. \/ time - Back(fails[ip], FailLimit) >= Window
        \/ Crowd(fails', ip, Back(fails[ip], FailLimit))
    BY <1>1, <2>5, <2>6, CrowdGrows
  <2>8. QED BY <1>3, <2>1, <2>3, <2>7
<1>4. CASE q # ip
  <2>1. fails'[q] = fails[q]
    BY <1>4, Recorded
  <2>2. \/ Back(fails[q], 1) - Back(fails[q], FailLimit + 1) >= Window
        \/ Crowd(fails, q, Back(fails[q], FailLimit + 1))
    BY <2>1 DEF SpreadInv, Spread
  <2>3. FailLimit + 1 \in 1..Len(fails[q])
    BY <2>1, Numbers
  <2>4. Back(fails[q], FailLimit + 1) \in Nat /\ Back(fails[q], FailLimit + 1) <= time
    BY <1>2, <2>3 DEF InOrder
  <2>5. QED BY <1>1, <2>1, <2>2, <2>4, CrowdGrows
<1>5. QED BY <1>3, <1>4

LEMMA RecordStep ==
  ASSUME LockInv, NEW ip \in Peers, WrongCredential(ip)
  PROVE  LockInv'
<1> USE DEF LockInv
<1>1. ~Locked(ip) /\ RecordFailure(ip) /\ time' = time
  BY DEF WrongCredential
<1>2. PICK b \in 1..Buckets, old \in BucketType : Records(ip, b, old)
  BY <1>1, RecordShape DEF Records
<1>3. TypeInv'
  BY <1>2, RecordTypes
<1>4. RingInv'
  BY <1>2, RecordMirrors
<1>5. KeptInv'
  BY <1>2, RecordKeeps
<1>6. GoneInv'
  BY <1>2, RecordGone
<1>7. SpreadInv'
  BY <1>1, <1>2, RecordSpread
<1>8. QED BY <1>3, <1>4, <1>5, <1>6, <1>7

(***************************************************************************)
(* Every step keeps the invariant                                          *)
(***************************************************************************)

LEMMA LockInvInit == LockInit => LockInv
<1> SUFFICES ASSUME LockInit PROVE LockInv
  OBVIOUS
<1>1. /\ time = 1 /\ fails = [ip \in Peers |-> <<>>]
      /\ \A b \in 1..Buckets : buckets[b] = Bucket(Shared)
      /\ buckets = [b \in 1..Buckets |-> Bucket(Shared)]
  BY DEF LockInit
<1>2. Shared \in Peers /\ \A ip \in Peers : fails[ip] = <<>> /\ Len(fails[ip]) = 0
  BY <1>1 DEF Peers
<1>3. \A b \in 1..Buckets : buckets[b].lastUse = 0
  BY <1>1 DEF Bucket
<1>4. TypeInv
  <2>1. InOrder(<<>>)
    <3>1. <<>> \in Seq(Nat) /\ Len(<<>>) = 0 /\ 0 <= FailLimit + 1
      BY Numbers
    <3>2. QED BY <3>1 DEF InOrder
  <2>2. <<>> \in Seq(Nat)
    OBVIOUS
  <2>3. fails \in [Peers -> Seq(Nat)]
    BY <1>1, <2>2
  <2>4. buckets \in [1..Buckets -> BucketType]
    BY <1>1, <1>2, FreshBucket
  <2>5. QED BY <1>1, <1>2, <1>3, <2>1, <2>3, <2>4 DEF TypeInv
<1>5. RingInv /\ KeptInv
  BY <1>3 DEF RingInv, KeptInv
<1>6. GoneInv /\ SpreadInv
  BY <1>2, Numbers DEF GoneInv, SpreadInv, Spread
<1>7. QED BY <1>4, <1>5, <1>6 DEF LockInv

LEMMA TickStep ==
  ASSUME LockInv, Tick
  PROVE  LockInv'
<1> USE DEF LockInv
<1>1. time' = time + 1 /\ buckets' = buckets /\ fails' = fails /\ time \in Nat \ {0}
  BY DEF Tick, TypeInv
<1>2. ASSUME time' < Wrap
      PROVE  time < Wrap
  BY <1>1, <1>2, Numbers
<1>3. TypeInv'
  <2>1. ASSUME NEW ip \in Peers
        PROVE  InOrder(fails[ip])'
    <3>1. InOrder(fails[ip])
      BY DEF TypeInv
    <3>2. \A j \in 1..Len(fails[ip]) : Back(fails[ip], j) \in 1..time'
      BY <1>1, <3>1 DEF InOrder
    <3>3. QED BY <1>1, <3>1, <3>2 DEF InOrder
  <2>2. QED BY <1>1, <2>1 DEF TypeInv
<1>4. RingInv'
  BY <1>1 DEF RingInv
<1>5. KeptInv'
  BY <1>1, <1>2 DEF KeptInv
<1>6. GoneInv' /\ SpreadInv'
  BY <1>1, <1>2 DEF GoneInv, SpreadInv
<1>7. QED BY <1>3, <1>4, <1>5, <1>6

LEMMA LockInvStep == LockInv /\ [LockNext]_lockVars => LockInv'
<1> SUFFICES ASSUME LockInv, [LockNext]_lockVars PROVE LockInv'
  OBVIOUS
<1>1. ASSUME NEW ip \in Peers, RestKey(ip)
      PROVE  LockInv'
  BY <1>1, RecordStep DEF RestKey
<1>2. ASSUME NEW ip \in Peers, Password(ip)
      PROVE  LockInv'
  BY <1>2, RecordStep DEF Password
<1>3. CASE SocketToken
  <2>1. Shared \in Peers
    BY DEF Peers
  <2>2. QED BY <1>3, <2>1, RecordStep DEF SocketToken
<1>4. CASE Tick
  BY <1>4, TickStep
<1>5. CASE UNCHANGED lockVars
  BY <1>5 DEF lockVars, LockInv, TypeInv, InOrder, RingInv, KeptInv, GoneInv, SpreadInv
<1>6. QED BY <1>1, <1>2, <1>3, <1>4, <1>5 DEF LockNext

\* The buckets of main/auth.cpp mirror the failures of the peers they belong to, and
\* no peer loses its bucket but to a crowd.
THEOREM LockoutInvariance == LockSpec => []LockInv
BY LockInvInit, LockInvStep, PTL DEF LockSpec

(***************************************************************************)
(* What a peer gets                                                        *)
(***************************************************************************)

LEMMA Bounded == LockInv => GuessesAreBounded
<1> SUFFICES ASSUME LockInv, time < Wrap, NEW ip \in Peers, ~(Cardinality(Recent(ip)) <= FailLimit)
             PROVE  \E k \in Recent(ip) : Cardinality(OthersSince(ip, fails[ip][k])) >= Buckets
  BY DEF GuessesAreBounded
<1> DEFINE s == fails[ip]
<1>1. /\ s \in Seq(Nat) /\ Len(s) \in Nat /\ Len(s) <= FailLimit + 1 /\ time \in Nat
      /\ \A j \in 1..Len(s) : Back(s, j) \in 1..time
      /\ DOMAIN s = 1..Len(s)
  BY DEF LockInv, TypeInv, InOrder
<1>2. IsFiniteSet(1..Len(s)) /\ Cardinality(1..Len(s)) = Len(s)
  <2>1. PICK len \in Nat : len = Len(s)
    BY <1>1
  <2>2. IsFiniteSet(1..len) /\ Cardinality(1..len) = IF 1 > len THEN 0 ELSE len - 1 + 1
    BY FS_Interval
  <2>3. QED BY <2>1, <2>2
<1>3. Recent(ip) \in SUBSET (1..Len(s))
  BY <1>1 DEF Recent
<1>4. /\ Cardinality(Recent(ip)) <= Len(s) /\ Cardinality(Recent(ip)) \in Nat
      /\ Cardinality(Recent(ip)) = Len(s) => Recent(ip) = 1..Len(s)
  BY <1>2, <1>3, FS_Subset, FS_CardinalityType
<1>5. Len(s) = FailLimit + 1 /\ Recent(ip) = 1..Len(s)
  BY <1>1, <1>4, Numbers
<1>6. 1 \in Recent(ip) /\ 1 \in 1..Len(s) /\ FailLimit + 1 \in 1..Len(s)
  BY <1>5, Numbers
<1>7. Back(s, FailLimit + 1) = s[1]
  <2>1. Len(s) - (FailLimit + 1) + 1 = 1
    BY <1>5, Numbers
  <2>2. QED BY <2>1 DEF Back
<1>8. time - s[1] < Window
  BY <1>6 DEF Recent
<1>9. Back(s, 1) \in 1..time /\ s[1] \in 1..time
  BY <1>1, <1>6, <1>7
<1>10. ~(Back(s, 1) - s[1] >= Window)
  BY <1>1, <1>8, <1>9, Numbers
<1>11. Crowd(fails, ip, s[1])
  BY <1>5, <1>7, <1>10 DEF LockInv, SpreadInv, Spread
<1>12. OthersSince(ip, s[1]) = Others(fails, ip, s[1])
  BY DEF OthersSince, Others
<1>13. QED BY <1>6, <1>11, <1>12 DEF Crowd

\* A peer gets no more than FailLimit guesses in a Window, whatever the entry point,
\* unless as many other peers as there are buckets fail meanwhile.
THEOREM GuessesBounded == LockSpec => []GuessesAreBounded
BY LockoutInvariance, Bounded, PTL

LEMMA ForCause == LockInv => RefusedForCause
<1> SUFFICES ASSUME LockInv, NEW ip \in Peers, Locked(ip),
                    \A k \in DOMAIN fails[ip] : ~(time - fails[ip][k] >= Wrap)
             PROVE  Cardinality(Recent(ip)) >= FailLimit
  BY DEF RefusedForCause
<1> DEFINE s == fails[ip]
<1>1. /\ s \in Seq(Nat) /\ Len(s) \in Nat /\ time \in Nat /\ DOMAIN s = 1..Len(s)
      /\ \A j \in 1..Len(s) : Back(s, j) \in 1..time
  BY DEF LockInv, TypeInv, InOrder
<1>2. PICK b \in InUse(ip) :
        Cardinality({k \in Index : Counts(buckets[b].ts[k])}) >= FailLimit
  BY DEF Locked
<1>3. /\ b \in 1..Buckets /\ buckets[b].ip = ip /\ Mirrors(fails, buckets[b])
      /\ buckets[b].head \in Index
  BY DEF InUse, LockInv, RingInv, TypeInv, BucketType
<1>4. \A k \in Index : Counts(buckets[b].ts[k])
  <2> DEFINE S == {k \in Index : Counts(buckets[b].ts[k])}
  <2>1. IsFiniteSet(Index) /\ Cardinality(Index) = FailLimit
    BY FS_Interval, Numbers
  <2>2. S \in SUBSET Index
    OBVIOUS
  <2> HIDE DEF S
  <2>3. /\ Cardinality(S) <= FailLimit /\ Cardinality(S) \in Nat
        /\ Cardinality(S) = FailLimit => S = Index
    BY <2>1, <2>2, FS_Subset, FS_CardinalityType
  <2>4. Cardinality(S) >= FailLimit
    BY <1>2 DEF S
  <2>5. S = Index
    BY <2>3, <2>4, Numbers
  <2>6. QED BY <2>5 DEF S
<1>5. ASSUME NEW j \in 1..FailLimit
      PROVE  j \in 1..Len(s) /\ time - Back(s, j) < Window
  <2> DEFINE t == buckets[b].ts[Slot(buckets[b].head, j)]
  <2>1. Counts(t)
    BY <1>3, <1>4, Slots
  <2>2. j <= Len(s) /\ t = Back(s, j) % Wrap
    BY <1>3, <2>1 DEF Mirrors, Counts
  <2>3. j \in 1..Len(s) /\ Back(s, j) \in 1..time
    BY <1>1, <2>2
  <2>4. time - Back(s, j) \in 0..(Wrap - 1)
    <3>1. Len(s) - j + 1 \in DOMAIN s
      BY <1>1, <2>3
    <3>2. ~(time - Back(s, j) >= Wrap)
      BY <3>1 DEF Back
    <3>3. QED BY <1>1, <2>3, <3>2, Numbers
  <2>5. Age(t) = time - Back(s, j)
    <3>1. time \in Nat /\ Back(s, j) \in Nat /\ Wrap \in Nat \ {0}
      BY <1>1, <2>3, Numbers
    <3>2. ((time % Wrap) - (Back(s, j) % Wrap)) % Wrap = time - Back(s, j)
      BY <2>4, <3>1, AgeOfRemainder
    <3>3. QED BY <2>2, <3>2 DEF Age, now
  <2>6. QED BY <2>1, <2>3, <2>5 DEF Counts
<1>6. FailLimit \in 1..Len(s)
  BY <1>5, Numbers
<1>7. (Len(s) - FailLimit + 1)..Len(s) \subseteq Recent(ip)
  <2>1. ASSUME NEW k \in (Len(s) - FailLimit + 1)..Len(s)
        PROVE  k \in DOMAIN s /\ time - s[k] < Window
    <3>1. /\ Len(s) - k + 1 \in 1..FailLimit /\ Len(s) - (Len(s) - k + 1) + 1 = k
          /\ k \in 1..Len(s)
      BY <1>1, <1>6, Numbers
    <3>2. QED BY <1>1, <1>5, <3>1 DEF Back
  <2>2. QED BY <2>1 DEF Recent
<1>8. Cardinality((Len(s) - FailLimit + 1)..Len(s)) = FailLimit
  <2>1. /\ Len(s) - FailLimit + 1 \in Int /\ Len(s) \in Int
        /\ Len(s) - FailLimit + 1 <= Len(s)
        /\ Len(s) - (Len(s) - FailLimit + 1) + 1 = FailLimit
    BY <1>1, Numbers
  <2>2. QED BY <2>1, FS_Interval
<1>9. IsFiniteSet(Recent(ip))
  <2>1. IsFiniteSet(1..Len(s)) /\ Recent(ip) \in SUBSET (1..Len(s))
    BY <1>1, FS_Interval DEF Recent
  <2>2. QED BY <2>1, FS_Subset
<1>10. /\ Cardinality((Len(s) - FailLimit + 1)..Len(s)) <= Cardinality(Recent(ip))
       /\ Cardinality(Recent(ip)) \in Nat
  BY <1>7, <1>9, FS_Subset, FS_CardinalityType
<1>11. QED BY <1>8, <1>10, Numbers

\* A peer is refused only for FailLimit failures of its own in the last Window, the
\* wrap of the clock or not.
THEOREM RefusedOnlyForCause == LockSpec => []RefusedForCause
BY LockoutInvariance, ForCause, PTL
=============================================================================
