------------------------------ MODULE AuthStore ------------------------------
(***************************************************************************)
(* Sign-in state and system settings (main/auth.cpp, sys_state.cpp,        *)
(* api_system.cpp): the API token, the admin password, the sign-in switch  *)
(* and a system flag, each held in RAM and in NVS, and the WebSocket       *)
(* sessions that were opened with the token.                               *)
(*                                                                         *)
(* httpd runs every request; the cloud relay runs token.rotate and         *)
(* settings.set in a task of its own, and no lock spans the two.  Each NVS *)
(* call and each update of RAM is a step: the other task may come between  *)
(* two of them, an NVS call may fail, a read at boot included, and the     *)
(* gateway may reset.                                                      *)
(*                                                                         *)
(* A fresh token or salt is the next number; a hash is the pair of the     *)
(* password and the salt it was derived from.  The flag stands for the     *)
(* sys_cfg flags, which all work alike; broker and time server settings    *)
(* are handed to external components.  A token of 33 bytes is copied in    *)
(* one step.  Sign-in is on by default (CONFIG_ZHAC_API_AUTH_DEFAULT_-     *)
(* ENABLED).                                                               *)
(***************************************************************************)
EXTENDS Integers, FiniteSets

CONSTANTS
  Passwords,    \* admin passwords of a valid length
  Sockets,      \* WebSocket clients
  Httpd, Relay, \* the two tasks
  FlagValues,   \* what settings.set may set the flag to
  MaxTokens,    \* bound: tokens drawn
  MaxSalts,     \* bound: salts drawn
  Faults,       \* the NVS calls that may return an error
  MaxFaults,    \* bound: NVS errors in a behaviour
  MaxCrashes,   \* bound: resets in a behaviour
  None

\* What auth_init reads, and may store.
BootCalls == {"get_u8", "get_str", "get_blob", "set_str"}
NvsCalls  == BootCalls \cup {"open", "set_blob", "set_u8", "commit"}

ASSUME AuthAssumption ==
  /\ MaxTokens \in Nat /\ MaxSalts \in Nat
  /\ Faults \subseteq NvsCalls
  /\ MaxFaults \in Nat /\ MaxCrashes \in Nat
  /\ Httpd # Relay /\ FlagValues \subseteq BOOLEAN
  /\ None \notin Nat \cup Passwords \cup BOOLEAN \cup Sockets
  /\ None \notin [pw : Passwords, salt : Nat]
  /\ None \notin {"setup", "password", "rotate", "settings", "auth"}

VARIABLES
  ram,       \* the s_* statics of auth.cpp and s_metrics_enabled of sys_state.cpp
  flash,     \* zhac_auth: token, enabled, pw_salt, pw_hash; sys_cfg: the flag
  power,     \* off, sys (sys_state_init is over) or on
  pc,        \* task -> idle, or the step its handler takes next
  req,       \* task -> what the handler was asked and its locals
  window,    \* the setup window after power-on is open
  sessions,  \* socket -> the token it signed in with, 0 for none ever drawn, or None
  drawn,     \* tokens and salts drawn so far
  acked,     \* observer: the password last acknowledged and its salt
  torn,      \* observer: a password write was cut between salt and hash
  raced,     \* observer: since power-on two requests overlapped on one NVS key
  unread,    \* observer: this power-on could not read the password, none is set since
  excused,   \* observer: sockets signed in across a rotation or a turn of the switch
  faults, crashes

vars == <<ram, flash, power, pc, req, window, sessions, drawn, acked, torn, raced,
          unread, excused, faults, crashes>>
observers == <<acked, torn, raced, unread, excused>>

Tasks == {Httpd, Relay}
Salt  == 1..MaxSalts
Tok   == 1..MaxTokens
Shown == 0..MaxTokens   \* what a sign-in may show: a token, or 0 for anything else
Hash  == [pw : Passwords, salt : Salt]

NoReq == [op |-> None, pw |-> None, salt |-> None, token |-> None, on |-> None,
          flag |-> None, fd |-> None]

RamAtReset == [token |-> None, enabled |-> FALSE, pwSet |-> FALSE, salt |-> None,
               hash |-> None, storageError |-> FALSE, flag |-> FALSE]

MayFail(call) == call \in Faults /\ faults < MaxFaults

\* Task t begins a request.
Begin(t, r, step) ==
  /\ req' = [req EXCEPT ![t] = r]
  /\ pc' = [pc EXCEPT ![t] = step]

\* The handler of t goes on with this step.
Goto(t, step) == pc' = [pc EXCEPT ![t] = step] /\ UNCHANGED req

\* The handler of t is over, whatever it answered.
Finish(t) == pc' = [pc EXCEPT ![t] = "idle"] /\ req' = [req EXCEPT ![t] = NoReq]

Ready(t) == power = "on" /\ pc[t] = "idle"

\* Two operations that write the same thing.
Clash(a, b) ==
  \/ {a, b} \subseteq {"rotate", "password"}
  \/ a = "settings" /\ b = "settings"

Overlaps(t, op) == raced \/ \E u \in Tasks \ {t} : Clash(op, req[u].op)

(***************************************************************************)
(* sys_state_init and auth_init, before any task serves requests           *)
(***************************************************************************)

\* The flag is off by default, also when sys_cfg cannot be opened or read.
StoredFlag == IF flash.flag = None THEN FALSE ELSE flash.flag

SysInit ==
  /\ power = "off"
  /\ \/ ram' = [ram EXCEPT !.flag = StoredFlag] /\ UNCHANGED faults
     \/ /\ MayFail("open") \/ MayFail("get_u8")
        /\ faults' = faults + 1 /\ UNCHANGED ram
  /\ power' = "sys"
  /\ UNCHANGED <<flash, pc, req, window, sessions, drawn, observers, crashes>>

\* zhac_auth cannot be opened: sign-in is forced on with a token in RAM only.
BootWithoutStorage ==
  /\ power = "sys" /\ MayFail("open")
  /\ drawn.token < MaxTokens
  /\ faults' = faults + 1
  /\ ram' = [ram EXCEPT !.token = drawn.token + 1, !.enabled = TRUE, !.pwSet = FALSE,
                        !.storageError = TRUE]
  /\ drawn' = [drawn EXCEPT !.token = @ + 1]
  /\ power' = "on"
  /\ UNCHANGED <<flash, pc, req, window, sessions, observers, crashes>>

\* A missing switch counts as on; "a stored choice always wins".
StoredSwitch == IF flash.enabled = None THEN TRUE ELSE flash.enabled

\* A password is set when both halves of it are stored.
StoredPassword == flash.salt # None /\ flash.hash # None

\* Any of the calls may fail, and none is reported: the switch that cannot be read
\* is on, a password that cannot be read is none, and a token that cannot be read
\* is drawn anew and stored over the old one.
Boot ==
  /\ power = "sys"
  /\ \E failed \in SUBSET (BootCalls \cap Faults) :
       LET draws == flash.token = None \/ "get_str" \in failed
           token == IF draws THEN drawn.token + 1 ELSE flash.token
           reads == StoredPassword /\ "get_blob" \notin failed
       IN  /\ draws => drawn.token < MaxTokens
           /\ "set_str" \in failed => draws
           /\ faults' = faults + Cardinality(failed) /\ faults' <= MaxFaults
           /\ ram' = [ram EXCEPT !.token = token,
                                 !.enabled = "get_u8" \in failed \/ StoredSwitch,
                                 !.pwSet = reads,
                                 !.salt = IF reads THEN flash.salt ELSE None,
                                 !.hash = IF reads THEN flash.hash ELSE None]
           /\ drawn' = [drawn EXCEPT !.token = IF draws THEN token ELSE @]
           /\ flash' = [flash EXCEPT !.token = IF "set_str" \in failed THEN @ ELSE token]
           /\ unread' = (StoredPassword /\ ~reads)
  /\ power' = "on"
  /\ UNCHANGED <<pc, req, window, sessions, acked, torn, raced, excused, crashes>>

(***************************************************************************)
(* The requests                                                            *)
(***************************************************************************)

\* POST /api/auth/setup: only while no password exists and the window is open.
AskSetup(pw) ==
  /\ Ready(Httpd)
  /\ ~ram.storageError /\ ~ram.pwSet /\ window
  /\ drawn.salt < MaxSalts
  /\ Begin(Httpd, [NoReq EXCEPT !.op = "setup", !.pw = pw, !.salt = drawn.salt + 1],
           "set_salt")
  /\ drawn' = [drawn EXCEPT !.salt = @ + 1]
  /\ UNCHANGED <<ram, flash, power, window, sessions, observers, faults, crashes>>

\* POST /api/auth/password, past the token gate: with a password set, the
\* current one has to hash to what is stored.
AskPassword(current, pw) ==
  /\ Ready(Httpd)
  /\ ram.pwSet => ram.hash = [pw |-> current, salt |-> ram.salt]
  /\ drawn.salt < MaxSalts
  /\ Begin(Httpd, [NoReq EXCEPT !.op = "password", !.pw = pw, !.salt = drawn.salt + 1],
           "set_salt")
  /\ drawn' = [drawn EXCEPT !.salt = @ + 1]
  /\ raced' = Overlaps(Httpd, "password")
  /\ UNCHANGED <<ram, flash, power, window, sessions, acked, torn, unread, excused, faults, crashes>>

\* token.rotate, by a page or the cloud, and POST /api/token/rotate: a token is
\* drawn.
AskRotate(t) ==
  /\ Ready(t) /\ drawn.token < MaxTokens
  /\ Begin(t, [NoReq EXCEPT !.op = "rotate", !.token = drawn.token + 1], "set_token")
  /\ drawn' = [drawn EXCEPT !.token = @ + 1]
  /\ raced' = Overlaps(t, "rotate")
  /\ UNCHANGED <<ram, flash, power, window, sessions, acked, torn, unread, excused, faults, crashes>>

\* system_apply_settings, past the settings that external components take (a bad
\* time server ends it there, before anything below): the flag and the switch
\* that the request names, None where it does not.  Each goes to RAM first, then to
\* flash.
AskSettings(t, flag, on) ==
  /\ Ready(t)
  /\ Begin(t, [NoReq EXCEPT !.op = "settings", !.flag = flag, !.on = on],
           IF flag # None THEN "flag_flash" ELSE "switch_flash")
  /\ ram' = IF flag # None THEN [ram EXCEPT !.flag = flag] ELSE [ram EXCEPT !.enabled = on]
  /\ raced' = Overlaps(t, "settings")
  /\ UNCHANGED <<flash, power, window, sessions, drawn, acked, torn, unread, excused, faults, crashes>>

\* The "auth" message of a socket that is not signed in, whatever it shows:
\* dispatch_envelope finds sign-in on.
AskAuth(fd, token) ==
  /\ Ready(Httpd)
  /\ ram.enabled /\ sessions[fd] = None /\ token <= drawn.token
  /\ Begin(Httpd, [NoReq EXCEPT !.op = "auth", !.fd = fd, !.token = token], "check_token")
  /\ UNCHANGED <<ram, flash, power, window, sessions, drawn, observers, faults, crashes>>

\* auth_check_token asks for the switch again, and takes anything when it is off.
TokenPasses == ram.enabled => req[Httpd].token = ram.token

CheckToken ==
  /\ pc[Httpd] = "check_token"
  /\ IF TokenPasses THEN Goto(Httpd, "set_authed") ELSE Finish(Httpd)
  /\ excused' = IF ram.enabled THEN excused ELSE excused \cup {req[Httpd].fd}
  /\ UNCHANGED <<ram, flash, power, window, sessions, drawn, acked, torn, raced, unread,
                 faults, crashes>>

\* ws_server_fd_set_authed, after it.
SetAuthed ==
  /\ pc[Httpd] = "set_authed"
  /\ sessions' = [sessions EXCEPT ![req[Httpd].fd] = req[Httpd].token]
  /\ Finish(Httpd)
  /\ UNCHANGED <<ram, flash, power, window, drawn, observers, faults, crashes>>

Disconnect(fd) ==
  /\ sessions[fd] # None
  /\ sessions' = [sessions EXCEPT ![fd] = None]
  /\ excused' = excused \ {fd}
  /\ UNCHANGED <<ram, flash, power, pc, req, window, drawn, acked, torn, raced, unread,
                 faults, crashes>>

(***************************************************************************)
(* password_store                                                          *)
(***************************************************************************)

\* An NVS call at this step fails, and so does the handler.
StepFails(t, step, calls) ==
  /\ pc[t] = step
  /\ \E call \in calls : MayFail(call)
  /\ faults' = faults + 1
  /\ Finish(t)

SaltFails ==
  /\ StepFails(Httpd, "set_salt", {"open", "set_blob"})
  /\ UNCHANGED <<ram, flash, power, window, sessions, drawn, observers, crashes>>

SetSalt ==
  /\ pc[Httpd] = "set_salt"
  /\ flash' = [flash EXCEPT !.salt = req[Httpd].salt]
  /\ Goto(Httpd, "set_hash")
  /\ UNCHANGED <<ram, power, window, sessions, drawn, observers, faults, crashes>>

HashFails ==
  /\ StepFails(Httpd, "set_hash", {"set_blob"})
  /\ torn' = TRUE
  /\ UNCHANGED <<ram, flash, power, window, sessions, drawn, acked, raced, unread, excused, crashes>>

\* Mutant: the hash is derived with the salt that is being replaced, if any.
HashOfOldSalt ==
  [pw |-> req[Httpd].pw, salt |-> IF ram.salt = None THEN req[Httpd].salt ELSE ram.salt]

\* Mutant: the hash is derived with whatever salt RAM holds.
HashOfRamSalt == [pw |-> req[Httpd].pw, salt |-> ram.salt]

\* kdf: the hash of the new password under the new salt.
NewHash == [pw |-> req[Httpd].pw, salt |-> req[Httpd].salt]

\* The pair in flash is whole again.
SetHash ==
  /\ pc[Httpd] = "set_hash"
  /\ flash' = [flash EXCEPT !.hash = NewHash]
  /\ torn' = FALSE
  /\ Goto(Httpd, "commit_pw")
  /\ UNCHANGED <<ram, power, window, sessions, drawn, acked, raced, unread, excused, faults, crashes>>

\* The commit reports an error: RAM keeps the old password, flash has the new.
PwCommitFails ==
  /\ StepFails(Httpd, "commit_pw", {"commit"})
  /\ UNCHANGED <<ram, flash, power, window, sessions, drawn, observers, crashes>>

\* A setup is answered now, a change goes on to rotate the token.
PwCommit ==
  /\ pc[Httpd] = "commit_pw"
  /\ ram' = [ram EXCEPT !.salt = req[Httpd].salt, !.hash = NewHash, !.pwSet = TRUE]
  /\ IF req[Httpd].op = "setup"
     THEN Finish(Httpd) /\ acked' = NewHash
     ELSE Goto(Httpd, "draw_token") /\ UNCHANGED acked
  /\ unread' = FALSE
  /\ UNCHANGED <<flash, power, window, sessions, drawn, torn, raced, excused, faults, crashes>>

(***************************************************************************)
(* auth_rotate_token                                                       *)
(***************************************************************************)

\* After a password change.
DrawToken ==
  /\ pc[Httpd] = "draw_token" /\ drawn.token < MaxTokens
  /\ req' = [req EXCEPT ![Httpd].token = drawn.token + 1]
  /\ drawn' = [drawn EXCEPT !.token = @ + 1]
  /\ pc' = [pc EXCEPT ![Httpd] = "set_token"]
  /\ UNCHANGED <<ram, flash, power, window, sessions, observers, faults, crashes>>

TokenFails(t) ==
  /\ StepFails(t, "set_token", {"open", "set_str"})
  /\ UNCHANGED <<ram, flash, power, window, sessions, drawn, observers, crashes>>

SetToken(t) ==
  /\ pc[t] = "set_token"
  /\ flash' = [flash EXCEPT !.token = req[t].token]
  /\ Goto(t, "commit_token")
  /\ UNCHANGED <<ram, power, window, sessions, drawn, observers, faults, crashes>>

TokenCommitFails(t) ==
  /\ StepFails(t, "commit_token", {"commit"})
  /\ UNCHANGED <<ram, flash, power, window, sessions, drawn, observers, crashes>>

\* Mutant: the token that is answered is not the one that is kept.
KeepsToken(t) == ram.token

TakesToken(t) == req[t].token

TokenCommit(t) ==
  /\ pc[t] = "commit_token"
  /\ ram' = [ram EXCEPT !.token = TakesToken(t)]
  /\ Goto(t, "deauth")
  /\ UNCHANGED <<flash, power, window, sessions, drawn, observers, faults, crashes>>

\* Mutant: the sockets stay signed in.
KeepSessions == sessions

\* ws_server_fd_deauth_all, with sign-in on: a socket past the comparison is marked
\* after it all the same.
DeauthSessions == IF ram.enabled THEN [fd \in Sockets |-> None] ELSE sessions

\* Sockets past the comparison, not yet marked.
HalfDone == IF pc[Httpd] = "set_authed" THEN {req[Httpd].fd} ELSE {}

Deauth(t) ==
  /\ pc[t] = "deauth"
  /\ sessions' = DeauthSessions
  /\ excused' = IF ram.enabled THEN HalfDone
                ELSE HalfDone \cup {fd \in Sockets : sessions[fd] # None}
  /\ acked' = IF req[t].op = "password" THEN [pw |-> req[t].pw, salt |-> req[t].salt]
              ELSE acked
  /\ Finish(t)
  /\ UNCHANGED <<ram, flash, power, window, drawn, torn, raced, unread, faults, crashes>>

(***************************************************************************)
(* The settings: RAM first, then flash, whose failure is not reported      *)
(***************************************************************************)

\* Past the flag: the switch, if the request names it.
AfterFlag(t) == IF req[t].on # None THEN Goto(t, "switch_ram") ELSE Finish(t)

\* nvs_set_u8_commit.
StoreFlag(t) ==
  /\ pc[t] = "flag_flash"
  /\ \/ flash' = [flash EXCEPT !.flag = req[t].flag] /\ UNCHANGED faults
     \/ /\ MayFail("open") \/ MayFail("set_u8")
        /\ faults' = faults + 1 /\ UNCHANGED flash
  /\ AfterFlag(t)
  /\ UNCHANGED <<ram, power, window, sessions, drawn, observers, crashes>>

\* auth_set_enabled, after the flag.
SetSwitch(t) ==
  /\ pc[t] = "switch_ram"
  /\ ram' = [ram EXCEPT !.enabled = req[t].on]
  /\ Goto(t, "switch_flash")
  /\ UNCHANGED <<flash, power, window, sessions, drawn, observers, faults, crashes>>

StoreSwitch(t) ==
  /\ pc[t] = "switch_flash"
  /\ \/ flash' = [flash EXCEPT !.enabled = req[t].on] /\ UNCHANGED faults
     \/ /\ MayFail("open") \/ MayFail("set_u8")
        /\ faults' = faults + 1 /\ UNCHANGED flash
  /\ Finish(t)
  /\ UNCHANGED <<ram, power, window, sessions, drawn, observers, crashes>>

(***************************************************************************)
(* The setup window, a reset                                               *)
(***************************************************************************)

\* It matters only while there is no password.
CloseWindow ==
  /\ power = "on" /\ window /\ ~ram.pwSet
  /\ window' = FALSE
  /\ UNCHANGED <<ram, flash, power, pc, req, sessions, drawn, observers, faults, crashes>>

\* Power is cycled: RAM and sockets are gone, the setup window opens again.
Crash ==
  /\ power # "off" /\ crashes < MaxCrashes
  /\ crashes' = crashes + 1
  /\ power' = "off" /\ pc' = [t \in Tasks |-> "idle"] /\ req' = [t \in Tasks |-> NoReq]
  /\ ram' = RamAtReset
  /\ sessions' = [fd \in Sockets |-> None]
  /\ window' = TRUE
  /\ torn' = (torn \/ pc[Httpd] = "set_hash")
  /\ raced' = FALSE /\ unread' = FALSE /\ excused' = {}
  /\ UNCHANGED <<flash, drawn, acked, faults>>

Init ==
  /\ ram = RamAtReset
  /\ flash = [token |-> None, enabled |-> None, salt |-> None, hash |-> None, flag |-> None]
  /\ power = "off"
  /\ pc = [t \in Tasks |-> "idle"] /\ req = [t \in Tasks |-> NoReq]
  /\ window = TRUE
  /\ sessions = [fd \in Sockets |-> None]
  /\ drawn = [token |-> 0, salt |-> 0]
  /\ acked = [pw |-> None, salt |-> None]
  /\ torn = FALSE /\ raced = FALSE /\ unread = FALSE /\ excused = {}
  /\ faults = 0 /\ crashes = 0

Settings == (FlagValues \cup {None}) \X (BOOLEAN \cup {None})

Request ==
  \/ \E pw \in Passwords : AskSetup(pw) \/ \E current \in Passwords : AskPassword(current, pw)
  \/ \E t \in Tasks : AskRotate(t)
  \/ \E t \in Tasks, s \in Settings \ {<<None, None>>} : AskSettings(t, s[1], s[2])
  \/ \E fd \in Sockets : Disconnect(fd) \/ \E token \in Shown : AskAuth(fd, token)

Handler ==
  \/ SaltFails \/ SetSalt \/ HashFails \/ SetHash \/ PwCommitFails \/ PwCommit
  \/ DrawToken \/ CheckToken \/ SetAuthed
  \/ \E t \in Tasks :
       \/ TokenFails(t) \/ SetToken(t) \/ TokenCommitFails(t)
       \/ TokenCommit(t) \/ Deauth(t)
       \/ StoreFlag(t) \/ SetSwitch(t) \/ StoreSwitch(t)

Next == SysInit \/ BootWithoutStorage \/ Boot \/ Request \/ Handler \/ CloseWindow \/ Crash

Spec == Init /\ [][Next]_vars

(***************************************************************************)
(* Properties                                                              *)
(***************************************************************************)

Requests ==
  [op : {"setup", "password", "rotate", "settings", "auth", None},
   pw : Passwords \cup {None}, salt : Salt \cup {None}, token : Shown \cup {None},
   on : BOOLEAN \cup {None}, flag : BOOLEAN \cup {None}, fd : Sockets \cup {None}]

\* Every variable is of its type: what RAM and flash hold of a password is a
\* pair of a password and a salt that were drawn.
TypeOK ==
  /\ ram \in [token : Tok \cup {None}, enabled : BOOLEAN, pwSet : BOOLEAN,
              salt : Salt \cup {None}, hash : Hash \cup {None}, storageError : BOOLEAN,
              flag : BOOLEAN]
  /\ flash \in [token : Tok \cup {None}, enabled : BOOLEAN \cup {None},
                salt : Salt \cup {None}, hash : Hash \cup {None},
                flag : BOOLEAN \cup {None}]
  /\ power \in {"off", "sys", "on"}
  /\ pc \in [Tasks -> {"idle", "set_salt", "set_hash", "commit_pw", "draw_token",
                       "set_token", "commit_token", "deauth", "check_token", "set_authed",
                       "flag_flash", "switch_ram", "switch_flash"}]
  /\ req \in [Tasks -> Requests]
  /\ acked \in [pw : Passwords \cup {None}, salt : Salt \cup {None}]
  /\ window \in BOOLEAN
  /\ sessions \in [Sockets -> Shown \cup {None}]
  /\ drawn \in [token : 0..MaxTokens, salt : 0..MaxSalts]
  /\ torn \in BOOLEAN /\ raced \in BOOLEAN /\ unread \in BOOLEAN
  /\ excused \subseteq Sockets
  /\ faults \in 0..MaxFaults /\ crashes \in 0..MaxCrashes

\* Between requests, with no NVS error so far and none of both tasks' requests
\* having overlapped on the same key, RAM and flash hold the same token, switch,
\* flag and password: a reset changes nothing that was answered.
RamMatchesFlash ==
  power = "on" /\ (\A t \in Tasks : pc[t] = "idle") /\ faults = 0 /\ ~raced =>
    /\ ram.token = flash.token
    /\ ram.enabled = StoredSwitch /\ ram.flag = StoredFlag
    /\ ram.pwSet = StoredPassword
    /\ ram.pwSet => ram.salt = flash.salt /\ ram.hash = flash.hash

\* A whole pair, of the password that was last acknowledged or one chosen after it.
KeepsAcked(store) ==
  /\ store.hash # None /\ store.hash.salt = store.salt
  /\ store.hash.salt >= acked.salt
  /\ store.hash.salt = acked.salt => store.hash.pw = acked.pw

\* With no cut write, the password that was last acknowledged, or one chosen
\* after it, is in flash, its hash beside the salt it is checked with, after any
\* number of resets and failed NVS calls; and it is the one in force, but in a
\* power-on that could not open the storage or could not read the password, when
\* none is: an old password never comes back and nobody is locked out
\* (password_store, auth.cpp:138-157; auth_init, auth.cpp:307-308).
AckedPasswordKept ==
  power = "on" /\ pc[Httpd] = "idle" /\ ~torn /\ acked.pw # None =>
    /\ KeepsAcked(flash)
    /\ ram.pwSet \/ ram.storageError \/ unread
    /\ ram.pwSet => KeepsAcked(ram)

\* Once a rotation is over, every signed-in socket showed the current token,
\* "sessions on the old token must re-auth" (auth.cpp:359), but for the sockets that
\* a rotation found signed in with sign-in off or found past the comparison, and
\* those compared when the switch had just been turned off.
SessionsCurrent ==
  (\A t \in Tasks : pc[t] # "deauth") =>
    \A fd \in Sockets \ excused : sessions[fd] \in {None, ram.token}
==============================================================================
