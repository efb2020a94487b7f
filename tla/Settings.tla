------------------------------ MODULE Settings ------------------------------
(* What the web page can change and a restart must keep: the configuration *)
(* of the Telegram bot (httpapi/settings.go, telegram/controller.go) and   *)
(* the password (auth/auth.go).  Both live twice, in the settings table    *)
(* and in memory.  Every request is a goroutine of its own; the statements *)
(* on the table are atomic, the bot is replaced under the mutex of the     *)
(* controller, and the password in memory has a lock of its own, which is  *)
(* free while the password is checked, hashed and saved.                   *)
EXTENDS Naturals

CONSTANTS
    Requests,     \* goroutines that serve PUT /settings/telegram
    Testers,      \* goroutines that serve POST /settings/telegram/test
    Changers,     \* goroutines that serve POST /auth/password
    Tokens,       \* bot tokens
    Chats,        \* chat ids
    Passwords,    \* passwords, each for the hashes made of it
    FileConfig,   \* the telegram section of config.yaml
    FilePassword, \* auth.password_bcrypt of config.yaml
    NoToken, NoRow, NoBot, NoPassword, Keep, Nobody,
    MaxPuts, MaxChanges, MaxRestarts, MaxFaults \* bounds, of all of them

Config == [token : Tokens \cup {NoToken}, chat : Chats]
Body   == [token : Tokens \cup {NoToken, Keep}, chat : Chats \cup {Keep}]

ASSUME SettingsAssumption ==
    /\ NoToken \notin Tokens /\ Keep \notin Tokens \cup Chats \cup {NoToken}
    /\ NoPassword \notin Passwords
    /\ NoRow \notin Config /\ NoBot \notin Config
    /\ Nobody \notin Requests
    /\ FileConfig \in Config
    /\ FilePassword \in Passwords \cup {NoPassword}
    /\ MaxPuts \in Nat /\ MaxChanges \in Nat /\ MaxRestarts \in Nat /\ MaxFaults \in Nat

VARIABLES
    row,             \* settings(telegram)
    current, mutex,  \* of the controller: the configuration of its bot, the lock
    put, test,       \* the requests
    mem, saved,      \* the password in memory, settings(auth.password_bcrypt)
    change,          \* the changes of the password
    puts, changes, restarts, faults,
    was,             \* the configurations the table or the file ever held
    wanted,          \* the last value saved for each field, by a request that set it
    met,             \* two PUTs overlapped, or one did not read the table
    crossed,         \* two changes of the password overlapped since the start
    unstarted,       \* the last start of a bot failed
    unread,          \* the daemon started without reading settings(telegram),
                     \* and no PUT has loaded another bot since
    unhashed,        \* the same of settings(auth.password_bcrypt)
    accepted         \* a change of the password succeeded

telegram == <<row, current, mutex, put, test, puts, was, wanted, met, unstarted, unread>>
password == <<mem, saved, change, changes, crossed, unhashed, accepted>>
vars     == <<telegram, password, restarts, faults>>

Idle == [at |-> "idle"]

\* loadTelegram, when GetSetting succeeds.
Loaded == IF row # NoRow THEN row ELSE FileConfig

\* loadTelegramConfig: an error of GetSetting is taken for an empty table.
StartConfig(fails) == IF fails THEN FileConfig ELSE Loaded

\* Mutant: a field that is not there is set to what the file has.
MergedIntoFile(base, body) ==
    [token |-> IF body.token = Keep THEN base.token ELSE body.token,
     chat  |-> IF body.chat = Keep THEN FileConfig.chat ELSE body.chat]

\* The fields of the body that are there, over what was loaded.
Merged(base, body) ==
    [token |-> IF body.token = Keep THEN base.token ELSE body.token,
     chat  |-> IF body.chat = Keep THEN base.chat ELSE body.chat]

\* startLocked: without a token there is no bot.
BotOf(cfg) == IF cfg.token = NoToken THEN NoBot ELSE cfg

\* loadPasswordBcrypt, the same.
StartPassword(fails) == IF ~fails /\ saved # NoPassword THEN saved ELSE FilePassword

\* CheckCredentials, and the first half of ChangePassword: in development
\* mode, without a hash, every password will do.
Accepts(pw) == mem = NoPassword \/ mem = pw

Init ==
    /\ row = NoRow
    /\ current \in {BotOf(FileConfig), NoBot}
    /\ unstarted = (current # BotOf(FileConfig))
    /\ mutex = Nobody
    /\ put = [p \in Requests |-> Idle]
    /\ test = [t \in Testers |-> Idle]
    /\ mem = FilePassword /\ saved = NoPassword
    /\ change = [c \in Changers |-> Idle]
    /\ puts = 0 /\ changes = 0 /\ restarts = 0 /\ faults = 0
    /\ was = {FileConfig} /\ wanted = FileConfig
    /\ met = FALSE /\ crossed = FALSE /\ accepted = FALSE
    /\ unread = FALSE /\ unhashed = FALSE

-----------------------------------------------------------------------------
(* PUT /settings/telegram.                                                  *)

Beside(p) == \E q \in Requests \ {p} : put[q] # Idle

\* The body is merged into what the table holds.
PutLoads(p) ==
    /\ put[p] = Idle
    /\ puts < MaxPuts
    /\ puts' = puts + 1
    /\ \E body \in Body :
          put' = [put EXCEPT ![p] = [at |-> "save", body |-> body, cur |-> Merged(Loaded, body)]]
    /\ met' = (met \/ Beside(p))
    /\ UNCHANGED <<row, current, mutex, test, was, wanted, unstarted, unread,
                   password, restarts, faults>>

\* GetSetting fails: the body is merged into config.yaml instead.
PutLoadFails(p) ==
    /\ put[p] = Idle
    /\ puts < MaxPuts /\ faults < MaxFaults
    /\ puts' = puts + 1 /\ faults' = faults + 1
    /\ \E body \in Body :
          put' = [put EXCEPT ![p] = [at |-> "save", body |-> body, cur |-> Merged(FileConfig, body)]]
    /\ met' = TRUE
    /\ UNCHANGED <<row, current, mutex, test, was, wanted, unstarted, unread,
                   password, restarts>>

PutSaves(p) ==
    /\ put[p].at = "save"
    /\ row' = put[p].cur
    /\ put' = [put EXCEPT ![p].at = "reload"]
    /\ was' = was \cup {put[p].cur}
    /\ wanted' = [f \in {"token", "chat"} |->
                    IF put[p].body[f] = Keep THEN wanted[f] ELSE put[p].body[f]]
    /\ UNCHANGED <<current, mutex, test, puts, met, unstarted, unread,
                   password, restarts, faults>>

\* PutSetting fails: 500, nothing else happens.
PutSaveFails(p) ==
    /\ put[p].at = "save"
    /\ faults < MaxFaults
    /\ faults' = faults + 1
    /\ put' = [put EXCEPT ![p] = Idle]
    /\ UNCHANGED <<row, current, mutex, test, puts, was, wanted, met, unstarted, unread,
                   password, restarts>>

\* Mutant: a bot with the same token goes on.
ReloadStopsOthers(p) ==
    /\ put[p].at = "reload"
    /\ mutex = Nobody
    /\ IF current # NoBot /\ current.token = put[p].cur.token
       THEN put' = [put EXCEPT ![p] = Idle] /\ UNCHANGED <<mutex, current>>
       ELSE put' = [put EXCEPT ![p].at = "start"] /\ mutex' = p /\ current' = NoBot
    /\ UNCHANGED <<row, test, puts, was, wanted, met, unstarted, unread,
                   password, restarts, faults>>

\* Controller.Reload takes the mutex and stops the old bot ...
ReloadStops(p) ==
    /\ put[p].at = "reload"
    /\ mutex = Nobody
    /\ mutex' = p
    /\ current' = NoBot
    /\ put' = [put EXCEPT ![p].at = "start"]
    /\ UNCHANGED <<row, test, puts, was, wanted, met, unstarted, unread,
                   password, restarts, faults>>

\* ... and starts the new one, if there is a token.
ReloadStarts(p) ==
    /\ put[p].at = "start"
    /\ current' = BotOf(put[p].cur)
    /\ mutex' = Nobody
    /\ put' = [put EXCEPT ![p] = Idle]
    /\ unstarted' = FALSE /\ unread' = FALSE
    /\ UNCHANGED <<row, test, puts, was, wanted, met,
                   password, restarts, faults>>

\* newBot fails, Telegram refuses the token or does not answer: the request
\* succeeds, and there is no bot.
ReloadFails(p) ==
    /\ put[p].at = "start"
    /\ put[p].cur.token # NoToken
    /\ mutex' = Nobody
    /\ put' = [put EXCEPT ![p] = Idle]
    /\ unstarted' = TRUE /\ unread' = FALSE
    /\ UNCHANGED <<row, current, test, puts, was, wanted, met,
                   password, restarts, faults>>

-----------------------------------------------------------------------------
(* POST /settings/telegram/test: TestPush takes the bot under the mutex and *)
(* sends without it; only a refusal leaves a trace here.                    *)

\* 412, not configured.
TestRefused(t) ==
    /\ test[t] = Idle
    /\ mutex = Nobody
    /\ current = NoBot
    /\ test' = [test EXCEPT ![t].at = "refused"]
    /\ UNCHANGED <<row, current, mutex, put, puts, was, wanted, met, unstarted, unread,
                   password, restarts, faults>>

TestAnswered(t) ==
    /\ test[t].at = "refused"
    /\ test' = [test EXCEPT ![t] = Idle]
    /\ UNCHANGED <<row, current, mutex, put, puts, was, wanted, met, unstarted, unread,
                   password, restarts, faults>>

-----------------------------------------------------------------------------
(* POST /auth/password.                                                     *)

Changing(c) == \E b \in Changers \ {c} : change[b] # Idle

\* The current password is right, the new one long enough.
ChangeChecks(c) ==
    /\ change[c] = Idle
    /\ changes < MaxChanges
    /\ changes' = changes + 1
    /\ \E given, new \in Passwords :
          /\ Accepts(given)
          /\ change' = [change EXCEPT ![c] = [at |-> "save", new |-> new]]
    /\ crossed' = (crossed \/ Changing(c))
    /\ UNCHANGED <<telegram, mem, saved, unhashed, accepted, restarts, faults>>

\* Mutant: nothing is saved.
ChangeSavesNothing(c) ==
    /\ change[c].at = "save"
    /\ change' = [change EXCEPT ![c].at = "write"]
    /\ UNCHANGED <<telegram, mem, saved, changes, crossed, unhashed, accepted, restarts, faults>>

ChangeSaves(c) ==
    /\ change[c].at = "save"
    /\ saved' = change[c].new
    /\ change' = [change EXCEPT ![c].at = "write"]
    /\ UNCHANGED <<telegram, mem, changes, crossed, unhashed, accepted, restarts, faults>>

\* Mutant: the error is only logged.
ChangeSaveFailsQuietly(c) ==
    /\ change[c].at = "save"
    /\ faults < MaxFaults
    /\ faults' = faults + 1
    /\ change' = [change EXCEPT ![c].at = "write"]
    /\ UNCHANGED <<telegram, mem, saved, changes, crossed, unhashed, accepted, restarts>>

ChangeSaveFails(c) ==
    /\ change[c].at = "save"
    /\ faults < MaxFaults
    /\ faults' = faults + 1
    /\ change' = [change EXCEPT ![c] = Idle]
    /\ UNCHANGED <<telegram, mem, saved, changes, crossed, unhashed, accepted, restarts>>

ChangeWrites(c) ==
    /\ change[c].at = "write"
    /\ mem' = change[c].new
    /\ change' = [change EXCEPT ![c] = Idle]
    /\ accepted' = TRUE /\ unhashed' = FALSE
    /\ UNCHANGED <<telegram, saved, changes, crossed, restarts, faults>>

-----------------------------------------------------------------------------
(* The daemon ends, at any moment, and is started again.  Each of the two   *)
(* reads of the table may fail, which nobody is told.                       *)
Restart ==
    /\ restarts < MaxRestarts
    /\ restarts' = restarts + 1
    /\ unread' \in BOOLEAN /\ unhashed' \in BOOLEAN
    /\ faults' = faults + (IF unread' THEN 1 ELSE 0) + (IF unhashed' THEN 1 ELSE 0)
    /\ faults' <= MaxFaults
    /\ mem' = StartPassword(unhashed')
    /\ current' \in {BotOf(StartConfig(unread')), NoBot}
    /\ unstarted' = (current' # BotOf(StartConfig(unread')))
    /\ mutex' = Nobody
    /\ put' = [p \in Requests |-> Idle]
    /\ test' = [t \in Testers |-> Idle]
    /\ change' = [c \in Changers |-> Idle]
    /\ crossed' = FALSE
    /\ UNCHANGED <<row, puts, was, wanted, met, saved, changes, accepted>>

PutStep(p)    == \/ PutSaves(p) \/ PutSaveFails(p)
                 \/ ReloadStops(p) \/ ReloadStarts(p) \/ ReloadFails(p)
TestStep(t)   == TestRefused(t) \/ TestAnswered(t)
ChangeStep(c) == ChangeSaves(c) \/ ChangeSaveFails(c) \/ ChangeWrites(c)

Next == \/ \E p \in Requests : PutLoads(p) \/ PutLoadFails(p) \/ PutStep(p)
        \/ \E t \in Testers : TestStep(t)
        \/ \E c \in Changers : ChangeChecks(c) \/ ChangeStep(c)
        \/ Restart

Spec == Init /\ [][Next]_vars

-----------------------------------------------------------------------------
(* Every variable has its type.                                             *)
TypeOK ==
    /\ row \in Config \cup {NoRow}
    /\ current \in Config \cup {NoBot}
    /\ mutex \in Requests \cup {Nobody}
    /\ put \in [Requests -> {Idle} \cup
                 [at : {"save", "reload", "start"}, body : Body, cur : Config]]
    /\ test \in [Testers -> [at : {"idle", "refused"}]]
    /\ mem \in Passwords \cup {NoPassword}
    /\ saved \in Passwords \cup {NoPassword}
    /\ change \in [Changers -> {Idle} \cup
                    [at : {"save", "write"}, new : Passwords]]
    /\ puts \in 0..MaxPuts /\ changes \in 0..MaxChanges
    /\ restarts \in 0..MaxRestarts /\ faults \in 0..MaxFaults
    /\ was \subseteq Config /\ wanted \in Config
    /\ met \in BOOLEAN /\ crossed \in BOOLEAN
    /\ unstarted \in BOOLEAN /\ accepted \in BOOLEAN
    /\ unread \in BOOLEAN /\ unhashed \in BOOLEAN

(* The mutex is held exactly while a bot is being replaced: no error path   *)
(* of Reload keeps it or gives it up early.                                 *)
MutexIsHeld == \A p \in Requests : mutex = p <=> put[p].at = "start"

(* The bot never runs with a configuration that was not saved: what cannot  *)
(* be saved is not loaded either, however requests and restarts interleave. *)
RunsWhatWasSaved == current \in was \cup {NoBot}

(* When no request is between the table and the bot, the bot runs with what *)
(* the table says, or with what config.yaml says since a start that could   *)
(* not read the table: the next PUT brings the two together again.  This is *)
(* of PUTs that never overlapped, and while the last start of a bot         *)
(* succeeded.                                                               *)
BotFollowsTable ==
    (~met /\ ~unstarted /\ \A p \in Requests : put[p].at \in {"idle", "save"})
    => current = BotOf(StartConfig(unread))

(* The same of requests that do overlap, as settings.go:4 has it: at        *)
(* runtime the configuration in the table takes precedence.                 *)
TableTakesPrecedence ==
    (~unstarted /\ \A p \in Requests : put[p] = Idle) => current = BotOf(Loaded)

(* A PUT changes the fields that it names and no other, even when the       *)
(* daemon restarts in between, provided that PUTs never overlapped and each *)
(* of them could read the table.                                            *)
FieldsAreKept == ~met => Loaded = wanted

(* A test is refused only when there may be no bot: its last start failed,  *)
(* or the token was cleared once; never because one is being replaced.      *)
TestRefusedRightly ==
    [][\A t \in Testers :
         (test[t].at # "refused" /\ test'[t].at = "refused")
         => unstarted \/ \E cfg \in was : cfg.token = NoToken]_vars

(* Once a password was set, the daemon takes every password again only when *)
(* it started without reading the hash and config.yaml has none, and no     *)
(* longer than until the next change: never because a change failed half    *)
(* way or crossed another, and never after a start that read the table.     *)
DevModeOnlyUnread ==
    accepted => /\ saved # NoPassword
                /\ mem = NoPassword => unhashed /\ FilePassword = NoPassword

(* What main.go:231-232 says of a change of the password: it is still in    *)
(* force after a restart.                                                   *)
ChangeOutlivesRestart == accepted => mem # NoPassword

(* The password in memory is the one the table or config.yaml had for the   *)
(* daemon when it started, or the one it was changed to since, which the    *)
(* table has as well; except between the two halves of a change, provided   *)
(* that changes never crossed.                                              *)
PasswordSurvives ==
    (~crossed /\ \A c \in Changers : change[c].at # "write")
    => mem = StartPassword(unhashed)

=============================================================================
