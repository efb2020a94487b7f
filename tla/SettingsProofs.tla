--------------------------- MODULE SettingsProofs ---------------------------
(* Every safety property of Settings, for any number of requests, tokens,  *)
(* chats and passwords.  The invariant has a part for each of them; the    *)
(* parts about the bot and about the password share no variable.           *)
EXTENDS Settings, TLAPS

(* What was saved, what is about to be loaded, and where the bot is from. *)
SavedInv ==
    /\ FileConfig \in was
    /\ row \in was \cup {NoRow}
    /\ current \in was \cup {NoBot}
    /\ \A p \in Requests : put[p].at \in {"reload", "start"} => put[p].cur \in was

(* Why there is no bot. *)
Cleared  == \E cfg \in was : cfg.token = NoToken
NoBotInv == current = NoBot => mutex # Nobody \/ unstarted \/ Cleared

(* PUTs that never overlapped and always read the table: there is at most *)
(* one, it saves the fields over those of the table, and loads the table. *)
OnePut ==
    \A p, q \in Requests : put[p] # Idle /\ put[q] # Idle => p = q
PutFollows ==
    \A p \in Requests :
        /\ put[p].at = "save" => put[p].cur = Merged(Loaded, put[p].body)
        /\ put[p].at \in {"reload", "start"} => put[p].cur = Loaded
PutInv ==
    ~met => OnePut /\ PutFollows /\ Loaded = wanted /\ BotFollowsTable

(* The same of changes of the password that never crossed. *)
OneChange ==
    \A b, c \in Changers : change[b] # Idle /\ change[c] # Idle => b = c
ChangeInv ==
    ~crossed =>
        /\ OneChange
        /\ \A c \in Changers : change[c].at = "write" => saved = change[c].new
        /\ (\A c \in Changers : change[c].at # "write") => mem = StartPassword(unhashed)

(* No step back into development mode. *)
HashInv ==
    /\ DevModeOnlyUnread
    /\ \A c \in Changers : change[c].at = "write" => saved # NoPassword

IInv == /\ TypeOK /\ MutexIsHeld /\ SavedInv /\ NoBotInv
        /\ PutInv /\ ChangeInv /\ HashInv

-----------------------------------------------------------------------------
Loads   == [at : {"save", "reload", "start"}, body : Body, cur : Config]
Writes  == [at : {"save", "write"}, new : Passwords]

(* A request that is not idle has a body and a configuration. *)
LEMMA PutIsTyped ==
    ASSUME TypeOK, NEW p \in Requests
    PROVE  /\ put[p] = Idle \/ put[p] \in Loads
           /\ put[p] = Idle <=> put[p].at = "idle"
           /\ put[p].at # "idle" => put[p] \in Loads
BY DEF TypeOK, Loads, Idle

(* A change that is not idle has a password. *)
LEMMA ChangeIsTyped ==
    ASSUME TypeOK, NEW c \in Changers
    PROVE  /\ change[c] = Idle \/ change[c] \in Writes
           /\ change[c] = Idle <=> change[c].at = "idle"
           /\ change[c].at # "idle" => change[c] \in Writes
BY DEF TypeOK, Writes, Idle

(* Merging a body into a configuration gives a configuration. *)
LEMMA MergedIsConfig ==
    ASSUME NEW base \in Config, NEW body \in Body
    PROVE  Merged(base, body) \in Config
BY DEF Merged, Config, Body

(* What would be loaded is a configuration, and one that was saved. *)
LEMMA LoadedIsConfig ==
    ASSUME TypeOK
    PROVE  /\ Loaded \in Config
           /\ SavedInv => Loaded \in was
BY SettingsAssumption DEF TypeOK, Loaded, SavedInv

(* The bot of a configuration runs with it, unless it has no token. *)
LEMMA BotOfConfig ==
    ASSUME NEW cfg \in Config
    PROVE  /\ BotOf(cfg) \in {cfg, NoBot}
           /\ BotOf(cfg) \in Config \cup {NoBot}
           /\ BotOf(cfg) = NoBot => cfg.token = NoToken
BY SettingsAssumption DEF BotOf

(* So is what a start has of it, ...                                *)
LEMMA StartConfigIsConfig ==
    ASSUME TypeOK, NEW fails \in BOOLEAN
    PROVE  /\ StartConfig(fails) \in Config
           /\ SavedInv => StartConfig(fails) \in was
BY LoadedIsConfig, SettingsAssumption DEF StartConfig, SavedInv

(* ... and what it has of the password is a password, or none. *)
LEMMA StartPasswordIsTyped ==
    ASSUME TypeOK, NEW fails \in BOOLEAN
    PROVE  StartPassword(fails) \in Passwords \cup {NoPassword}
BY SettingsAssumption DEF TypeOK, StartPassword

-----------------------------------------------------------------------------
LEMMA InitHolds == Init => IInv
<1> SUFFICES ASSUME Init PROVE IInv
  OBVIOUS
<1> USE SettingsAssumption
<1>1. FileConfig \in Config /\ Loaded = FileConfig /\ StartConfig(unread) = FileConfig
      /\ StartPassword(unhashed) = FilePassword
  BY DEF Init, Loaded, StartConfig, StartPassword
<1>2. TypeOK
  <2>1. BotOf(FileConfig) \in Config \cup {NoBot}
    BY <1>1, BotOfConfig
  <2>2. current \in Config \cup {NoBot} /\ unstarted \in BOOLEAN
    BY <2>1 DEF Init
  <2>3. Idle \in [at : {"idle", "refused"}]
    BY DEF Idle
  <2>4. test \in [Testers -> [at : {"idle", "refused"}]]
    BY <2>3 DEF Init
  <2>5. /\ put \in [Requests -> {Idle} \cup
                     [at : {"save", "reload", "start"}, body : Body, cur : Config]]
        /\ change \in [Changers -> {Idle} \cup [at : {"save", "write"}, new : Passwords]]
    BY DEF Init
  <2>6. puts \in 0..MaxPuts /\ changes \in 0..MaxChanges
        /\ restarts \in 0..MaxRestarts /\ faults \in 0..MaxFaults
    BY DEF Init
  <2> QED
    BY <1>1, <2>2, <2>4, <2>5, <2>6 DEF Init, TypeOK
<1>3. /\ \A p \in Requests : put[p] = Idle /\ put[p].at = "idle"
      /\ \A c \in Changers : change[c] = Idle /\ change[c].at = "idle"
  BY DEF Init, Idle
<1>4. MutexIsHeld
  BY <1>3 DEF Init, MutexIsHeld
<1>5. SavedInv
  BY <1>1, <1>3, BotOfConfig DEF Init, SavedInv
<1>6. NoBotInv
  BY <1>1, BotOfConfig DEF Init, NoBotInv, Cleared
<1>7. PutInv
  BY <1>1, <1>3 DEF Init, PutInv, OnePut, PutFollows, BotFollowsTable
<1>8. ChangeInv
  BY <1>1, <1>3 DEF Init, ChangeInv, OneChange
<1>9. HashInv
  BY <1>3 DEF Init, HashInv, DevModeOnlyUnread
<1> QED
  BY <1>2, <1>4, <1>5, <1>6, <1>7, <1>8, <1>9 DEF IInv

-----------------------------------------------------------------------------
(* The two halves do not disturb each other.                                *)
LEMMA TelegramKeeps ==
    ASSUME IInv, UNCHANGED <<row, current, mutex, put, was, wanted, met, unstarted, unread>>
    PROVE  MutexIsHeld' /\ SavedInv' /\ NoBotInv' /\ PutInv'
BY DEF IInv, MutexIsHeld, SavedInv, NoBotInv, Cleared, PutInv, OnePut, PutFollows,
       BotFollowsTable, Loaded, StartConfig

LEMMA PasswordKeeps ==
    ASSUME IInv, UNCHANGED password
    PROVE  ChangeInv' /\ HashInv'
BY DEF IInv, password, ChangeInv, OneChange, HashInv, DevModeOnlyUnread, StartPassword

(* PutLoads and PutLoadFails: a request begins, with a configuration that   *)
(* follows the table unless met says otherwise.                             *)
LEMMA PutBeginsKeeps ==
    ASSUME IInv, NEW p \in Requests, NEW body \in Body, NEW cur \in Config,
           put[p] = Idle,
           put' = [put EXCEPT ![p] = [at |-> "save", body |-> body, cur |-> cur]],
           met' \in BOOLEAN,
           ~met' => ~met /\ ~Beside(p) /\ cur = Merged(Loaded, body),
           UNCHANGED <<row, current, mutex, was, wanted, unstarted, unread>>
    PROVE  /\ put' \in [Requests -> {Idle} \cup Loads]
           /\ MutexIsHeld' /\ SavedInv' /\ NoBotInv' /\ PutInv'
<1> DEFINE rec == [at |-> "save", body |-> body, cur |-> cur]
<1>1. rec \in Loads /\ rec.at = "save" /\ rec.body = body /\ rec.cur = cur
  BY DEF Loads
<1>2. put \in [Requests -> {Idle} \cup Loads]
  BY DEF IInv, TypeOK, Loads
<1>3. /\ put' \in [Requests -> {Idle} \cup Loads]
      /\ put'[p] = rec
      /\ \A q \in Requests \ {p} : put'[q] = put[q]
  BY <1>1, <1>2
<1>4. put[p].at = "idle" /\ Loaded' = Loaded
  BY DEF Idle, Loaded
<1> HIDE DEF rec
<1>5. MutexIsHeld'
  BY <1>1, <1>3, <1>4 DEF IInv, MutexIsHeld
<1>6. SavedInv'
  BY <1>1, <1>3 DEF IInv, SavedInv
<1>7. NoBotInv'
  BY DEF IInv, NoBotInv, Cleared
<1>8. PutInv'
  <2> SUFFICES ASSUME ~met' PROVE OnePut' /\ PutFollows' /\ (Loaded = wanted)' /\ BotFollowsTable'
    BY DEF PutInv
  <2>1. ~met /\ OnePut /\ PutFollows /\ Loaded = wanted /\ BotFollowsTable
    BY DEF IInv, PutInv
  <2>2. \A q \in Requests \ {p} : put'[q] = Idle
    BY <1>3 DEF Beside
  <2>3. OnePut'
    BY <2>2 DEF OnePut
  <2>4. PutFollows'
    BY <1>1, <1>3, <1>4, <2>2 DEF PutFollows, Idle, Merged
  <2>5. (Loaded = wanted)'
    BY <1>4, <2>1
  <2>6. BotFollowsTable'
    BY <1>1, <1>3, <1>4, <2>1 DEF BotFollowsTable, StartConfig
  <2> QED
    BY <2>3, <2>4, <2>5, <2>6
<1> QED
  BY <1>3, <1>5, <1>6, <1>7, <1>8

LEMMA PutLoadsKeeps ==
    ASSUME IInv, NEW p \in Requests, PutLoads(p)
    PROVE  IInv'
<1>1. PICK body \in Body :
         put' = [put EXCEPT ![p] = [at |-> "save", body |-> body, cur |-> Merged(Loaded, body)]]
  BY DEF PutLoads
<1>2. Merged(Loaded, body) \in Config
  BY LoadedIsConfig, MergedIsConfig DEF IInv
<1> DEFINE cur == Merged(Loaded, body)
<1>3. /\ put' \in [Requests -> {Idle} \cup Loads]
      /\ MutexIsHeld' /\ SavedInv' /\ NoBotInv' /\ PutInv'
  <2>1. cur \in Config /\ cur = Merged(Loaded, body)
    BY <1>2
  <2>2. put' = [put EXCEPT ![p] = [at |-> "save", body |-> body, cur |-> cur]]
    BY <1>1
  <2>3. /\ put[p] = Idle /\ met' \in BOOLEAN
        /\ ~met' => ~met /\ ~Beside(p)
        /\ UNCHANGED <<row, current, mutex, was, wanted, unstarted, unread>>
    BY DEF PutLoads, IInv, TypeOK
  <2> HIDE DEF cur
  <2> QED
    BY <2>1, <2>2, <2>3, PutBeginsKeeps
<1>4. TypeOK'
  BY <1>3, SettingsAssumption DEF PutLoads, password, IInv, TypeOK, Loads
<1>5. ChangeInv' /\ HashInv'
  BY PasswordKeeps DEF PutLoads
<1> QED
  BY <1>3, <1>4, <1>5 DEF IInv

LEMMA PutLoadFailsKeeps ==
    ASSUME IInv, NEW p \in Requests, PutLoadFails(p)
    PROVE  IInv'
<1>1. PICK body \in Body :
         put' = [put EXCEPT ![p] = [at |-> "save", body |-> body, cur |-> Merged(FileConfig, body)]]
  BY DEF PutLoadFails
<1> DEFINE cur == Merged(FileConfig, body)
<1>2. cur \in Config
  BY SettingsAssumption, MergedIsConfig
<1>3. /\ put' \in [Requests -> {Idle} \cup Loads]
      /\ MutexIsHeld' /\ SavedInv' /\ NoBotInv' /\ PutInv'
  <2>1. put' = [put EXCEPT ![p] = [at |-> "save", body |-> body, cur |-> cur]]
    BY <1>1
  <2>2. /\ put[p] = Idle /\ met' = TRUE
        /\ UNCHANGED <<row, current, mutex, was, wanted, unstarted, unread>>
    BY DEF PutLoadFails
  <2> HIDE DEF cur
  <2> QED
    BY <1>2, <2>1, <2>2, PutBeginsKeeps
<1>4. TypeOK'
  BY <1>3, SettingsAssumption DEF PutLoadFails, password, IInv, TypeOK, Loads
<1>5. ChangeInv' /\ HashInv'
  BY PasswordKeeps DEF PutLoadFails
<1> QED
  BY <1>3, <1>4, <1>5 DEF IInv

-----------------------------------------------------------------------------
(* A request that goes on keeps its body and its configuration.             *)
LEMMA PutGoesOn ==
    ASSUME TypeOK, NEW p \in Requests, put[p].at # "idle",
           NEW at \in {"save", "reload", "start"}, put' = [put EXCEPT ![p].at = at]
    PROVE  /\ put' \in [Requests -> {Idle} \cup Loads]
           /\ put'[p].at = at /\ put'[p].cur = put[p].cur /\ put'[p].body = put[p].body
           /\ put'[p] # Idle /\ put[p] # Idle
           /\ \A q \in Requests \ {p} : put'[q] = put[q]
<1>1. put \in [Requests -> {Idle} \cup Loads] /\ put[p] \in Loads /\ put[p] # Idle
  BY PutIsTyped DEF TypeOK, Loads
<1> DEFINE rec == [put[p] EXCEPT !.at = at]
<1>2. rec \in Loads /\ rec.at = at /\ rec.cur = put[p].cur /\ rec.body = put[p].body
  BY <1>1 DEF Loads
<1>3. rec # Idle
  BY <1>2 DEF Idle
<1>4. put' = [put EXCEPT ![p] = rec]
  OBVIOUS
<1> HIDE DEF rec
<1> QED
  BY <1>1, <1>2, <1>3, <1>4

(* A request that ends is idle.                                             *)
LEMMA PutIsDone ==
    ASSUME TypeOK, NEW p \in Requests, put' = [put EXCEPT ![p] = Idle]
    PROVE  /\ put' \in [Requests -> {Idle} \cup Loads]
           /\ put'[p] = Idle /\ put'[p].at = "idle"
           /\ \A q \in Requests \ {p} : put'[q] = put[q]
<1>1. put \in [Requests -> {Idle} \cup Loads]
  BY DEF TypeOK, Loads
<1>2. put' \in [Requests -> {Idle} \cup Loads] /\ put'[p] = Idle
      /\ \A q \in Requests \ {p} : put'[q] = put[q]
  BY <1>1
<1> QED
  BY <1>2 DEF Idle

(* The others are idle while p is not, if PUTs never overlapped.            *)
LEMMA OthersAreIdle ==
    ASSUME IInv, ~met, NEW p \in Requests, put[p] # Idle
    PROVE  \A q \in Requests \ {p} : put[q] = Idle /\ put[q].at = "idle"
<1> SUFFICES ASSUME NEW q \in Requests \ {p}
    PROVE  put[q] = Idle /\ put[q].at = "idle"
  OBVIOUS
<1>1. put[q] = Idle
  BY DEF IInv, PutInv, OnePut
<1> QED
  BY <1>1 DEF Idle

LEMMA PutSavesKeeps ==
    ASSUME IInv, NEW p \in Requests, PutSaves(p)
    PROVE  IInv'
<1>1. /\ put[p].at = "save" /\ put' = [put EXCEPT ![p].at = "reload"]
      /\ row' = put[p].cur /\ was' = was \cup {put[p].cur}
      /\ UNCHANGED <<current, mutex, test, puts, met, unstarted, unread, password, restarts, faults>>
  BY DEF PutSaves
<1>2. put[p] \in Loads /\ put[p] # Idle
  BY <1>1, PutIsTyped DEF IInv
<1>3. put[p].cur \in Config /\ put[p].body \in Body
  BY <1>2 DEF Loads
<1>4. /\ put' \in [Requests -> {Idle} \cup Loads]
      /\ put'[p].at = "reload" /\ put'[p].cur = put[p].cur /\ put'[p] # Idle
      /\ \A q \in Requests \ {p} : put'[q] = put[q]
  BY <1>1, PutGoesOn DEF IInv
<1>5. Loaded' = put[p].cur
  BY <1>1, <1>3, SettingsAssumption DEF Loaded
<1>6. wanted' = Merged(wanted, put[p].body)
  BY <1>3 DEF PutSaves, Merged, Body
<1>7. wanted' \in Config
  BY <1>3, <1>6, MergedIsConfig DEF IInv, TypeOK
<1>8. TypeOK'
  BY <1>1, <1>3, <1>4, <1>7 DEF password, IInv, TypeOK, Loads
<1>9. MutexIsHeld'
  BY <1>1, <1>4 DEF IInv, MutexIsHeld
<1>10. SavedInv'
  BY <1>1, <1>4 DEF IInv, SavedInv
<1>11. NoBotInv'
  BY <1>1 DEF IInv, NoBotInv, Cleared
<1>12. PutInv'
  <2> SUFFICES ASSUME ~met PROVE OnePut' /\ PutFollows' /\ (Loaded = wanted)' /\ BotFollowsTable'
    BY <1>1 DEF PutInv
  <2>1. \A q \in Requests \ {p} : put'[q] = Idle /\ put'[q].at = "idle"
    BY <1>2, <1>4, OthersAreIdle
  <2>2. OnePut'
    BY <2>1 DEF OnePut
  <2>3. PutFollows'
    BY <1>4, <1>5, <2>1 DEF PutFollows
  <2>4. put[p].cur = Merged(Loaded, put[p].body) /\ Loaded = wanted
    BY <1>1 DEF IInv, PutInv, PutFollows
  <2>5. (Loaded = wanted)'
    BY <1>5, <1>6, <2>4
  <2>6. BotFollowsTable'
    BY <1>4 DEF BotFollowsTable
  <2> QED
    BY <2>2, <2>3, <2>5, <2>6
<1>13. ChangeInv' /\ HashInv'
  BY <1>1, PasswordKeeps
<1> QED
  BY <1>8, <1>9, <1>10, <1>11, <1>12, <1>13 DEF IInv

LEMMA PutSaveFailsKeeps ==
    ASSUME IInv, NEW p \in Requests, PutSaveFails(p)
    PROVE  IInv'
<1>1. /\ put[p].at = "save" /\ put' = [put EXCEPT ![p] = Idle]
      /\ faults' = faults + 1 /\ faults < MaxFaults
      /\ UNCHANGED <<row, current, mutex, test, puts, was, wanted, met, unstarted, unread,
                     password, restarts>>
  BY DEF PutSaveFails
<1>2. /\ put' \in [Requests -> {Idle} \cup Loads]
      /\ put'[p] = Idle /\ put'[p].at = "idle"
      /\ \A q \in Requests \ {p} : put'[q] = put[q]
  BY <1>1, PutIsDone DEF IInv
<1>3. put[p] # Idle /\ Loaded' = Loaded
  BY <1>1 DEF Idle, Loaded
<1>4. TypeOK'
  BY <1>1, <1>2, SettingsAssumption DEF password, IInv, TypeOK, Loads
<1>5. MutexIsHeld'
  BY <1>1, <1>2 DEF IInv, MutexIsHeld
<1>6. SavedInv'
  BY <1>1, <1>2 DEF IInv, SavedInv
<1>7. NoBotInv'
  BY <1>1 DEF IInv, NoBotInv, Cleared
<1>8. PutInv'
  <2> SUFFICES ASSUME ~met PROVE OnePut' /\ PutFollows' /\ (Loaded = wanted)' /\ BotFollowsTable'
    BY <1>1 DEF PutInv
  <2>1. \A q \in Requests : put'[q] = Idle /\ put'[q].at = "idle"
    BY <1>2, <1>3, OthersAreIdle
  <2>2. OnePut' /\ PutFollows'
    BY <2>1 DEF OnePut, PutFollows
  <2>3. (Loaded = wanted)'
    BY <1>1, <1>3 DEF IInv, PutInv
  <2>4. ~unstarted => current = BotOf(StartConfig(unread))
    BY <1>1, <1>3, OthersAreIdle DEF IInv, PutInv, BotFollowsTable
  <2>5. BotFollowsTable'
    BY <1>1, <1>3, <2>4 DEF BotFollowsTable, StartConfig
  <2> QED
    BY <2>2, <2>3, <2>5
<1>9. ChangeInv' /\ HashInv'
  BY <1>1, PasswordKeeps
<1> QED
  BY <1>4, <1>5, <1>6, <1>7, <1>8, <1>9 DEF IInv

LEMMA ReloadStopsKeeps ==
    ASSUME IInv, NEW p \in Requests, ReloadStops(p)
    PROVE  IInv'
<1>1. /\ put[p].at = "reload" /\ put' = [put EXCEPT ![p].at = "start"]
      /\ mutex = Nobody /\ mutex' = p /\ current' = NoBot
      /\ UNCHANGED <<row, test, puts, was, wanted, met, unstarted, unread,
                     password, restarts, faults>>
  BY DEF ReloadStops
<1>2. /\ put' \in [Requests -> {Idle} \cup Loads]
      /\ put'[p].at = "start" /\ put'[p].cur = put[p].cur /\ put'[p] # Idle /\ put[p] # Idle
      /\ \A q \in Requests \ {p} : put'[q] = put[q]
  BY <1>1, PutGoesOn DEF IInv
<1>3. Loaded' = Loaded
  BY <1>1 DEF Loaded
<1>4. TypeOK'
  BY <1>1, <1>2 DEF password, IInv, TypeOK, Loads
<1>5. MutexIsHeld'
  BY <1>1, <1>2, SettingsAssumption DEF IInv, MutexIsHeld
<1>6. SavedInv'
  BY <1>1, <1>2 DEF IInv, SavedInv
<1>7. NoBotInv'
  BY <1>1, SettingsAssumption DEF NoBotInv
<1>8. PutInv'
  <2> SUFFICES ASSUME ~met PROVE OnePut' /\ PutFollows' /\ (Loaded = wanted)' /\ BotFollowsTable'
    BY <1>1 DEF PutInv
  <2>1. \A q \in Requests \ {p} : put'[q] = Idle /\ put'[q].at = "idle"
    BY <1>2, OthersAreIdle
  <2>2. OnePut'
    BY <2>1 DEF OnePut
  <2>3. put[p].cur = Loaded /\ Loaded = wanted
    BY <1>1 DEF IInv, PutInv, PutFollows
  <2>4. PutFollows'
    BY <1>2, <1>3, <2>1, <2>3 DEF PutFollows
  <2>5. (Loaded = wanted)'
    BY <1>1, <1>3, <2>3
  <2>6. BotFollowsTable'
    BY <1>2 DEF BotFollowsTable
  <2> QED
    BY <2>2, <2>4, <2>5, <2>6
<1>9. ChangeInv' /\ HashInv'
  BY <1>1, PasswordKeeps
<1> QED
  BY <1>4, <1>5, <1>6, <1>7, <1>8, <1>9 DEF IInv

(* ReloadStarts and ReloadFails: the request ends and the mutex is free.    *)
LEMMA ReloadEndsKeeps ==
    ASSUME IInv, NEW p \in Requests, ReloadStarts(p) \/ ReloadFails(p)
    PROVE  IInv'
<1>1. /\ put[p].at = "start" /\ put' = [put EXCEPT ![p] = Idle] /\ mutex' = Nobody
      /\ unstarted' \in BOOLEAN /\ unread' = FALSE
      /\ unstarted' \/ current' = BotOf(put[p].cur)
      /\ current' \in {current, BotOf(put[p].cur)}
      /\ UNCHANGED <<row, test, puts, was, wanted, met, password, restarts, faults>>
  BY DEF ReloadStarts, ReloadFails
<1>2. /\ put' \in [Requests -> {Idle} \cup Loads]
      /\ put'[p] = Idle /\ put'[p].at = "idle"
      /\ \A q \in Requests \ {p} : put'[q] = put[q]
  BY <1>1, PutIsDone DEF IInv
<1>3. put[p] \in Loads /\ put[p] # Idle
  BY <1>1, PutIsTyped DEF IInv
<1>4. put[p].cur \in Config /\ put[p].cur \in was
  BY <1>1, <1>3 DEF Loads, IInv, SavedInv
<1>5. /\ BotOf(put[p].cur) \in {put[p].cur, NoBot}
      /\ BotOf(put[p].cur) \in Config \cup {NoBot}
      /\ BotOf(put[p].cur) = NoBot => put[p].cur.token = NoToken
  BY <1>4, BotOfConfig
<1>6. Loaded' = Loaded
  BY <1>1 DEF Loaded
<1>7. current' \in Config \cup {NoBot}
  BY <1>1, <1>5 DEF IInv, TypeOK
<1>8. TypeOK'
  BY <1>1, <1>2, <1>7 DEF password, IInv, TypeOK, Loads
<1>9. MutexIsHeld'
  BY <1>1, <1>2, SettingsAssumption DEF IInv, MutexIsHeld
<1>10. SavedInv'
  BY <1>1, <1>2, <1>4, <1>5 DEF IInv, SavedInv
<1>11. NoBotInv'
  BY <1>1, <1>4, <1>5 DEF NoBotInv, Cleared
<1>12. PutInv'
  <2> SUFFICES ASSUME ~met PROVE OnePut' /\ PutFollows' /\ (Loaded = wanted)' /\ BotFollowsTable'
    BY <1>1 DEF PutInv
  <2>1. \A q \in Requests : put'[q] = Idle /\ put'[q].at = "idle"
    BY <1>2, <1>3, OthersAreIdle
  <2>2. OnePut' /\ PutFollows'
    BY <2>1 DEF OnePut, PutFollows
  <2>3. put[p].cur = Loaded /\ Loaded = wanted
    BY <1>1 DEF IInv, PutInv, PutFollows
  <2>4. (Loaded = wanted)'
    BY <1>1, <1>6, <2>3
  <2>5. ~unstarted' => current' = BotOf(StartConfig(FALSE))
    BY <1>1, <2>3 DEF StartConfig
  <2>6. BotFollowsTable'
    BY <1>1, <1>6, <2>5 DEF BotFollowsTable, StartConfig
  <2> QED
    BY <2>2, <2>4, <2>6
<1>13. ChangeInv' /\ HashInv'
  BY <1>1, PasswordKeeps
<1> QED
  BY <1>8, <1>9, <1>10, <1>11, <1>12, <1>13 DEF IInv

-----------------------------------------------------------------------------
(* A change of the password that goes on keeps the new password.            *)
LEMMA ChangeGoesOn ==
    ASSUME TypeOK, NEW c \in Changers, change[c].at # "idle",
           change' = [change EXCEPT ![c].at = "write"]
    PROVE  /\ change' \in [Changers -> {Idle} \cup Writes]
           /\ change'[c].at = "write" /\ change'[c].new = change[c].new
           /\ change'[c] # Idle /\ change[c] # Idle
           /\ \A b \in Changers \ {c} : change'[b] = change[b]
<1>1. /\ change \in [Changers -> {Idle} \cup Writes]
      /\ change[c] \in Writes /\ change[c] # Idle
  BY ChangeIsTyped DEF TypeOK, Writes
<1> DEFINE rec == [change[c] EXCEPT !.at = "write"]
<1>2. rec \in Writes /\ rec.at = "write" /\ rec.new = change[c].new
  BY <1>1 DEF Writes
<1>3. rec # Idle
  BY <1>2 DEF Idle
<1>4. change' = [change EXCEPT ![c] = rec]
  OBVIOUS
<1> HIDE DEF rec
<1> QED
  BY <1>1, <1>2, <1>3, <1>4

(* A change that ends is idle.                                              *)
LEMMA ChangeIsDone ==
    ASSUME TypeOK, NEW c \in Changers, change' = [change EXCEPT ![c] = Idle]
    PROVE  /\ change' \in [Changers -> {Idle} \cup Writes]
           /\ change'[c] = Idle /\ change'[c].at = "idle"
           /\ \A b \in Changers \ {c} : change'[b] = change[b]
<1>1. change \in [Changers -> {Idle} \cup Writes]
  BY DEF TypeOK, Writes
<1>2. /\ change' \in [Changers -> {Idle} \cup Writes] /\ change'[c] = Idle
      /\ \A b \in Changers \ {c} : change'[b] = change[b]
  BY <1>1
<1> QED
  BY <1>2 DEF Idle

(* The others are idle while c is not, if changes never crossed.            *)
LEMMA OtherChangesAreIdle ==
    ASSUME IInv, ~crossed, NEW c \in Changers, change[c] # Idle
    PROVE  \A b \in Changers \ {c} : change[b] = Idle /\ change[b].at = "idle"
<1> SUFFICES ASSUME NEW b \in Changers \ {c}
    PROVE  change[b] = Idle /\ change[b].at = "idle"
  OBVIOUS
<1>1. change[b] = Idle
  BY DEF IInv, ChangeInv, OneChange
<1> QED
  BY <1>1 DEF Idle

LEMMA ChangeChecksKeeps ==
    ASSUME IInv, NEW c \in Changers, ChangeChecks(c)
    PROVE  IInv'
<1>1. PICK new \in Passwords : change' = [change EXCEPT ![c] = [at |-> "save", new |-> new]]
  BY DEF ChangeChecks
<1> DEFINE rec == [at |-> "save", new |-> new]
<1>2. rec \in Writes /\ rec.at = "save"
  BY DEF Writes
<1>3. change \in [Changers -> {Idle} \cup Writes]
  BY DEF IInv, TypeOK, Writes
<1>4. /\ change' \in [Changers -> {Idle} \cup Writes] /\ change'[c] = rec
      /\ \A b \in Changers \ {c} : change'[b] = change[b]
  BY <1>1, <1>2, <1>3
<1>5. /\ change[c] = Idle /\ crossed' = (crossed \/ Changing(c))
      /\ changes < MaxChanges /\ changes' = changes + 1
      /\ UNCHANGED <<telegram, mem, saved, unhashed, accepted, restarts, faults>>
  BY DEF ChangeChecks
<1>6. change[c].at = "idle"
  BY <1>5 DEF Idle
<1> HIDE DEF rec
<1>7. crossed' \in BOOLEAN
  BY <1>5 DEF IInv, TypeOK
<1>8. TypeOK'
  BY <1>4, <1>5, <1>7, SettingsAssumption DEF telegram, IInv, TypeOK, Writes
<1>9. ChangeInv'
  <2> SUFFICES ASSUME ~crossed'
      PROVE  /\ OneChange'
             /\ \A b \in Changers : change'[b].at # "write"
             /\ mem' = StartPassword(unhashed)'
    BY DEF ChangeInv
  <2>1. ~crossed /\ \A b \in Changers \ {c} : change'[b] = Idle /\ change[b] = Idle
    BY <1>4, <1>5 DEF Changing
  <2>2. \A b \in Changers : change[b] = Idle
    BY <1>5, <2>1
  <2>3. \A b \in Changers : change[b].at # "write"
    BY <2>2 DEF Idle
  <2>4. mem = StartPassword(unhashed)
    BY <2>1, <2>3 DEF IInv, ChangeInv
  <2>5. \A b \in Changers : change'[b].at # "write"
    BY <1>2, <1>4, <2>3
  <2>6. OneChange'
    BY <2>1 DEF OneChange
  <2> QED
    BY <1>5, <2>4, <2>5, <2>6 DEF StartPassword
<1>10. HashInv'
  BY <1>2, <1>4, <1>5 DEF IInv, HashInv, DevModeOnlyUnread
<1>11. MutexIsHeld' /\ SavedInv' /\ NoBotInv' /\ PutInv'
  BY <1>5, TelegramKeeps DEF telegram
<1> QED
  BY <1>8, <1>9, <1>10, <1>11 DEF IInv

LEMMA ChangeSavesKeeps ==
    ASSUME IInv, NEW c \in Changers, ChangeSaves(c)
    PROVE  IInv'
<1>1. /\ change[c].at = "save" /\ saved' = change[c].new
      /\ change' = [change EXCEPT ![c].at = "write"]
      /\ UNCHANGED <<telegram, mem, changes, crossed, unhashed, accepted, restarts, faults>>
  BY DEF ChangeSaves
<1>2. /\ change' \in [Changers -> {Idle} \cup Writes]
      /\ change'[c].at = "write" /\ change'[c].new = change[c].new
      /\ change'[c] # Idle /\ change[c] # Idle
      /\ \A b \in Changers \ {c} : change'[b] = change[b]
  BY <1>1, ChangeGoesOn DEF IInv
<1>3. saved' \in Passwords /\ saved' # NoPassword
  BY <1>1, ChangeIsTyped, SettingsAssumption DEF IInv, Writes
<1>4. TypeOK'
  BY <1>1, <1>2, <1>3 DEF telegram, IInv, TypeOK, Writes
<1>5. ChangeInv'
  <2> SUFFICES ASSUME ~crossed
      PROVE  /\ OneChange'
             /\ \A b \in Changers : change'[b].at = "write" => saved' = change'[b].new
    BY <1>1, <1>2 DEF ChangeInv
  <2>1. \A b \in Changers \ {c} : change'[b] = Idle /\ change'[b].at = "idle"
    BY <1>2, OtherChangesAreIdle
  <2> QED
    BY <1>1, <1>2, <2>1 DEF OneChange
<1>6. HashInv'
  BY <1>1, <1>3 DEF IInv, HashInv, DevModeOnlyUnread
<1>7. MutexIsHeld' /\ SavedInv' /\ NoBotInv' /\ PutInv'
  BY <1>1, TelegramKeeps DEF telegram
<1> QED
  BY <1>4, <1>5, <1>6, <1>7 DEF IInv

LEMMA ChangeSaveFailsKeeps ==
    ASSUME IInv, NEW c \in Changers, ChangeSaveFails(c)
    PROVE  IInv'
<1>1. /\ change[c].at = "save" /\ change' = [change EXCEPT ![c] = Idle]
      /\ faults < MaxFaults /\ faults' = faults + 1
      /\ UNCHANGED <<telegram, mem, saved, changes, crossed, unhashed, accepted, restarts>>
  BY DEF ChangeSaveFails
<1>2. /\ change' \in [Changers -> {Idle} \cup Writes]
      /\ change'[c] = Idle /\ change'[c].at = "idle"
      /\ \A b \in Changers \ {c} : change'[b] = change[b]
  BY <1>1, ChangeIsDone DEF IInv
<1>3. change[c] # Idle
  BY <1>1 DEF Idle
<1>4. TypeOK'
  BY <1>1, <1>2, SettingsAssumption DEF telegram, IInv, TypeOK, Writes
<1>5. ChangeInv'
  <2> SUFFICES ASSUME ~crossed
      PROVE  OneChange' /\ mem = StartPassword(unhashed) /\ \A b \in Changers : change'[b].at = "idle"
    BY <1>1 DEF ChangeInv, StartPassword
  <2>1. \A b \in Changers \ {c} : change[b] = Idle /\ change[b].at = "idle"
    BY <1>3, OtherChangesAreIdle
  <2>2. mem = StartPassword(unhashed)
    BY <1>1, <2>1 DEF IInv, ChangeInv
  <2> QED
    BY <1>2, <2>1, <2>2 DEF OneChange
<1>6. HashInv'
  BY <1>1, <1>2 DEF IInv, HashInv, DevModeOnlyUnread
<1>7. MutexIsHeld' /\ SavedInv' /\ NoBotInv' /\ PutInv'
  BY <1>1, TelegramKeeps DEF telegram
<1> QED
  BY <1>4, <1>5, <1>6, <1>7 DEF IInv

LEMMA ChangeWritesKeeps ==
    ASSUME IInv, NEW c \in Changers, ChangeWrites(c)
    PROVE  IInv'
<1>1. /\ change[c].at = "write" /\ mem' = change[c].new
      /\ accepted' = TRUE /\ unhashed' = FALSE
      /\ change' = [change EXCEPT ![c] = Idle]
      /\ UNCHANGED <<telegram, saved, changes, crossed, restarts, faults>>
  BY DEF ChangeWrites
<1>2. /\ change' \in [Changers -> {Idle} \cup Writes]
      /\ change'[c] = Idle /\ change'[c].at = "idle"
      /\ \A b \in Changers \ {c} : change'[b] = change[b]
  BY <1>1, ChangeIsDone DEF IInv
<1>3. mem' \in Passwords /\ mem' # NoPassword /\ change[c] # Idle
  BY <1>1, ChangeIsTyped, SettingsAssumption DEF IInv, Writes
<1>4. saved # NoPassword
  BY <1>1 DEF IInv, HashInv
<1>5. TypeOK'
  BY <1>1, <1>2, <1>3 DEF telegram, IInv, TypeOK, Writes
<1>6. ChangeInv'
  <2> SUFFICES ASSUME ~crossed
      PROVE  OneChange' /\ mem' = saved /\ \A b \in Changers : change'[b].at = "idle"
    BY <1>1, <1>4 DEF ChangeInv, StartPassword
  <2>1. \A b \in Changers \ {c} : change[b] = Idle /\ change[b].at = "idle"
    BY <1>3, OtherChangesAreIdle
  <2>2. mem' = saved
    BY <1>1 DEF IInv, ChangeInv
  <2> QED
    BY <1>2, <2>1, <2>2 DEF OneChange
<1>7. HashInv'
  BY <1>1, <1>2, <1>3, <1>4 DEF IInv, HashInv, DevModeOnlyUnread
<1>8. MutexIsHeld' /\ SavedInv' /\ NoBotInv' /\ PutInv'
  BY <1>1, TelegramKeeps DEF telegram
<1> QED
  BY <1>5, <1>6, <1>7, <1>8 DEF IInv

-----------------------------------------------------------------------------
LEMMA TestKeeps ==
    ASSUME IInv, NEW t \in Testers, TestStep(t)
    PROVE  IInv'
<1>1. /\ UNCHANGED <<row, current, mutex, put, puts, was, wanted, met, unstarted, unread,
                     password, restarts, faults>>
      /\ \/ test' = [test EXCEPT ![t].at = "refused"]
         \/ test' = [test EXCEPT ![t] = Idle]
  BY DEF TestStep, TestRefused, TestAnswered
<1>2. test' \in [Testers -> [at : {"idle", "refused"}]]
  <2>1. test \in [Testers -> [at : {"idle", "refused"}]] /\ Idle \in [at : {"idle", "refused"}]
    BY DEF IInv, TypeOK, Idle
  <2> QED
    BY <1>1, <2>1
<1>3. TypeOK'
  BY <1>1, <1>2 DEF password, IInv, TypeOK
<1> QED
  BY <1>1, <1>3, TelegramKeeps, PasswordKeeps DEF IInv

LEMMA RestartKeeps ==
    ASSUME IInv, Restart
    PROVE  IInv'
<1> DEFINE cfg == StartConfig(unread')
<1>1. /\ restarts < MaxRestarts /\ restarts' = restarts + 1
      /\ unread' \in BOOLEAN /\ unhashed' \in BOOLEAN
      /\ mem' = StartPassword(unhashed')
      /\ current' \in {BotOf(cfg), NoBot}
      /\ unstarted' = (current' # BotOf(cfg))
      /\ mutex' = Nobody /\ crossed' = FALSE
      /\ put' = [p \in Requests |-> Idle]
      /\ test' = [t \in Testers |-> Idle]
      /\ change' = [c \in Changers |-> Idle]
      /\ UNCHANGED <<row, puts, was, wanted, met, saved, changes, accepted>>
  BY DEF Restart
<1>2. cfg \in Config /\ cfg \in was /\ StartConfig(unread)' = cfg /\ Loaded' = Loaded
  <2>1. Loaded' = Loaded
    BY <1>1 DEF Loaded
  <2>2. cfg \in Config /\ cfg \in was
    BY <1>1, StartConfigIsConfig DEF IInv
  <2> QED
    BY <2>1, <2>2 DEF StartConfig
<1>3. /\ mem' \in Passwords \cup {NoPassword}
      /\ mem' = StartPassword(unhashed)'
  <2>1. mem' \in Passwords \cup {NoPassword}
    BY <1>1, StartPasswordIsTyped DEF IInv
  <2> QED
    BY <1>1, <2>1 DEF StartPassword
<1> HIDE DEF cfg
<1>4. /\ BotOf(cfg) \in {cfg, NoBot}
      /\ BotOf(cfg) \in Config \cup {NoBot}
      /\ BotOf(cfg) = NoBot => cfg.token = NoToken
  BY <1>2, BotOfConfig
<1>5. /\ \A p \in Requests : put'[p] = Idle /\ put'[p].at = "idle"
      /\ \A c \in Changers : change'[c] = Idle /\ change'[c].at = "idle"
  BY <1>1 DEF Idle
<1>6. TypeOK'
  <2>1. test' \in [Testers -> [at : {"idle", "refused"}]]
    BY <1>1 DEF Idle
  <2>2. /\ put' \in [Requests -> {Idle} \cup
                     [at : {"save", "reload", "start"}, body : Body, cur : Config]]
        /\ change' \in [Changers -> {Idle} \cup [at : {"save", "write"}, new : Passwords]]
    BY <1>1
  <2>3. current' \in Config \cup {NoBot} /\ unstarted' \in BOOLEAN
    BY <1>1, <1>4
  <2>4. restarts' \in 0..MaxRestarts
    BY <1>1, SettingsAssumption DEF IInv, TypeOK
  <2>5. mutex' \in Requests \cup {Nobody} /\ crossed' \in BOOLEAN
    BY <1>1
  <2>6. faults' \in 0..MaxFaults
    BY <1>1, SettingsAssumption DEF Restart, IInv, TypeOK
  <2> QED
    BY <1>1, <1>3, <2>1, <2>2, <2>3, <2>4, <2>5, <2>6 DEF IInv, TypeOK
<1>7. MutexIsHeld'
  BY <1>1, <1>5, SettingsAssumption DEF MutexIsHeld
<1>8. SavedInv'
  BY <1>1, <1>2, <1>4, <1>5 DEF IInv, SavedInv
<1>9. NoBotInv'
  BY <1>1, <1>2, <1>4 DEF NoBotInv, Cleared
<1>10. PutInv'
  BY <1>1, <1>2, <1>5 DEF IInv, PutInv, OnePut, PutFollows, BotFollowsTable
<1>11. ChangeInv'
  BY <1>1, <1>3, <1>5 DEF ChangeInv, OneChange
<1>12. HashInv'
  BY <1>1, <1>5 DEF IInv, HashInv, DevModeOnlyUnread, StartPassword
<1> QED
  BY <1>6, <1>7, <1>8, <1>9, <1>10, <1>11, <1>12 DEF IInv

-----------------------------------------------------------------------------
LEMMA StutterKeeps ==
    ASSUME IInv, UNCHANGED vars
    PROVE  IInv'
<1>1. TypeOK'
  BY DEF vars, telegram, password, IInv, TypeOK
<1> QED
  BY <1>1, TelegramKeeps, PasswordKeeps DEF vars, telegram, IInv

LEMMA NextKeeps ==
    ASSUME IInv, [Next]_vars
    PROVE  IInv'
<1>1. CASE \E p \in Requests : PutLoads(p) \/ PutLoadFails(p) \/ PutStep(p)
  BY <1>1, PutLoadsKeeps, PutLoadFailsKeeps, PutSavesKeeps, PutSaveFailsKeeps,
     ReloadStopsKeeps, ReloadEndsKeeps DEF PutStep
<1>2. CASE \E t \in Testers : TestStep(t)
  BY <1>2, TestKeeps
<1>3. CASE \E c \in Changers : ChangeChecks(c) \/ ChangeStep(c)
  BY <1>3, ChangeChecksKeeps, ChangeSavesKeeps, ChangeSaveFailsKeeps, ChangeWritesKeeps
     DEF ChangeStep
<1>4. CASE Restart
  BY <1>4, RestartKeeps
<1>5. CASE UNCHANGED vars
  BY <1>5, StutterKeeps
<1> QED
  BY <1>1, <1>2, <1>3, <1>4, <1>5 DEF Next

(* The parts above are one inductive invariant.                             *)
THEOREM Invariance == Spec => []IInv
<1>1. Init => IInv
  BY InitHolds
<1>2. IInv /\ [Next]_vars => IInv'
  BY NextKeeps
<1> QED
  BY <1>1, <1>2, PTL DEF Spec

(* Every variable keeps its type.                                           *)
THEOREM TypeCorrect == Spec => []TypeOK
<1>1. IInv => TypeOK
  BY DEF IInv
<1> QED
  BY <1>1, Invariance, PTL

(* The mutex of the controller is held exactly while a bot is replaced.     *)
THEOREM MutexHeldRightly == Spec => []MutexIsHeld
<1>1. IInv => MutexIsHeld
  BY DEF IInv
<1> QED
  BY <1>1, Invariance, PTL

(* The bot only ever runs with a configuration that was saved.              *)
THEOREM SavedBeforeRun == Spec => []RunsWhatWasSaved
<1>1. IInv => RunsWhatWasSaved
  BY DEF IInv, SavedInv, RunsWhatWasSaved
<1> QED
  BY <1>1, Invariance, PTL

(* Without overlapping PUTs the bot runs with what the table says, or with  *)
(* what the file says since a start that could not read the table ...       *)
THEOREM BotAgreesWithTable == Spec => []BotFollowsTable
<1>1. IInv => BotFollowsTable
  BY DEF IInv, PutInv, BotFollowsTable
<1> QED
  BY <1>1, Invariance, PTL

(* ... and a field keeps the last value that was saved for it.              *)
THEOREM FieldsAlwaysKept == Spec => []FieldsAreKept
<1>1. IInv => FieldsAreKept
  BY DEF IInv, PutInv, FieldsAreKept
<1> QED
  BY <1>1, Invariance, PTL

(* A password once set stays in the table, and only a start that could not  *)
(* read it takes the daemon back to accepting every password.               *)
THEOREM NoWayBackToDevMode == Spec => []DevModeOnlyUnread
<1>1. IInv => DevModeOnlyUnread
  BY DEF IInv, HashInv
<1> QED
  BY <1>1, Invariance, PTL

(* Without crossing changes, memory has the password of the table, or that  *)
(* of the file since a start that could not read the table.                 *)
THEOREM PasswordAgreesWithTable == Spec => []PasswordSurvives
<1>1. IInv => PasswordSurvives
  BY DEF IInv, ChangeInv, PasswordSurvives
<1> QED
  BY <1>1, Invariance, PTL

(* A test of the bot is refused only when there really may be none.         *)
THEOREM RefusedOnlyWithoutBot == Spec => TestRefusedRightly
<1>1. ASSUME IInv, Next
      PROVE  \A t \in Testers :
                (test[t].at # "refused" /\ test'[t].at = "refused")
                => unstarted \/ Cleared
  <2> SUFFICES ASSUME NEW t \in Testers, test[t].at # "refused", test'[t].at = "refused"
      PROVE  unstarted \/ Cleared
    OBVIOUS
  <2>1. CASE \E p \in Requests : PutLoads(p) \/ PutLoadFails(p) \/ PutStep(p)
    BY <1>1, <2>1 DEF PutLoads, PutLoadFails, PutStep, PutSaves, PutSaveFails, ReloadStops,
       ReloadStarts, ReloadFails
  <2>2. CASE \E u \in Testers : TestRefused(u)
    BY <1>1, <2>2 DEF TestRefused, IInv, NoBotInv
  <2>3. CASE \E u \in Testers : TestAnswered(u)
    <3>1. PICK u \in Testers : test' = [test EXCEPT ![u] = Idle]
      BY <2>3 DEF TestAnswered
    <3>2. test'[t] = Idle \/ test'[t] = test[t]
      BY <1>1, <3>1 DEF IInv, TypeOK
    <3> QED
      BY <3>2 DEF Idle
  <2>4. CASE \E c \in Changers : ChangeChecks(c) \/ ChangeStep(c)
    BY <2>4 DEF ChangeChecks, ChangeStep, ChangeSaves, ChangeSaveFails, ChangeWrites, telegram
  <2>5. CASE Restart
    BY <2>5 DEF Restart, Idle
  <2> QED
    BY <1>1, <2>1, <2>2, <2>3, <2>4, <2>5 DEF Next, TestStep
<1>2. IInv /\ [Next]_vars =>
        [\A t \in Testers :
           (test[t].at # "refused" /\ test'[t].at = "refused")
           => unstarted \/ \E cfg \in was : cfg.token = NoToken]_vars
  BY <1>1 DEF Cleared
<1> QED
  BY <1>2, Invariance, PTL DEF Spec, TestRefusedRightly

=============================================================================
