# OhMySMSApp in TLA+

Models of OhMySMSApp (a Go daemon that lets a web page and a Telegram bot use
the modems of a machine: text messages, USSD, SIM and eSIM cards), model-checked
with TLC, with theorems checked by TLAPS. All line numbers are those of the
commit beside this directory; `esim.go:553` is
`src/backend/internal/esim/esim.go`, line 553, and so on.

1. [The system](#1-the-system)
2. [Modules](#2-modules)
3. [What the models abstract](#3-what-the-models-abstract)
4. [Runs](#4-runs)
5. [Where the code disagrees with its documentation](#5-where-the-code-disagrees-with-its-documentation)
6. [Proofs](#6-proofs)
7. [What is not modelled, and the plan](#7-what-is-not-modelled-and-the-plan)

To repeat the checks, in this directory:
`tlc -workers 2 -config sms_live.cfg MCSmsPipeline.tla`,
`tlc -workers 2 -config chat.cfg MCTelegramChat.tla`, `tlapm ESimProofs.tla`, and so on:
a module `X` is run as `MCX` with the configurations of section 4, and its theorems
are in `XProofs`.

## 1. The system

```
 ModemManager (MM)                  lpac, eUICC
    |  D-Bus signals, calls              ^
    v                                    | inhibit MM, run lpac, uninhibit
 modem.MMProvider --events--> modem.Runner --fanout--> telegram.bot
    ^   dispatcher goroutine     |  event loop     \-> esim.Service (auto-discovery)
    |                            v                 \-> ws.Hub -> browsers
    |                         SQLite (modem.Store)
    |                            ^
    +------- httpapi (REST) -----+---- auth, settings, audit
```

| component | state it keeps | operations | what is hard | what makes it correct |
|---|---|---|---|---|
| MMProvider (`mmprovider.go`) | modems by path, subscriptions, the seen cache of messages (`smsSeen`), D-Bus signal queue, event channel (256) | start and reconcile; signals of modems, messages, USSD; send, delete, USSD, reset | signals racing the first listing, failing reads, a full channel, paths that change | a message that arrives is announced once; the rest is filed in silence |
| Runner (`runner.go`) | caches of modem and SIM ids, subscribers | event loop, fanout, sweep of stale modems | crash between commit and fanout, slow subscribers, stale caches | what is announced is in the database; the database follows the modems |
| Store (`store.go`) | tables `modems`, `sims`, bindings, `sms`, USSD, settings | upserts with merging, deletes | identity of a message (path, content) and of a modem (IMEI, device id) | no message twice, none overwritten |
| eSIM service (`esim.go`, `inhibit.go`) | a mutex per modem, the inhibitor's counts, cards and profiles in the database | view, discover, enable, disable, add, delete, rename | lpac and MM exclude each other; commands that fail half-way; clients that go away; a card that is swapped | lpac alone on the modem, MM gets it back, the rows follow the chip, a failed switch goes back |
| Telegram pushes (`push.go`, `bot.go`) | offline timers, SIM snapshots, records of pushed messages, one set per bot | the push loop, the timer function | timers racing events, a channel that is full, a bot replaced in the middle of a push | an absence is told unless it was short, a return unless its absence was not, a message once |
| Telegram conversations (`commands.go`, `session.go`) | one session per chat, with a step | wizards, keyboards, replies, USSD prompts | two goroutines write the session; old keyboards; expiry; calls that take long | what is sent is what was confirmed, a word is taken for what was asked |
| Telegram controller (`controller.go`) | the bot, a mutex | start, reload, stop, test | a bot that does not stop or start | the bot runs what the table holds |
| USSD (`mmprovider.go`, `store.go`) | the dialogue as last signalled, rows of `ussd_sessions` | initiate, respond, cancel, signals | no identifiers: texts and rows of one dialogue may be taken for another's | the history says what happened |
| WebSocket hub (`ws/`) | connections and their buffers | register, dispatch, close | full buffers, links that die in silence | every connection ends |
| settings and password (`settings.go`, `auth/`) | the table, the bot's configuration, the hash in memory | change, restart | two requests at once, a failure between table and memory | what is persisted is what is used |
| httpapi | none | REST handlers | steps of one request against everything else | a request acts on what its user saw |
| frontend (`useWebSocket.ts`, `stores/`) | stores, one socket, a timer | connect, merge, fetch | late closes, gaps between connections, answers overtaken by events | one socket, a true status, a view that catches up |

Everything in the daemon shares one SQLite database with one connection, so each
transaction is a single step. What a crash leaves is exactly the database.

`PROJECT.json` lists every component and, under `hazards`, each place that is
hard to test, with the properties that watch it.

## 2. Modules

**`SmsStore`** - the `sms` table as a pure function: `Inserted` is
`Store.insertSMS` (look for the source key, then for a duplicate by content
under the SIM, the modem, or globally; merge or update or insert; decide whether
the message may be announced), `WithoutRow` the delete, `StateUpdated`
`UpdateSMSState`. A `Record` is what the provider reads, a `Row` what is stored.

**`SmsPipeline`** - the way of a message from MM to the subscribers.

| part | variables | actions |
|---|---|---|
| MM (environment) | `modem card at exported phase old nextPath nextModem` | `ModemAppears ModemLeaves MMRestart Arrive Reexport Complete Age` |
| MMProvider | `app known matched subs seen toRead sigs` | `Start GetManagedObjects ListSms ReadListed EndReconcile` (Start, initialReconcile), `HandleSignal` = one of the `On...` handlers |
| Runner, database | `events pending modemRow simBound sms lastId` | `OnModemAdded OnModemRemoved OnSmsReceived OnSmsStateChanged`, then `Fanout` |
| HTTP | `deleting` | `ReadRow`, `DeleteOnModem`, `DeleteRow` |
| | | `Crash` |

The runner commits a row with `pushed = 1` and fans the event out afterwards;
`pending` is the gap between the two, in which the daemon can die. A DELETE reads its
row, deletes the object at the path that the row had (`sms.go:195-197`) and then the row
by its id (`sms.go:200`); signals and events are handled between the three.

**`SmsInbox`** - what the pipeline promises about one message: it is claimed for
an announcement at most once, and what was announced or filed is never claimed
again. `SmsPipeline!Inbox` instantiates it with the status of each message
computed from the table and the announcements; run `sms_crash_delete` checks
that the pipeline implements it.

**`ESim`** - the eSIM service. A request is a record in `req[r]` whose `pc` names
the command it runs next:

```
idle -Begin-> locking -Lock-> inhibiting -Inhibit-+-> list1 -> [disableCurrent -> list2] -> operate -> list3 -+   enable, disable
                                                  |              listAfterRefusal -> rollback -> lastList     |
                                                  +-> recheck -> erase -> forget -----------------------------+   delete
                                                  +-> rename -> deferred                                      |   nickname
                                                  +-> download -> info -> list -------------------------------+   add
                                                  +-> list ---------------------------------------------------+   view
                                                  +-> info -> list -> deferred                                |   discover
   done <- deferred (uninhibit again, unlock) <- any error                                   closing (uninhibit)
   done <- resetting | recovering <-------------------------------------------------------------------+
```

`lock` is the mutex of the modem (`modemLock`), `active` the count of the
inhibitor, `mm` whether MM exports the modem, `news` the appearances and
departures on their way through provider and runner into `modems.present`, `chip`
the profiles as they are, `row` and `bound` the tables `esim_profiles` and
`esim_cards.modem_id`. `Breaks` lets a command fail because its context is
cancelled or for no visible reason, and a failed command may have taken effect. The list
commands fail the same way, and so do the rows that are written after one; the code
ignores both (`esim.go:547-549`, `1015`). `unsure` is history: the profiles about which the
rows may be wrong since a command was in doubt or a list or a row was missed, until a list
works again.

**`ModemStore`** - the tables `modems`, `sims` and `modem_sim_bindings` as pure
functions: `Upserted` is `UpsertModem` (conflict on the IMEI, or on the identifier
when there is none; `UpsertFails` when the other unique index refuses),
`SimUpserted` the row of `UpsertSim`, `MarkedAbsent` and `Unbound` the rest.

**`ModemRegistry`** - which modem is there with which SIM, from MM to those tables.

| part | variables | actions |
|---|---|---|
| MM, users (environment) | `object nextPath slot` | `Plug Unplug SwapSim MMRestart Report` |
| MMProvider | `app entries byPath matched toAdd adding sigs` | `Start GetManagedObjects ReadListed ReadAnnounced EnterModem Listen OnModemRemoved OnModemChanged OnSignal`: `onModemAdded` reads the SIM over D-Bus before it takes its lock, so it is two steps |
| Runner, database | `events task modemIDs simIDs sweep`, `modems sims bound` | `HandleModem HandleSim Bind HandleRemoved ForgetModem HandleSample`, `SweepLooks MarkStaleModemsAbsent` |
| HTTP | | `DeleteOfflineModem DeleteUnusedSIM` |
| | | `Crash` |

`entries` is `p.modems`, by DeviceIdentifier; `byPath` finds the identifier a signal
is about. The handlers of the runner make several statements, each a transaction of
its own; `task` is the one that comes next, and a request or a crash can come first.
`unsure` and `scars` are history: the identifiers of modules an event of which was
dropped or a statement for which failed, and the rows a crash left in the middle of a
removal. The object in a queued signal is history too: which modem it was sent for.

**`TelegramPush`** - the pushes of the bot, and the life of a bot.

| part | variables | actions |
|---|---|---|
| modems, messages (environment: `ModemRegistry` and `SmsPipeline` say where they come from) | `present card arrived` | `ModemAppears ModemLeaves ModemUpdates MessageArrives`, each fanned out |
| subscriptions | `subs queue` | `Fanout`, into channels that may be full |
| the push loop of each bot | `ctx loop snap` | `OnSMSReceived OnModemAdded OnModemRemoved OnModemUpdated`, then `RecordSIMSnapshot HandleSIMDiff`, `Send SendFails LoopEnds` |
| its timers | `pending timers` | `TimerFires TimerUnlists TimerClears TimerSends TimerSendFails`: the function of `scheduleOffline`, with the mutex free between the steps |
| Controller | `current reload` | `Reload StopReturns StopTimesOut StartBot StartFails` |

`told`, `toldSim`, `pushed` are what the chat has read. `raced` (a modem moved while the
function of its timer ran), `missed` (a return that reached no bot), `muted` (a SIM recorded without being told, as the code
means it), `overdue` (stop gave up after 5 s) are history; section 3 says why.

**`Settings`** - what the web page changes and a restart must keep: the settings of
the bot and the password, each in the table and in memory.

| part | variables | actions |
|---|---|---|
| PUT /settings/telegram | `row current mutex put` | `PutLoads PutLoadFails PutSaves PutSaveFails ReloadStops ReloadStarts ReloadFails` |
| POST /settings/telegram/test | `test` | `TestRefused TestAnswered` |
| POST /auth/password | `mem saved change` | `ChangeChecks ChangeSaves ChangeSaveFails ChangeWrites` |
| main | | `Restart`, at any moment; either of the two reads may fail |

`unread` and `unhashed` are history: the daemon was last started without having read the
settings of the bot, or the hash. `loadTelegramConfig` and `loadPasswordBcrypt` then go on
with `config.yaml` (`main.go:207-210`, `235-240`).

**`WsPush`** - from the runner to the web page. What the daemon knows of a modem is its
row: none, present or absent, and the SIM bound to it. An event tells the row of one modem
(`modem.added`, `modem.updated`), that it is off (`modem.removed`), that it has another SIM
(`sim.updated`), or nothing of it (a signal, a message).

| part | variables | actions |
|---|---|---|
| tables, Hub | `now hubQ reg` | `Change` = `StateChanges SimUpdated Removed OtherEvent ChangesQuietly`; `HubDispatch Register Unregister` |
| Conn: two loops and a channel each | `srv out` | `WriterWrites WriterFails PingFails ReaderLeaves Expires` |
| network | `dead` | `LinkDies` |
| page: socket | `sock cur timer status loggedIn` | `Upgrade UpgradeFails SocketCloses CloseEnds Reconnects Login Logout SwitchBackend` |
| page: store | `view fetch` | `Visits FetchReads FetchArrives FetchFails`; messages are handled in `WriterWrites` by `HandleState` and `HandleRemoved`, which change one modem |

**`Ussd`** - the dialogue of one modem: ModemManager and the network (`mm`), the
provider's entry (`entry`, `Merged`, `OnUSSDPropsChanged`), the channel (`events`), and
the rows (`AppendUSSD`, `SetUSSDState`, `Persisted`). Each of the three writes of an event
may fail, since the runner throws their errors away (`runner.go:283-294`), or all of them,
when the modem has no id (`runner.go:279-281`); `unwritten` is history, what is missing of
the last event. **`TelegramChat`** extends it with the conversation of the bot:

| part | variables | actions |
|---|---|---|
| the update loop | `session handler latest summary sends` | `HandleUpdate` = `CmdWizard CmdCancel OnPickModem PickMoves OnConfirmSend HandleWord HandleReply`, `PromptArrives PromptFails`; `Expires` |
| its calls | | `SendReturns UssdReturns InitiateTimesOut` |
| the push loop | `sub loop pushed` | `PushShows PushRecords PushLooks PushAsks PushPrompts` |
| web page, network | `mm` | `DialogueMoves` |
| Runner | `events rows` | `RunnerStep SmsArrives` |
| Controller, main | | `Reload DaemonRestarts` |

`handler` is what the update loop waits for, a call of the provider or a prompt; `PushLooks`
and `PushAsks` are the two looks at the session in `push.go:93-100`, between which the
update loop may run. Both loops change the session first and send the prompt for it
afterwards, with the rate limiter and Telegram in between (`commands.go:272-280`,
`push.go:97-109`); the error of a prompt is thrown away. Picking a modem is two updates of
the session (`commands.go:210-215`). `neat` and `astray` are history: has the user waited
for the bot and used its latest keyboard, and did the prompt of the last step fail, or was
it under way while the other loop changed the session?

**`MC...`** - the constants of the runs.
**`SmsStoreProofs`, `SmsPipelineProofs`, `ESimProofs`, `ModemRegistryProofs`,
`TelegramPushProofs`, `SettingsProofs`, `WsPushProofs`, `TelegramChatProofs`** - theorems
(section 6).

A definition named `...: Mutant` in its comment is a plausible mistake (a dropped
guard, a forgotten reset) that a property must catch; no specification uses it.

## 3. What the models abstract

*SMS.* One modem, whose SIM may change each time it appears. Message contents are
model values; what matters is which of sender, text and timestamp are equal. A
message is incomplete (no text yet) or complete; it is "old" once its timestamp
is more than two minutes back. The signals of
MM arrive in order and none is lost, as long as fewer than 256 wait
(`mmprovider.go:97`); more are not modelled. The D-Bus calls of a handler are made within its step;
each may fail.  Status reports, sending and the text of pushes are left out.

*eSIM.* One modem and one request of each name; every request runs once. A
profile is on, or can be downloaded to, one card (`Home`). The lookup before the
lock is one step, and so is `upsertProfiles`; the delays after a command
(`postToggleDelay`) are not, since a cancelled context is looked at by the next
command anyway. `findBearer` (a search over all modems), the cooldown of the
automatic discovery and the overflow of its event channel are left out: discovery
may start at any time. So are nicknames, a crash of the daemon, a restart of MM
and a modem unplugged while MM is inhibited; `Swap` is the unplugging of an idle
modem. `AddProfile` ends with `GetCard`, which reads the rows it has just written.

*Modems.* An IMEI is the module that has it, an ICCID its SIM; `Shy` modules may be
announced without IMEI, the ICCID of a `Locked` SIM cannot be read. No two modules share an
identifier. MM announces a
modem with the SIM it has and reports a change of SIM as a new `Sim` property; a
`StateFailedReason` of `sim-missing` comes and goes with it. When MM restarts its
objects vanish without `InterfacesRemoved` and its numbers begin again. The sweep
may come at any time once the daemon runs. `UpsertModem` and the statement after it
are one step (a row that has just become present is deleted by nobody). The
properties registration, state and operator of a modem, numbers and nicknames are
left out. Signals of a removed modem still arrive, since `removeModemMatches`
hands godbus a set of options that matches no rule (`mmprovider.go:1151`).

*Pushes.* A push is one step, though it is two attempts with and without markup: both
fail, or one succeeds. Which bot sent it does not matter to the chat. USSD and SMS
conversations, which share the loop, are in `TelegramChat`. The grace period and the 5 s of `stop` are steps that may
come at any time; timers fire in any order.

*Settings.* A configuration is a token and one chat id: `push_chat_id`,
`push_message_thread_id` and `push_sms` are merged as the chat id is. No chat id is 0,
so that a test is refused only for want of a bot. A hash stands for the password it was
made of. GET shows what `Loaded` says and changes nothing.

*WebSocket.* One page; the messages of which order or loss matters are those about
modems. `handleModemState`, `handleModemRemoved` and `handleSignalSample`
(`modems.ts:51-125`) change one modem of the list, the last of them nothing but its signal,
which the rows of the model leave out; a modem or a SIM that the page does not know makes it
fetch the list. A change of state whose statements fail is fanned out all the same. The page's
own DELETE and its fetch of a single modem are left out. Two sockets are enough for one to
close as the next opens; a socket is used again when both ends are done with it.
A write to a dead link may succeed. Backoff has no lengths.

*USSD and conversations.* ModemManager has no identifiers for dialogues; the model
numbers them, and a text of the network is the number of its dialogue: a row records
whose texts it holds. One chat is authorised; an update is handled in one step up to a
call of the provider or to the prompt it sends: the look at the step of the session and the
update that follows (`commands.go:265`, `272`) are one step. What is said besides ("sent",
"expired") asks for nothing and is left out. Keyboards stay in the chat
and can be pressed at any time, those of an earlier bot as well; what Telegram delivers
a second time after a restart is not modelled, nor are `onReplyTo` (which begins a
wizard at its text) and commands that only read. One modem has USSD.

*Bounds* (all of them constants named `Max...` in the modules): paths and modem
paths handed out, crashes, restarts of MM, failing calls and transactions,
deletes, lpac faults, bus faults, swaps, modules plugged in, signal reports, bots, failed pushes, events told to the bots, PUTs, changes of the password, changes seen by the page, logins, dialogues; in
`ModemRegistry` also `MaxMoves`, a budget for all of them together, and in `TelegramPush`
`MaxEvents`, one for events and failed pushes; and `EventCap`, the capacity of the
event channel (256 in `main.go:120`; 1 or 2 in the runs, so that it overflows), like
`HubCap` and `OutCap` (256 and 64), `QueueCap` (256) and `SubCap` (128).

*Provisos in properties.* In `ModemRegistry`, what is promised of a modem is promised
unless one of its events found the channel full or one of its statements failed
(`unsure`): the runner logs both and goes on, and only another change of the modem
makes up for it. `Tracked(m)` limits the SMS properties to messages that
carry a text and a timestamp and have no undated twin: the code identifies a
message by its content and says so. `mmRestarts = 0` excludes runs in which MM
has handed out paths again, where the history is not kept (section 5).
`cancelled = {}`, `busFaults = 0`, `lpacFaults <= 1` say which failures
`ReleasedAfterUse`, `SuccessIsReal` and `RolledBack` are about; the properties of the rows name
none. `raced`, `missed`, `muted`, `overdue` and `faults = 0` in `TelegramPush`: where the
function of a timer is already running when its modem returns, the code does call a
present modem offline; where a return finds the channel full or falls between two bots,
the word "offline" stands, and a short absence after it, which the new bot keeps quiet,
does not take it back; a SIM swapped during an absence that was kept quiet is recorded
in silence; and a bot that did not stop within 5 s sends beside the next. `met` and
`crossed` in `Settings`: requests that overlap, which may leave the bot and the table, or
memory and the table, apart (section 5). `unread` and
`unhashed`: a start that could not read the table, after which the bot and the password are
those of `config.yaml` (section 5), until the next PUT or change. `late` and `excused` in
`WsPush`: a close that came after the socket was replaced, and the modems whose newest event
fell into a gap; an event about the same modem, or a fetch, makes up for it, nothing else
does. `unsure` in `ESim`, per profile as well, until the next list. `lost` and `unwritten` in
`Ussd`: what was dropped or not written of the newest event; the next one, which carries the
whole state, makes up for it. `neat` and `astray` in `TelegramChat`: the user waits for the
bot and uses the latest keyboard, and no prompt failed or crossed with one of the other loop
(section 5). A switch is promised to go back once it has run the command that enables the
target; one that fails in the list before does not (section 5).

## 4. Runs

| run | instance | shows |
|---|---|---|
| `sms_reenumeration` | 2 messages with the same sender and text, 3 SMS paths, 2 modem paths, SIM or none, channel of 1 | announced at most once; shown once; history kept |
| `sms_crash_delete` | 2 messages, any two of: a crash, a failing call, a failing transaction, a DELETE | announced messages are in the history; DELETE, in three steps, removes the message that its row showed and no other, on the modem and in the table; `SmsInbox` is implemented |
| `sms_mm_restart` | an inbound and an outbound message without timestamps, one restart of MM | source keys stay unique |
| `sms_live` | 2 messages, a crash, channel of 8 | under fairness: a new message is announced, a listed one filed |
| `sms_path_reuse` | one restart of MM | a violation, section 5 |
| `registry_modems` | 2 modules, one with two identifiers, one at times without IMEI; 3 SIMs, one unreadable; channel of 2; up to 4 of: plug, move a SIM, report, delete, and for two a crash, a restart of MM, a failing call; removals are free | what is listed is online with its SIM; what is not listed is offline without one; a report is filed under the module and SIM it comes from; routes lead to the modem that is there |
| `esim_requests` | 2 requests of any kind, one cancellable, 2 profiles, an lpac fault, a bus fault | lpac alone; MM gets the modem back; rows match the chip, also after faults, from the next list on; only disabled profiles deleted; success is real; a failed switch goes back |
| `esim_live` | 2 requests, 2 cards, a swap, a fault of each kind | under fairness: every request ends, MM gets the modem back |
| `push_offline` | a modem with or without its SIM, a message, 2 bots, up to 4 events and failing pushes, channels of 2 | a message pushed once; no stale "offline"; SIM changes told; under fairness: a queued message is pushed, an absence told |
| `settings` | 2 PUTs, a test, 2 changes of the password, a restart, a failure, also of a read at the start | the bot follows the table; fields are kept; no way back into development mode but an unread table; the password survives |
| `ws_page` | 2 sockets, a modem that may get a SIM, 2 events or quiet changes, logouts, one of: a login, a switch, a visit, a dead link, a failed statement, fetch or upgrade; channels of 1 | one socket; a true status; the view of every modem catches up; under fairness: connections end, the page reconnects |
| `chat` | 2 modems, one with USSD; 2 dialogues, a pushed message, channels of 1, any number of failing writes and prompts, reloads and restarts | the history catches up; what is sent was confirmed, once; words answer what was asked; the network's question reaches the session |

*Why these bounds.* Two messages are enough for one to be taken for another, and
three paths for one of them to drift and the other to keep its own; a third
message would only repeat a confusion of two. A single crash, fault or delete at
any of the steps is every single failure; two failures are combined where they
meet (any two in `sms_crash_delete`, by its action constraint `AnyTwo`; an lpac fault and a bus
fault and a cancellation in `esim_requests`). Two requests contend for a mutex as
any number does (and the theorems of section 6 hold for any number). With two
profiles a switch has something to disable and to go back to. In `push_offline` four
events are two absences of one modem with their returns, or an absence and a return with
a swap; a return that no bot handled shows only at the fourth (`missed`). Modems
share nothing but the loop. Two bots are one that is replaced. In `ws_page` and `chat`
every channel overflows with the second event, and what a third dialogue or a third
change could disturb, the second does. One modem is enough in `ws_page` because an event
changes nothing of another one, neither in the tables nor in the page; that events about
other modems make up for nothing is what the theorem says for any number of them.
`chat` explores its two halves apart (the action constraint `Apart`): the bot never reads
the history, and the history knows nothing of the bot, so that rows are explored while
nobody talks to the bot, and conversations while nothing is written.

`registry_modems` gives the environment a budget instead of a bound for each kind of
event: with four moves a module comes under its second identifier while its first
removal is still queued, a SIM is moved and reported on, a row is deleted between
its removal and its return, a crash falls into any of these.

*Symmetry* permutes messages, which are interchangeable: each is its own
timestamp, senders and texts are equal; and in `settings` the goroutines of one kind.
It is not used in liveness runs.

*Deadlock* is not checked: all environment actions are bounded, and a daemon with
nothing to do waits.

*Fairness.* `SmsPipeline!FairSpec` asks only that the dispatcher and the runner,
goroutines that block on nothing but their channels and on calls with timeouts,
go on when they have something to take. `ESim!FairSpec` asks the same of each
request: lpac and D-Bus calls end within their timeouts (`runner.go:134`,
`inhibit.go:75`), `waitModemRecovery` within 15 s, and Go hands a mutex on.
`TelegramPush!FairSpec`: push loops go on (a push ends, with Telegram's timeout at the
latest) and timers fire. `WsPush!FairSpec`: the goroutines of a connection go on, the
timeout of its request and the reconnect timer of the page fire, the server answers an
upgrade; refusals and dead links are bounded faults. The conversation and the settings
have no liveness property: `Respond` may wait for as long as MM does (`commands.go:303`),
and with it the whole update loop.
Nothing is assumed of MM, of users, of the network: in particular not that a modem
returns. Each request runs once, so that waiting for a mutex is finite under weak
fairness.

Each property of a passing run has a mutant in `PROJECT.json`: a mapped definition
with a mistake in it, under which the run finds the property violated.

## 5. Where the code disagrees with its documentation

- **A restart of MM overwrites messages** (`sms_path_reuse`, `store.go:492`). The
  source key of a row is made of the device and the path; MM numbers paths from
  the beginning again, and a new message then replaces an old row.

The next seven have configurations that show them (`tlc -config <name>.cfg MC...`), but
are not among the runs:

- **A client that leaves keeps MM away from the modem** (`esim_cancel_release`,
  `esim.go:553`, `inhibit.go:104`). `types.go:10` of `esim/` says that every write
  operation inhibits and uninhibits. The last uninhibit runs under the context of
  the request; when that is cancelled it fails with its count already deleted, and
  the deferred second attempt does nothing.
- **A client that leaves prevents the roll-back** (`esim_cancel_rollback`,
  `esim.go:531`). The command that goes back to the previous profile, which the comment
  at `esim.go:529` promises, runs under the cancelled context.
- **Profiles filed under another card** (`esim_swap`, `esim.go:833`). A view of a
  card that has been replaced reads the new card and files its profiles under the
  old one, against `0001_init.sql:74`.
- **Two modems exchange paths, one falls silent** (`registry_path_swap`,
  `mmprovider.go:525`). After a restart of MM, entering a known modem at a new path
  deletes the route of its old path, although another modem may have entered it just
  before. That modem stays listed; its signals and messages are ignored.
- **Overlapping PUTs leave the bot and the table apart** (`settings_overlap`,
  `settings.go:84`). `main.go:205` says that the table overrides; the PUT that saves last need
  not be the one that reloads last, and the bot then runs with what the table no longer
  holds, until the next PUT or restart.
- **A start that cannot read the table undoes what was saved** (`settings_unread`,
  `main.go:235-240`). `main.go:231-232` says that a changed password is in force after a
  restart. When `GetSetting` fails, the error is taken for a missing row: the daemon
  runs with the hash of `config.yaml`, and accepts every password if there is none. The same
  read of the bot's settings (`main.go:207-210`) starts the bot of `config.yaml`.
- **A DELETE after a restart of MM removes another message** (`sms_stale_delete`,
  `sms.go:195-197`). The path that the request has read is that of another message by the
  time it is used, or has been since the row was filed.

And one that every conversation with USSD can meet, without a configuration of its own (take
`~astray` from `QuestionIsMeant`, and the failing prompts from `TelegramChat`, and run `chat`): **prompts of the two loops may cross**
(`commands.go:215-228`, `push.go:97-109`). The user picks a modem for `/ussd`; the step
becomes "text" and the prompt for the command waits for the rate limiter; the network asks
something in a dialogue that is on; the push loop moves the step to "response" and its prompt
appears; then the prompt for the command does. The user, who answers what he sees last, types
a command, and it goes to the network as the answer to its question. A prompt that fails to be
sent has the same effect: its step is there, and the chat shows the prompt before it.

Smaller disagreements between a comment and the code, met on the way: `push.go:211` says
that a modem always has a snapshot when its SIM changes (an absence that was told clears
it, and a new bot has none); `hub.go:7` says that a connection is dropped after two pings
without an answer (`conn.go:99` ends the write loop and closes nothing; the timeout of the
router, `router.go:72`, does); `ussd.go:83-86` counts on the page to learn from the WebSocket
that the network asks (`useWebSocket.ts:174-176` leaves that to the USSD view, which does not
listen).

Not contradicting any text, and so not runs, but visible in the models: a listing
that fails after the current profile was disabled returns without a roll-back
(`esim.go:512`); an InhibitDevice call whose answer is lost keeps MM away from the
modem (`inhibit.go:75`); a queued event resurrects a deleted message
(`sms.go:203`); a message that arrives between AddMatch and the listing is filed
and never announced (`mmprovider.go:382`); a crash between `MarkModemAbsent` and
`UnbindModem` leaves a SIM bound to an offline modem, which the sweep does not look
at (`runner.go:198`, `store.go:156`); a modem first seen without its IMEI can be refused by
the unique index on `device_id` ever after (`store.go:83`); a sweep that finds
nothing listed does not come again (`runner.go:123`); the case of `onPropertiesChanged`
for the Sim interface is never reached, since `byPath` holds paths of modems only
(`mmprovider.go:719`).

## 6. Proofs

All theorems hold for every value of the constants allowed by the `ASSUME`s
(`MsgsAssumption`, `IdsAssumption`, `BoundsAssumption`, `ESimAssumption`,
`PushAssumption`, `SettingsAssumption`, `WsAssumption`, `UssdAssumption`,
`ChatAssumption`, and those that say `None` is nothing else): any number of messages,
paths, requests, profiles, cards, modules, identifiers, SIMs, bots, sockets and
dialogues, and any bounds. The type invariants are theorems and no longer part of the
runs: they hold for every instance.

`SmsStoreProofs` - lemmas about the table: what `Inserted` returns is a table, in
which one row holds the record and every other row was there before with another
source key.

`SmsPipelineProofs`, with `TypeInv` (types and unique source keys) and `PipeInv`
- `TypeCorrect`: `Spec => []TypeOK`; `SourceKeysAreUnique`: `Spec => []SourceKeysUnique`. They
  are one inductive invariant: without unique keys one does not know which row an
  update writes; with them `updateSMSRow` never gives a row the key of another.
- `PipelineInvariance`: `PipeInv == mmRestarts = 0 => World /\ History`. `World` follows a
  message from where it is to where it is told: a path belongs to one message
  (`PathsOK`); signals, reads and events at it are about that message, and once one was
  complete the later ones are (`EventsOK`); a row describes the message of its path
  (`RowsOK`). `History` says that a message with an identity is in
  one row (`OneRow`) and that the row answers for the announcement (`Claims`). Neither half
  stands alone: a claim is safe because the duplicate search finds the row, and it finds
  the row because paths and events have not mixed messages.
- `AnnouncedAtMostOnce`, `AnnouncedIsInHistory`, `MessageShownOnce`, and the action property
  `HistoryKept`, from it.
- `DeletesWhatIsShown` (`DeletesTheMessageShown`), with one more invariant on top: whatever is
  filed, merged or exported while a request is between its steps, the message at the path it
  has read is the one its row showed, and the row of that id, if it is still there, is of that
  message (`Asked`).
- `PipelineImplementsInbox`: `Spec => ImplementsInbox`, without a restart of MM: the initial
  state of every message is one of `SmsInbox`, and every step is a step of it or a stutter.

`ESimProofs`, with `IInv == SystemTypes /\ FlowOK /\ Exclusion`,
`IInv2 == IInv /\ OneEnabled /\ Progress /\ Books` and `IInv3 == IInv2 /\ Doubts /\ Careful`
- `TypeCorrect`, `LpacRunsAlone` (`[]LpacAlone`), `ModemIsReleased`
  (`[]ReleasedAfterUse`), from `IInv`. Neither property is inductive. `Exclusion` adds that whoever is between lock and
  unlock holds the mutex, that whoever uses the chip is the only one counted in the
  inhibitor and MM has let go, that a count belongs to the holder, and that without
  cancellation and bus faults MM is kept away only while there is a count. `FlowOK`
  says a request knows the card it lists profiles for; types need it. The proof
  has a lemma per kind of step: commands on the chip (`SwitchStep`, `WriteStep`,
  `RefreshStep`, all through `ChipStepKeeps`), `LockKeeps`, `InhibitKeeps`,
  `ClosingKeeps`, `DeferredKeeps`, the ends of a request (`UnlockKeeps`) and the
  environment.
- The action properties `AnswersAreTrue` (`SuccessIsReal`) and `SwitchesRollBack`
  (`RolledBack`), from `IInv2` (`BooksInvariance`). Where a request stands tells what it has done
  (`Progress`), and as long as nothing failed the rows differ from the chip by no more than
  what the holder of the mutex has changed since it last listed (`Books`).
- `RowsAgree` (`[]RowsMatchChip`) and `OnlyDisabledAreDeleted` (`[]DeletesDisabledOnly`), from
  `IInv3`, whatever fails, whoever is cancelled and whatever is swapped: a row that is wrong is
  of a profile in `unsure`, or of one that the holder of the mutex has changed and is still
  to list (`Doubts`). That the check of `delete` is still good when lpac runs
  needs all of it: the row agrees with the chip when it is read or is in doubt, and the
  mutex keeps everybody else from the chip until the command (`Careful`).

`ModemRegistryProofs`, with `IInv == TypeOK /\ RoutesAreKnown`, `Phases /\ Homeward`,
`Unmixed == Honesty /\ EventsOf /\ RowsOf` and
`Informed == Apart /\ Silent /\ Heard /\ Tables /\ Continued /\ Foremost`, each inductive on
top of those before
- `TypeCorrect`: `Spec => []TypeOK`. Beside the types it says that the channel keeps
  its capacity, that the caches of the runner hold ids that were handed out (though
  perhaps of rows deleted since), and (`BindingsOK`) that every binding joins a row of
  `modems` and a row of `sims`: the foreign keys, kept by upserts, the removal in two
  transactions, the sweep and both deletes.
- `RoutesAlwaysKnown` (`[]RoutesAreKnown`): each path in `byPath` leads to a modem
  that is listed at that very path. It is inductive given the types; the step that
  matters is `EnterModem`, where a route is dropped that may lead to another modem.
- `PathsLeadHome` (`[]RoutesLeadHome`): about a provider with nothing left to read, so the
  invariant must speak of what it still has to read. `Homeward` says of every object and
  of every signal report in the queue that the announcements before it, at its path,
  end with its modem, or, if there are none, that the reconcile or the map leads to it
  (`Leads`, `Route`). `Phases` lists what has not begun while the provider starts.
- `NoTwoModulesMix` (`[]Unmixed`): what names a module by identifier and by IMEI names one
  module, in objects, signals, entries, events and rows, and the cached ids lead to rows of that
  module. The upsert that matters is the one by IMEI, which gives an existing row another
  identifier while older identifiers still have the row in the cache.
- `SamplesStayHome` (`[]FiledUnderItsModem`): the first of the two parts of
  `FiledWhereMeasured`, from the two before.
- `TheLastWordHolds` (`[]Informed`): the properties below are about a registry with nothing
  left to do, so the invariant must say what its last word on a module will be.
  `Foremost`, on the provider: an object that is there, or that a queued signal is about, is
  what the signals before it at its path end with, or else what is being added, what is
  still to be listed, or the entry itself (`Claim`, `Newest`, `Ends`). `Heard` and `Continued`, on the
  runner: the events of a module, in their order, bring the row and the cached ids to what
  the provider said last, and a change of the SIM and a sample follow on what was
  said before them (`Stand`), so that whoever is at the head of the channel finds the module
  online with the SIM it speaks of. `Tables` (unique keys, and a cache that agrees with
  them) says that the row found is the row meant. `Apart` says that a module has one object
  at a time and `Silent` what the daemon has not done yet while it starts. Modules whose
  events were dropped (`unsure`), and rows that a crash left bound (`scars`), are excused
  here as they are in the properties. TLC checked the parts on the instance of the run first.
- `ModemsThereAreOnline` (`[]ListedIsOnline`), `ModemsGoneAreOffline` (`[]UnlistedIsOffline`) and
  `SamplesFindTheirSim` (`[]FiledWhereMeasured`, whose second part is `FiledUnderItsSim`), from it.

`SettingsProofs`, with `IInv == TypeOK /\ MutexIsHeld /\ SavedInv /\ NoBotInv /\ PutInv /\
ChangeInv /\ HashInv`
- `BotAgreesWithTable` (`[]BotFollowsTable`), `FieldsAlwaysKept` (`[]FieldsAreKept`): from
  `PutInv`. As long as PUTs did not overlap and could read the table there is at most one;
  what it is about to save is its body over the table, what it is about to load is the table,
  and the table holds what was wanted. A start that could not read the table leaves the bot of
  `config.yaml` (`unread`), until a PUT starts another.
- `NoWayBackToDevMode` (`[]DevModeOnlyUnread`): from `HashInv`, which adds that a change on its
  way to memory has a hash in the table; it needs no assumption on crossing changes. A start
  that could not read the hash is the only way back (`unhashed`), and only without one in
  `config.yaml`.
- `PasswordAgreesWithTable` (`[]PasswordSurvives`): from `ChangeInv`, the counterpart of `PutInv`.
- `TypeCorrect`, `MutexHeldRightly`, `SavedBeforeRun` and the action property
  `RefusedOnlyWithoutBot` (`TestRefusedRightly`), from `SavedInv` and `NoBotInv` (why there may be no
  bot): these are proved only, no run repeats them.

`TelegramPushProofs`, with `IInv == TypeOK /\ PendingIsAlive /\ BotsAreBorn` and, on top of it,
`Lifecycle`
- `TypeCorrect`, and `PendingPointsToLive` (`[]PendingIsAlive`): an entry of `pendingOffline`
  is a timer of that bot and modem that waits or whose function has not passed its
  critical section, unless the bot is over. The properties of run `push_offline` rest on it.
  `BotsAreBorn` says that only bots that were started have timers and loops.
- `BotsFollowOneAnother` (`[]Lifecycle`): the live bot is the one the controller holds, a new one
  starts with empty maps, two push loops run at once only when `stop` gave up waiting.
- `MessagesPushedOnce` (`[]SmsPushedOnce`): until it is pushed, a message is once in the channel
  or in the loop, of one bot (`AtMostOnce`).
- `SimsAreTold` (`[]SimIsTold`): what the bot remembers of a SIM was told, or is what its loop
  is about to tell (`SnapTold`).
- `OfflineIsNotTheLastWord` (`[]NoStaleOffline`): departures and returns of a modem alternate,
  from what the bot handled last through its channel to where the modem is (`Alternate`); a modem
  told offline whose return was handled has its "online" on the way (`Fleeting`); and a timer that
  runs or waits tells which of the two it was (`Runs`, `Arms`, `Untold`).
  Attempting this proof showed the property to be false as it stood with four events, and
  led to `missed`.

`WsPushProofs`, with `IInv == TypeOK /\ OnlyCurrent`
- `OneSocket` (`[]SingleSocket`): not inductive by itself, since nothing would stop the page from
  forgetting a socket that still delivers; `OnlyCurrent` says that a socket that connects
  or is open is the page's current one.
- `StatusIsThatOfTheSocket` (`[]StatusIsTrue`), on top of it; and `TypeCorrect`.
- `PageCatchesUp` (`[]ViewCatchesUp`): `NothingIsLost` says of every modem that no gap excuses
  where its row is, if the view does not have it: in the newest event about that modem, in the
  channel of the hub or in that of the connection, or in a fetch that was asked for, or read,
  after it. The lemmas follow an event of one modem past those of the others.

`TelegramChatProofs`, with `IInv == TypeOK /\ Promises`,
`Promises == SummaryOfSession /\ Unsent /\ Pending /\ ConfirmedAsShown`,
`Conversation == Keyboards /\ Crossed /\ Asked /\ Began /\ OnlySms /\ OnItsWay` and
`CaughtUp == Latest /\ HistoryCatchesUp`
- `SendsWhatWasConfirmed` (`[]ConfirmedAsShown`): as long as a summary is in front of the user
  and there is a session for an SMS, it is the summary of that session (`SummaryOfSession`).
  Every step that changes the modem, the number or the text takes the summary away; one that is
  on its way to the chat is that of the session as well (`Pending`); the push loop changes
  only the step of a session.
- `SendsOnce` (`[]SentOnce`): a summary that was confirmed is being sent, or its session is over
  (`Unsent`). `TypeCorrect` includes the types of `Ussd`.
- `WordsAreUnderstood` (`[]QuestionIsMeant`) and `QuestionsReachTheUser` (`[]UserIsAsked`), from
  `Conversation`: the question that belongs to the step of the session is on its way or the last
  one put to the user (`Asked`), unless two were on their way at once or one failed (`Crossed`); the
  keyboard he has in front of him is one of his wizard (`Keyboards`); the session knows the dialogue it
  began (`Began`); and while the network waits its question is at one of the places between its
  signal and the session (`OnItsWay`).
- `HistoryIsBroughtUp` (`[]HistoryCatchesUp`): the last event in the channel is what the provider
  holds, unless one was dropped (`Latest`), and a dialogue of which everything could be written
  leaves no open row behind. The row that `AppendUSSD` writes is the greatest of a finite set, which the proof
  shows to exist by well-founded induction.

Only model-checked, with the reason:
- the liveness properties (`NewMessageIsAnnounced`, `ListedMessageIsFiled`, `ModemGivenBack`,
  `RequestsEnd`, `QueuedSmsIsPushed`, `AbsenceIsTold`, `ConnectionEnds`, `PageReconnects`):
  fairness and `ENABLED` are beyond the prover;
- the properties of the runs with a violation, which do not hold.

## 7. What is not modelled, and the plan

Still to be modelled: a crash of the daemon in `ESim`; sending an SMS from the
web page (`SendSMS` and the row it leaves) in `SmsPipeline`; `NormalizeICCID` (`iccid.go`) as an
operator.

Left out, with the reason: the mock provider (a stand-in without the hazards); parsing and
formatting (`parse.go`, `format.go`, views), hashing, tokens, reading of the
configuration, logging, migrations, the audit log, unit files: no state that steps
of several actors share, and unit tests reach them; the commands of the bot
that only read; `telegram/esim.go`, whose calls into the service are those
that `ESim` has for the web page; the stores of messages and cards in the page, which
fetch what they show.
