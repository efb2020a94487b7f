---------------------------- MODULE TelegramPush ----------------------------
(* The pushes of the Telegram bot (telegram/push.go) and the life of a bot *)
(* (bot.go, controller.go).  A bot subscribes to the events of the runner, *)
(* its push loop handles them one by one, and the removal of a modem only  *)
(* arms a timer: if the modem is back within the grace period, neither its *)
(* absence nor its return is told.  The timer function runs in a goroutine *)
(* of its own, shares two maps with the push loop, and holds their mutex   *)
(* for one map operation at a time.  Controller.Reload stops the bot and   *)
(* starts another, which knows nothing of the first one's timers and maps. *)
EXTENDS Naturals, Sequences

CONSTANTS
    Devs,          \* modems, by device id
    Sims,          \* SIM cards
    Texts,         \* incoming messages
    PushSMS,       \* Texts are pushed: the push_sms of the configuration
    None,          \* no SIM, no message
    Unseen,        \* a modem without a snapshot
    MaxBots,       \* Reload may start this many bots
    MaxSendFaults, \* this many pushes fail, with and without markup
    MaxEvents,     \* events that the runner tells and failed pushes, together
    EventCap       \* capacity of a subscriber's channel (128 in the code)

ASSUME PushAssumption ==
    /\ MaxBots \in Nat /\ MaxEvents \in Nat /\ MaxSendFaults \in Nat
    /\ EventCap \in Nat \ {0}
    /\ PushSMS \in BOOLEAN
    /\ None \notin Sims \cup Texts \cup Devs
    /\ Unseen \notin Sims \cup {None}

VARIABLES
    present, card,    \* the modems that are there and their SIMs
    events, arrived,  \* events told so far; the messages that came
    subs, queue,      \* Runner.subs and the channel of every subscriber
    ctx, loop,        \* of every bot: its context and its push loop
    snap,             \* lastSIMByDevice
    pending, timers,  \* pendingOffline, and the timers it points to
    current, reload,  \* Controller.current, and how far Reload is
    told, toldSim,    \* what the chat was told last about a modem, its SIM
    pushed,           \* how often a message was pushed
    heard,            \* last of "added", "removed" that a bot handled
    faults,           \* failed pushes
    missed,           \* modems one of whose returns no bot handled
    raced,            \* modems that moved while their timer function ran
    muted,            \* modems whose SIM was recorded and not told since
    overdue           \* stop() gave up waiting for a bot

world   == <<present, card, events, arrived, missed>>
maps    == <<snap, pending, timers>>
chat    == <<told, toldSim, pushed, faults>>
control == <<current, reload, overdue>>
vars    == <<world, subs, queue, ctx, loop, maps, control, chat, heard,
             raced, muted>>

Bots  == 1..MaxBots
Event == [kind : {"added", "updated", "removed"}, dev : Devs, sim : Sims \cup {None}, msg : {None}]
         \cup [kind : {"sms"}, dev : Devs, sim : {None}, msg : Texts]
Push  == [kind : {"online", "sim"}, dev : Devs, sim : Sims \cup {None}, msg : {None}]
         \cup [kind : {"sms"}, dev : Devs, sim : {None}, msg : Texts]
Timer == [bot : Bots, dev : Devs,
          at : {"armed", "stopped", "fired", "unlisted", "cleared", "done"}]

Off  == [at |-> "off"]
Idle == [at |-> "idle"]

\* The push loop of bot b is in the handler of an event of modem d.
Handles(b, d) == loop[b].at \notin {"off", "idle"} /\ loop[b].ev.dev = d

\* The function of timer t has passed its look at the context and still has
\* something to do.
Running(t) == t.at \in {"fired", "unlisted", "cleared"}
TimerRuns(d) == \E i \in DOMAIN timers : timers[i].dev = d /\ Running(timers[i])

Init ==
    /\ present \in [Devs -> BOOLEAN]          \* the runner was started before
    /\ card \in [Devs -> Sims \cup {None}]
    /\ \A d \in Devs : present[d] \/ card[d] = None
    /\ events = 0 /\ arrived = {} /\ missed = {}
    /\ subs = {} /\ queue = [b \in Bots |-> <<>>]
    /\ ctx = [b \in Bots |-> "none"]
    /\ loop = [b \in Bots |-> Off]
    /\ snap = [b \in Bots |-> [d \in Devs |-> Unseen]]
    /\ pending = [b \in Bots |-> [d \in Devs |-> 0]]
    /\ timers = <<>>
    /\ current = 0 /\ reload = "starting"     \* main starts the first bot
    /\ told = [d \in Devs |-> "nothing"]
    /\ toldSim = [d \in Devs |-> Unseen]
    /\ pushed = [m \in Texts |-> 0]
    /\ heard = [b \in Bots |-> [d \in Devs |-> "nothing"]]
    /\ faults = 0 /\ raced = {} /\ muted = {}
    /\ overdue = FALSE

-----------------------------------------------------------------------------
(* Runner.fanout: an event goes to every subscriber whose channel has room. *)

Fanout(ev) ==
    /\ events + faults < MaxEvents
    /\ events' = events + 1
    /\ queue' = [b \in Bots |-> IF b \in subs /\ Len(queue[b]) < EventCap
                                THEN Append(queue[b], ev) ELSE queue[b]]
    /\ missed' = IF ev.kind = "added" /\ \A b \in subs : Len(queue[b]) >= EventCap
                 THEN missed \cup {ev.dev} ELSE missed
    /\ UNCHANGED <<subs, ctx, loop, maps, control, chat, heard, muted>>

Moved(d, kind, here, s) ==
    /\ present' = [present EXCEPT ![d] = here]
    /\ card' = [card EXCEPT ![d] = s]
    /\ Fanout([kind |-> kind, dev |-> d, sim |-> s, msg |-> None])
    /\ UNCHANGED <<arrived, raced>>

\* A modem appears, or appears again at another path.
ModemAppears(d) == \E s \in Sims \cup {None} : Moved(d, "added", TRUE, s)
ModemLeaves(d)  == present[d] /\ Moved(d, "removed", FALSE, card[d])
ModemUpdates(d) == present[d] /\ \E s \in Sims \cup {None} : Moved(d, "updated", TRUE, s)

MessageArrives(m) ==
    /\ m \notin arrived
    /\ arrived' = arrived \cup {m}
    /\ \E d \in Devs : Fanout([kind |-> "sms", dev |-> d, sim |-> None, msg |-> m])
    /\ UNCHANGED <<present, card, raced>>

-----------------------------------------------------------------------------
(* The push loop.  An event is taken even after the context was cancelled:  *)
(* select chooses among the cases that are ready.                           *)

Dispatch(b, kind) ==
    /\ loop[b].at = "idle"
    /\ queue[b] # <<>>
    /\ Head(queue[b]).kind = kind
    /\ queue' = [queue EXCEPT ![b] = Tail(@)]
    /\ UNCHANGED <<world, subs, ctx, control, chat, muted>>

\* The event is about d: did it meet a timer function of d?
Meets(d) == raced' = IF TimerRuns(d) THEN raced \cup {d} ELSE raced

Stopped(i) == IF timers[i].at = "armed" THEN [timers[i] EXCEPT !.at = "stopped"]
              ELSE timers[i]

\* case EventSMSReceived: the message itself is sent in a step of its own.
OnSMSReceived(b) ==
    /\ Dispatch(b, "sms")
    /\ LET ev == Head(queue[b]) IN
       loop' = IF PushSMS THEN [loop EXCEPT ![b] = [at |-> "send", ev |-> ev,
                    push |-> [kind |-> "sms", dev |-> ev.dev, sim |-> None, msg |-> ev.msg]]]
               ELSE loop
    /\ UNCHANGED <<maps, heard, raced>>

\* Mutant: the entry is deleted, the timer not stopped.
OnModemAddedForgets(b) ==
    /\ Dispatch(b, "added")
    /\ LET ev == Head(queue[b]) IN
       /\ pending' = [pending EXCEPT ![b][ev.dev] = 0]
       /\ loop' = [loop EXCEPT ![b] = [at |-> "record", ev |-> ev,
                                       quiet |-> pending[b][ev.dev] # 0]]
       /\ heard' = [heard EXCEPT ![b][ev.dev] = "added"]
       /\ Meets(ev.dev)
    /\ UNCHANGED <<snap, timers>>

\* case EventModemAdded, the critical section of cancelPendingOffline: the
\* return is quiet when there was an entry, whether or not Stop was in time.
OnModemAdded(b) ==
    /\ Dispatch(b, "added")
    /\ LET ev == Head(queue[b])
           d  == ev.dev
           i  == pending[b][d] IN
       /\ timers' = IF i # 0 THEN [timers EXCEPT ![i] = Stopped(i)] ELSE timers
       /\ pending' = [pending EXCEPT ![b][d] = 0]
       /\ loop' = [loop EXCEPT ![b] = [at |-> "record", ev |-> ev, quiet |-> i # 0]]
       /\ heard' = [heard EXCEPT ![b][d] = "added"]
       /\ Meets(d)
    /\ UNCHANGED snap

\* Mutant: with an entry the old timer is stopped, and no new one armed.
OnModemRemovedKeeps(b) ==
    /\ Dispatch(b, "removed")
    /\ LET d == Head(queue[b]).dev
           i == pending[b][d] IN
       /\ timers' = IF i # 0 THEN [timers EXCEPT ![i] = Stopped(i)]
                    ELSE Append(timers, [bot |-> b, dev |-> d, at |-> "armed"])
       /\ pending' = [pending EXCEPT ![b][d] = IF i # 0 THEN i ELSE Len(timers) + 1]
       /\ heard' = [heard EXCEPT ![b][d] = "removed"]
       /\ Meets(d)
    /\ UNCHANGED <<snap, loop>>

\* case EventModemRemoved, scheduleOffline.
OnModemRemoved(b) ==
    /\ Dispatch(b, "removed")
    /\ LET d   == Head(queue[b]).dev
           i   == pending[b][d]
           old == IF i # 0 THEN [timers EXCEPT ![i] = Stopped(i)] ELSE timers IN
       /\ timers' = Append(old, [bot |-> b, dev |-> d, at |-> "armed"])
       /\ pending' = [pending EXCEPT ![b][d] = Len(timers) + 1]
       /\ heard' = [heard EXCEPT ![b][d] = "removed"]
       /\ Meets(d)
    /\ UNCHANGED <<snap, loop>>

\* case EventModemUpdated: hasPendingOffline decides, then the mutex is free
\* until recordSIMSnapshot or handleSIMDiff takes it.
OnModemUpdated(b) ==
    /\ Dispatch(b, "updated")
    /\ LET ev == Head(queue[b]) IN
       /\ loop' = [loop EXCEPT ![b] =
                     IF pending[b][ev.dev] # 0 THEN [at |-> "record", ev |-> ev, quiet |-> TRUE]
                     ELSE [at |-> "diff", ev |-> ev]]
       /\ Meets(ev.dev)
    /\ UNCHANGED <<maps, heard>>

SendPush(b, kind) ==
    [loop EXCEPT ![b] = [at |-> "send", ev |-> loop[b].ev,
        push |-> [kind |-> kind, dev |-> loop[b].ev.dev, sim |-> loop[b].ev.sim, msg |-> None]]]

\* recordSIMSnapshot, after which a return that is not quiet is told.
RecordSIMSnapshot(b) ==
    /\ loop[b].at = "record"
    /\ LET ev == loop[b].ev IN
       /\ snap' = [snap EXCEPT ![b][ev.dev] = ev.sim]
       /\ muted' = IF loop[b].quiet /\ snap[b][ev.dev] # ev.sim THEN muted \cup {ev.dev} ELSE muted
       /\ loop' = IF loop[b].quiet THEN [loop EXCEPT ![b] = Idle] ELSE SendPush(b, "online")
    /\ UNCHANGED <<world, subs, queue, ctx, pending, timers, control, chat, heard, raced>>

\* Mutant: an inserted SIM is recorded and not told.
HandleSIMDiffInserted(b) ==
    /\ loop[b].at = "diff"
    /\ LET ev   == loop[b].ev
           prev == snap[b][ev.dev] IN
       /\ snap' = [snap EXCEPT ![b][ev.dev] = ev.sim]
       /\ muted' = IF prev = Unseen THEN muted \cup {ev.dev} ELSE muted
       /\ loop' = IF prev \in {Unseen, None, ev.sim} THEN [loop EXCEPT ![b] = Idle]
                  ELSE SendPush(b, "sim")
    /\ UNCHANGED <<world, subs, queue, ctx, pending, timers, control, chat, heard, raced>>

\* Mutant: the first sight of a modem ends the push loop.
HandleSIMDiffReturns(b) ==
    /\ loop[b].at = "diff"
    /\ LET ev == loop[b].ev IN
       /\ snap' = [snap EXCEPT ![b][ev.dev] = ev.sim]
       /\ loop' = [loop EXCEPT ![b] = IF snap[b][ev.dev] = Unseen THEN Off ELSE Idle]
    /\ UNCHANGED <<world, subs, queue, ctx, pending, timers, control, chat, heard, raced, muted>>

\* handleSIMDiff: the first sight of a modem is only recorded.
HandleSIMDiff(b) ==
    /\ loop[b].at = "diff"
    /\ LET ev   == loop[b].ev
           prev == snap[b][ev.dev] IN
       /\ snap' = [snap EXCEPT ![b][ev.dev] = ev.sim]
       /\ muted' = IF prev = Unseen THEN muted \cup {ev.dev} ELSE muted
       /\ loop' = IF prev \in {Unseen, ev.sim} THEN [loop EXCEPT ![b] = Idle]
                  ELSE SendPush(b, "sim")
    /\ UNCHANGED <<world, subs, queue, ctx, pending, timers, control, chat, heard, raced>>

\* sendPushText or sendMessage: the chat gets the message.
Send(b) ==
    /\ loop[b].at = "send"
    /\ LET p == loop[b].push IN
       /\ told' = IF p.kind = "online" THEN [told EXCEPT ![p.dev] = "online"] ELSE told
       /\ toldSim' = IF p.kind = "sms" THEN toldSim ELSE [toldSim EXCEPT ![p.dev] = p.sim]
       /\ pushed' = IF p.kind = "sms" THEN [pushed EXCEPT ![p.msg] = @ + 1] ELSE pushed
       /\ muted' = IF p.kind = "sms" THEN muted ELSE muted \ {p.dev}
    /\ loop' = [loop EXCEPT ![b] = Idle]
    /\ UNCHANGED <<world, subs, queue, ctx, maps, control, heard, faults, raced>>

SendFault == /\ faults < MaxSendFaults /\ events + faults < MaxEvents
             /\ faults' = faults + 1

\* Both attempts of sendPushText fail: the push is lost.
SendFails(b) ==
    /\ loop[b].at = "send"
    /\ SendFault
    /\ loop' = [loop EXCEPT ![b] = Idle]
    /\ UNCHANGED <<world, subs, queue, ctx, maps, control, told, toldSim, pushed, heard, raced, muted>>

\* The push loop sees that its context was cancelled, and unsubscribes.
LoopEnds(b) ==
    /\ loop[b].at = "idle"
    /\ ctx[b] = "cancelled"
    /\ loop' = [loop EXCEPT ![b] = Off]
    /\ subs' = subs \ {b}
    /\ queue' = [queue EXCEPT ![b] = <<>>]
    /\ missed' = missed \cup {d \in Devs : \E i \in DOMAIN queue[b] :
                                queue[b][i].kind = "added" /\ queue[b][i].dev = d}
    /\ UNCHANGED <<present, card, events, arrived, ctx, maps, control, chat, heard, raced, muted>>

-----------------------------------------------------------------------------
(* The function of timer i, step by step.                                   *)

TimerStep(i, from, to) ==
    /\ timers[i].at = from
    /\ timers' = [timers EXCEPT ![i].at = to]
    /\ UNCHANGED <<world, subs, queue, ctx, loop, control, heard, raced, muted>>

\* The grace period is over; the function ends at once when the bot ended.
TimerFires(i) ==
    /\ TimerStep(i, "armed", IF ctx[timers[i].bot] = "live" THEN "fired" ELSE "done")
    /\ UNCHANGED <<chat, snap, pending>>

\* delete(b.pendingOffline, deviceID), whichever timer the entry points to.
TimerUnlists(i) ==
    /\ TimerStep(i, "fired", "unlisted")
    /\ pending' = [pending EXCEPT ![timers[i].bot][timers[i].dev] = 0]
    /\ UNCHANGED <<chat, snap>>

\* lookupNickname, then clearSIMSnapshot.
TimerClears(i) ==
    /\ TimerStep(i, "unlisted", "cleared")
    /\ snap' = [snap EXCEPT ![timers[i].bot][timers[i].dev] = Unseen]
    /\ UNCHANGED <<chat, pending>>

\* sendPushText(formatModemOffline).
TimerSends(i) ==
    /\ TimerStep(i, "cleared", "done")
    /\ told' = [told EXCEPT ![timers[i].dev] = "offline"]
    /\ UNCHANGED <<toldSim, pushed, faults, snap, pending>>

TimerSendFails(i) ==
    /\ TimerStep(i, "cleared", "done")
    /\ SendFault
    /\ UNCHANGED <<told, toldSim, pushed, snap, pending>>

-----------------------------------------------------------------------------
(* Controller.Reload, under its mutex.                                      *)

Born == {b \in Bots : ctx[b] # "none"}

\* bot.stop: the context is cancelled, then the goroutines are waited for.
Reload ==
    /\ reload = "no"
    /\ Born # Bots
    /\ ctx' = IF current = 0 THEN ctx ELSE [ctx EXCEPT ![current] = "cancelled"]
    /\ reload' = IF current = 0 THEN "starting" ELSE "stopping"
    /\ UNCHANGED <<world, subs, queue, loop, maps, current, overdue, chat, heard, raced, muted>>

\* Mutant: the goroutines are not waited for.
StopReturnsEarly ==
    /\ reload = "stopping"
    /\ reload' = "starting" /\ current' = 0
    /\ UNCHANGED <<world, subs, queue, ctx, loop, maps, overdue, chat, heard, raced, muted>>

StopReturns ==
    /\ reload = "stopping"
    /\ loop[current].at = "off"
    /\ reload' = "starting" /\ current' = 0
    /\ UNCHANGED <<world, subs, queue, ctx, loop, maps, overdue, chat, heard, raced, muted>>

\* The push loop waits for Telegram for more than 5 s.
StopTimesOut ==
    /\ reload = "stopping"
    /\ loop[current].at = "send"
    /\ reload' = "starting" /\ current' = 0
    /\ overdue' = TRUE
    /\ UNCHANGED <<world, subs, queue, ctx, loop, maps, chat, heard, raced, muted>>

\* startLocked, newBot, run: fresh maps and a subscription of its own.
StartBot ==
    /\ reload = "starting"
    /\ \E b \in Bots \ Born :
          /\ \A c \in Bots : c < b => c \in Born
          /\ ctx' = [ctx EXCEPT ![b] = "live"]
          /\ loop' = [loop EXCEPT ![b] = Idle]
          /\ subs' = subs \cup {b}
          /\ current' = b
    /\ reload' = "no"
    /\ UNCHANGED <<world, queue, maps, overdue, chat, heard, raced, muted>>

\* No token, or Telegram does not answer: there is no bot.
StartFails ==
    /\ reload = "starting"
    /\ reload' = "no"
    /\ UNCHANGED <<world, subs, queue, ctx, loop, maps, current, overdue, chat, heard, raced, muted>>

-----------------------------------------------------------------------------
World == \/ \E d \in Devs : ModemAppears(d) \/ ModemLeaves(d) \/ ModemUpdates(d)
         \/ \E m \in Texts : MessageArrives(m)

LoopStep(b) == \/ OnSMSReceived(b) \/ OnModemAdded(b) \/ OnModemRemoved(b)
               \/ OnModemUpdated(b) \/ RecordSIMSnapshot(b) \/ HandleSIMDiff(b)
               \/ Send(b) \/ SendFails(b) \/ LoopEnds(b)

TimerRun(i) == \/ TimerFires(i) \/ TimerUnlists(i) \/ TimerClears(i)
               \/ TimerSends(i) \/ TimerSendFails(i)

Next == \/ World
        \/ \E b \in Bots : LoopStep(b)
        \/ \E i \in DOMAIN timers : TimerRun(i)
        \/ Reload \/ StopReturns \/ StopTimesOut \/ StartBot \/ StartFails

Spec == Init /\ [][Next]_vars

\* The goroutines of a bot run, and timers fire; nothing makes a modem move
\* or a configuration change.  A timer makes few steps and few are armed, so
\* that each gets to its end when some timer always goes on.
FairSpec == /\ Spec
            /\ \A b \in Bots : WF_vars(LoopStep(b))
            /\ WF_vars(\E i \in DOMAIN timers : TimerRun(i))

-----------------------------------------------------------------------------
(* Every variable has its type.  An entry of pendingOffline is a timer of   *)
(* that bot and modem which has not removed it.                             *)
TypeOK ==
    /\ present \in [Devs -> BOOLEAN]
    /\ card \in [Devs -> Sims \cup {None}]
    /\ events \in 0..MaxEvents /\ arrived \subseteq Texts /\ missed \subseteq Devs
    /\ subs \subseteq Bots
    /\ queue \in [Bots -> Seq(Event)] /\ \A b \in Bots : Len(queue[b]) <= EventCap
    /\ ctx \in [Bots -> {"none", "live", "cancelled"}]
    /\ loop \in [Bots -> {Off, Idle}
                         \cup [at : {"record"}, ev : Event, quiet : BOOLEAN]
                         \cup [at : {"diff"}, ev : Event]
                         \cup [at : {"send"}, ev : Event, push : Push]]
    /\ snap \in [Bots -> [Devs -> Sims \cup {None, Unseen}]]
    /\ timers \in Seq(Timer)
    /\ pending \in [Bots -> [Devs -> 0..Len(timers)]]
    /\ current \in {0} \cup Bots
    /\ reload \in {"no", "stopping", "starting"}
    /\ told \in [Devs -> {"nothing", "online", "offline"}]
    /\ toldSim \in [Devs -> Sims \cup {None, Unseen}]
    /\ pushed \in [Texts -> Nat]
    /\ heard \in [Bots -> [Devs -> {"nothing", "added", "removed"}]]
    /\ faults \in 0..MaxSendFaults
    /\ raced \subseteq Devs /\ muted \subseteq Devs /\ overdue \in BOOLEAN

(* An incoming message is pushed once: bots do not overlap, because stop    *)
(* waits for the push loop of the old one, unless it gave up waiting.       *)
SmsPushedOnce == overdue \/ \A m \in Texts : pushed[m] <= 1

(* "Offline" is not the last word about a modem that came back: a return is *)
(* kept quiet only when the absence was.  Not promised when the timer       *)
(* function was already running as the modem returned (Stop comes too       *)
(* late), when an earlier return reached no bot (the channel was full, or   *)
(* the bot was being replaced: its successor takes the next absence for the *)
(* first one), when a push failed or a stopped bot still sends.             *)
NoStaleOffline ==
    \A d \in Devs :
      (/\ current # 0 /\ told[d] = "offline" /\ heard[current][d] = "added"
       /\ d \notin raced \cup missed /\ faults = 0 /\ ~overdue)
      => Handles(current, d)

(* What the bot takes for the SIM of a modem is what the chat was told: no  *)
(* change is recorded without being told, except the first sight of a modem *)
(* by a bot, and one during an absence that was kept quiet.                 *)
SimIsTold ==
    \A d \in Devs :
      (/\ current # 0 /\ snap[current][d] # Unseen
       /\ ~Handles(current, d)
       /\ d \notin muted /\ faults = 0 /\ ~overdue)
      => snap[current][d] = toldSim[d]

(* An entry of pendingOffline never points to a timer that is over, so that *)
(* a later return is not kept quiet after its absence was told; nor to one  *)
(* that was stopped, so that SIM changes are not swallowed for ever.        *)
PendingIsAlive ==
    \A b \in Bots, d \in Devs :
      pending[b][d] # 0 =>
        LET t == timers[pending[b][d]] IN
        /\ t.bot = b /\ t.dev = d
        /\ t.at \in {"armed", "fired"} \/ ctx[b] = "cancelled"

(* A message that waits in the channel of a bot is pushed, unless the bot   *)
(* is stopped or the push fails.                                            *)
QueuedSmsIsPushed ==
    \A m \in Texts : \A b \in Bots :
      (\E i \in DOMAIN queue[b] : queue[b][i].msg = m)
      ~> (pushed[m] > 0 \/ ctx[b] = "cancelled" \/ faults > 0)

(* A modem that a bot saw leave, and that stays away, is told to be         *)
(* offline: no timer is lost, however often the modem came and went before, *)
(* unless a push fails or a stopped bot contradicts it afterwards.          *)
AbsenceIsTold ==
    \A d \in Devs : \A b \in Bots :
      heard[b][d] = "removed"
      ~> \/ told[d] = "offline" \/ heard[b][d] # "removed"
         \/ ctx[b] = "cancelled" \/ faults > 0 \/ overdue

=============================================================================
