------------------------- MODULE TelegramPushProofs -------------------------
(* Every safety property of TelegramPush, for any number of modems, bots,  *)
(* timers, events and failures.  pendingOffline never points to a timer    *)
(* that is over (IInv): inductive once a timer is known to belong to a bot *)
(* that was started, so that a context that is not live was cancelled.     *)
(* Bots follow one another (Lifecycle), and on that rest the other three:  *)
(* a message is in one channel or loop until it is pushed (Once), the SIM  *)
(* that a bot remembers was told or is about to be (SnapTold), and what a  *)
(* modem does next is the opposite of what it did last (Stories).          *)
EXTENDS TelegramPush, TLAPS, SequenceTheorems

Works == [at : {"record"}, ev : Event, quiet : BOOLEAN]
         \cup [at : {"diff"}, ev : Event]
         \cup [at : {"send"}, ev : Event, push : Push]

-----------------------------------------------------------------------------
(* Where the push loop of a bot can be.                                     *)
LEMMA LoopIsTyped ==
    ASSUME TypeOK, NEW b \in Bots
    PROVE  /\ loop[b] \in {Off, Idle} \cup Works
           /\ loop[b].at \in {"record", "diff", "send"} => loop[b].ev \in Event
           /\ loop[b].at = "record" => loop[b].quiet \in BOOLEAN
           /\ loop[b].at = "send" => loop[b].push \in Push
<1>1. loop[b] \in {Off, Idle} \cup Works
  BY DEF TypeOK, Works
<1>2. CASE loop[b] \in {Off, Idle}
  BY <1>1, <1>2 DEF Off, Idle
<1>3. CASE loop[b] \in Works
  BY <1>1, <1>3 DEF Works
<1> QED
  BY <1>1, <1>2, <1>3

LEMMA EventIsTyped ==
    ASSUME NEW ev \in Event
    PROVE  /\ ev.dev \in Devs /\ ev.sim \in Sims \cup {None}
           /\ ev.kind = "sms" => ev.msg \in Texts
BY DEF Event

LEMMA PushIsTyped ==
    ASSUME NEW p \in Push
    PROVE  /\ p.dev \in Devs /\ p.sim \in Sims \cup {None}
           /\ p.kind = "sms" => p.msg \in Texts
BY DEF Push

(* Setting the loop of a bot.                                               *)
LEMMA LoopSet ==
    ASSUME TypeOK, NEW b \in Bots, NEW w \in {Off, Idle} \cup Works,
           loop' = [loop EXCEPT ![b] = w]
    PROVE  loop' \in [Bots -> {Off, Idle} \cup Works]
<1>1. loop \in [Bots -> {Off, Idle} \cup Works]
  BY DEF TypeOK, Works
<1> QED
  BY <1>1

(* A subscriber's channel after an event, and after one was taken.          *)
LEMMA QueueTaken ==
    ASSUME TypeOK, NEW b \in Bots, queue[b] # <<>>,
           queue' = [queue EXCEPT ![b] = Tail(@)]
    PROVE  /\ queue' \in [Bots -> Seq(Event)] /\ \A c \in Bots : Len(queue'[c]) <= EventCap
           /\ Head(queue[b]) \in Event
<1>1. /\ queue \in [Bots -> Seq(Event)] /\ \A c \in Bots : Len(queue[c]) <= EventCap
      /\ queue[b] \in Seq(Event) /\ EventCap \in Nat
  BY PushAssumption DEF TypeOK
<1>2. /\ Tail(queue[b]) \in Seq(Event) /\ Len(Tail(queue[b])) = Len(queue[b]) - 1
      /\ Head(queue[b]) \in Event /\ Len(queue[b]) \in Nat
  BY <1>1, HeadTailProperties, LenProperties
<1>3. queue' \in [Bots -> Seq(Event)]
  BY <1>1, <1>2
<1>4. \A c \in Bots : Len(queue'[c]) <= EventCap
  BY <1>1, <1>2
<1> QED
  BY <1>2, <1>3, <1>4

LEMMA QueueFilled ==
    ASSUME TypeOK, NEW ev \in Event, Fanout(ev)
    PROVE  queue' \in [Bots -> Seq(Event)] /\ \A c \in Bots : Len(queue'[c]) <= EventCap
<1>1. /\ queue \in [Bots -> Seq(Event)] /\ \A c \in Bots : Len(queue[c]) <= EventCap
      /\ EventCap \in Nat
  BY PushAssumption DEF TypeOK
<1>2. \A c \in Bots : /\ Append(queue[c], ev) \in Seq(Event)
                      /\ Len(Append(queue[c], ev)) = Len(queue[c]) + 1
                      /\ Len(queue[c]) \in Nat
  BY <1>1, AppendProperties, LenProperties
<1>3. queue' = [b \in Bots |-> IF b \in subs /\ Len(queue[b]) < EventCap
                               THEN Append(queue[b], ev) ELSE queue[b]]
  BY DEF Fanout
<1>4. \A c \in Bots : queue'[c] \in Seq(Event)
  BY <1>1, <1>2, <1>3
<1>5. \A c \in Bots : Len(queue'[c]) <= EventCap
  BY <1>1, <1>2, <1>3
<1> QED
  BY <1>3, <1>4, <1>5

-----------------------------------------------------------------------------
(* The timers.                                                              *)
Ticks == {"armed", "stopped", "fired", "unlisted", "cleared", "done"}

LEMMA TimersAreTyped ==
    ASSUME TypeOK
    PROVE  /\ Len(timers) \in Nat /\ DOMAIN timers = 1..Len(timers)
           /\ timers \in [1..Len(timers) -> Timer]
           /\ \A i \in DOMAIN timers : timers[i] \in Timer
           /\ \A b \in Bots, d \in Devs : pending[b][d] \in 0..Len(timers)
BY LenProperties, ElementOfSeq DEF TypeOK

LEMMA TimerIsTyped ==
    ASSUME NEW t \in Timer
    PROVE  t.bot \in Bots /\ t.dev \in Devs /\ t.at \in Ticks
BY DEF Timer, Ticks

(* One timer moves: it keeps its bot and its modem, the others all.         *)
Ticked(i, at, new) ==
    /\ new \in Seq(Timer) /\ Len(new) = Len(timers) /\ DOMAIN new = DOMAIN timers
    /\ new[i].bot = timers[i].bot /\ new[i].dev = timers[i].dev /\ new[i].at = at
    /\ \A j \in DOMAIN timers \ {i} : new[j] = timers[j]

LEMMA TimerTicks ==
    ASSUME TypeOK, NEW i \in DOMAIN timers, NEW at \in Ticks
    PROVE  Ticked(i, at, [timers EXCEPT ![i].at = at])
<1> DEFINE t == [timers[i] EXCEPT !.at = at]
<1>1. t \in Timer /\ t.bot = timers[i].bot /\ t.dev = timers[i].dev /\ t.at = at
  BY TimersAreTyped DEF Timer, Ticks
<1>2. [timers EXCEPT ![i].at = at] = [timers EXCEPT ![i] = t]
  OBVIOUS
<1> HIDE DEF t
<1>3. timers \in Seq(Timer) /\ i \in 1..Len(timers)
  BY TimersAreTyped DEF TypeOK
<1>4. /\ [timers EXCEPT ![i] = t] \in Seq(Timer)
      /\ Len([timers EXCEPT ![i] = t]) = Len(timers)
  BY <1>1, <1>3, ExceptSeq
<1>5. DOMAIN [timers EXCEPT ![i] = t] = DOMAIN timers
  OBVIOUS
<1> QED
  BY <1>1, <1>2, <1>4, <1>5 DEF Ticked

(* Stop: the timer of an entry, when it has not fired.                      *)
LEMMA TimerStops ==
    ASSUME TypeOK, NEW i \in DOMAIN timers
    PROVE  \E at \in Ticks : Ticked(i, at, [timers EXCEPT ![i] = Stopped(i)])
<1>1. CASE timers[i].at = "armed"
  <2>1. [timers EXCEPT ![i] = Stopped(i)] = [timers EXCEPT ![i].at = "stopped"]
    BY <1>1 DEF Stopped
  <2> QED
    BY <2>1, TimerTicks DEF Ticks
<1>2. CASE timers[i].at # "armed"
  <2>1. [timers EXCEPT ![i] = Stopped(i)] = timers
    BY <1>2, TimersAreTyped DEF Stopped
  <2>2. timers[i].at \in Ticks
    BY TimersAreTyped, TimerIsTyped
  <2> QED
    BY <2>1, <2>2 DEF Ticked, TypeOK
<1> QED
  BY <1>1, <1>2

-----------------------------------------------------------------------------
(* A timer belongs to a bot that was started, and so does a push loop.      *)
BotsAreBorn ==
    /\ \A i \in DOMAIN timers : ctx[timers[i].bot] # "none"
    /\ \A b \in Bots : loop[b].at # "off" => ctx[b] # "none"

IInv == TypeOK /\ PendingIsAlive /\ BotsAreBorn

LEMMA InitHolds == Init => IInv
<1> SUFFICES ASSUME Init PROVE IInv
  OBVIOUS
<1> USE PushAssumption
<1>1. timers \in Seq(Timer) /\ Len(timers) = 0 /\ DOMAIN timers = {}
  BY EmptySeq DEF Init
<1>2. queue \in [Bots -> Seq(Event)] /\ \A b \in Bots : Len(queue[b]) <= EventCap
  BY EmptySeq DEF Init
<1>3. /\ snap \in [Bots -> [Devs -> Sims \cup {None, Unseen}]]
      /\ pending \in [Bots -> [Devs -> 0..Len(timers)]]
      /\ heard \in [Bots -> [Devs -> {"nothing", "added", "removed"}]]
  BY <1>1 DEF Init
<1>4. TypeOK
  <2>1. /\ loop \in [Bots -> {Off, Idle} \cup Works]
        /\ ctx \in [Bots -> {"none", "live", "cancelled"}]
    BY DEF Init
  <2>2. /\ told \in [Devs -> {"nothing", "online", "offline"}]
        /\ toldSim \in [Devs -> Sims \cup {None, Unseen}]
        /\ pushed \in [Texts -> Nat]
    BY DEF Init
  <2>3. events \in 0..MaxEvents /\ faults \in 0..MaxSendFaults
    BY DEF Init
  <2>5. /\ arrived \subseteq Texts /\ missed \subseteq Devs /\ subs \subseteq Bots
        /\ raced \subseteq Devs /\ muted \subseteq Devs
    BY DEF Init
  <2>6. /\ overdue \in BOOLEAN
        /\ current \in {0} \cup Bots /\ reload \in {"no", "stopping", "starting"}
    BY DEF Init
  <2>4. present \in [Devs -> BOOLEAN] /\ card \in [Devs -> Sims \cup {None}]
    BY DEF Init
  <2> QED
    BY <1>1, <1>2, <1>3, <2>1, <2>2, <2>3, <2>4, <2>5, <2>6 DEF TypeOK, Works
<1>5. PendingIsAlive
  BY DEF Init, PendingIsAlive
<1>6. BotsAreBorn
  BY <1>1 DEF Init, BotsAreBorn, Off
<1> QED
  BY <1>4, <1>5, <1>6 DEF IInv

(* What the runner tells only fills channels.                               *)
LEMMA WorldKeeps ==
    ASSUME IInv, World
    PROVE  IInv'
<1>1. PICK ev \in Event :
         /\ Fanout(ev) /\ UNCHANGED raced
         /\ present' \in [Devs -> BOOLEAN] /\ card' \in [Devs -> Sims \cup {None}]
         /\ arrived' \subseteq Texts
  <2>1. ASSUME NEW d \in Devs, NEW kind \in {"added", "updated", "removed"},
               NEW here \in BOOLEAN, NEW s \in Sims \cup {None}, Moved(d, kind, here, s)
        PROVE  \E ev \in Event :
                 /\ Fanout(ev) /\ UNCHANGED raced
                 /\ present' \in [Devs -> BOOLEAN] /\ card' \in [Devs -> Sims \cup {None}]
                 /\ arrived' \subseteq Texts
    <3>1. [kind |-> kind, dev |-> d, sim |-> s, msg |-> None] \in Event
      BY DEF Event
    <3>2. present' \in [Devs -> BOOLEAN] /\ card' \in [Devs -> Sims \cup {None}]
      BY <2>1 DEF Moved, IInv, TypeOK
    <3>3. arrived' \subseteq Texts
      BY <2>1 DEF Moved, IInv, TypeOK
    <3> QED
      BY <2>1, <3>1, <3>2, <3>3 DEF Moved
  <2>2. ASSUME NEW m \in Texts, MessageArrives(m)
        PROVE  \E ev \in Event :
                 /\ Fanout(ev) /\ UNCHANGED raced
                 /\ present' \in [Devs -> BOOLEAN] /\ card' \in [Devs -> Sims \cup {None}]
                 /\ arrived' \subseteq Texts
    <3>1. \A d \in Devs : [kind |-> "sms", dev |-> d, sim |-> None, msg |-> m] \in Event
      BY DEF Event
    <3> QED
      BY <2>2, <3>1 DEF MessageArrives, IInv, TypeOK
  <2>3. \A d \in Devs : card[d] \in Sims \cup {None}
    BY DEF IInv, TypeOK
  <2> QED
    BY <2>1, <2>2, <2>3 DEF World, ModemAppears, ModemLeaves, ModemUpdates
<1>2. events' \in 0..MaxEvents
  <2>1. /\ events \in 0..MaxEvents /\ faults \in 0..MaxSendFaults
        /\ MaxEvents \in Nat /\ MaxSendFaults \in Nat
        /\ events + faults < MaxEvents /\ events' = events + 1
    BY <1>1, PushAssumption DEF Fanout, IInv, TypeOK
  <2> QED
    BY <2>1
<1>4. missed' \subseteq Devs
  BY <1>1, EventIsTyped DEF Fanout, IInv, TypeOK
<1>5. TypeOK'
  BY <1>1, <1>2, <1>4, QueueFilled DEF Fanout, maps, control, chat, IInv, TypeOK
<1>3. PendingIsAlive' /\ BotsAreBorn'
  BY <1>1 DEF Fanout, maps, IInv, PendingIsAlive, BotsAreBorn
<1> QED
  BY <1>3, <1>5 DEF IInv

-----------------------------------------------------------------------------
(* The push loop of one bot.                                                *)

(* An event is taken: what is typed afterwards, whatever is done with it.   *)
LEMMA Dispatched ==
    ASSUME IInv, NEW b \in Bots, NEW kind, Dispatch(b, kind)
    PROVE  /\ queue' \in [Bots -> Seq(Event)] /\ \A c \in Bots : Len(queue'[c]) <= EventCap
           /\ Head(queue[b]) \in Event /\ Head(queue[b]).dev \in Devs
           /\ loop[b].at = "idle" /\ ctx[b] # "none"
           /\ kind = "sms" => Head(queue[b]).msg \in Texts
           /\ UNCHANGED <<world, subs, ctx, control, chat, muted>>
<1>1. /\ queue[b] # <<>> /\ queue' = [queue EXCEPT ![b] = Tail(@)]
      /\ loop[b].at = "idle" /\ Head(queue[b]).kind = kind
      /\ UNCHANGED <<world, subs, ctx, control, chat, muted>>
  BY DEF Dispatch
<1>2. /\ queue' \in [Bots -> Seq(Event)] /\ \A c \in Bots : Len(queue'[c]) <= EventCap
      /\ Head(queue[b]) \in Event
  BY <1>1, QueueTaken DEF IInv
<1>3. ctx[b] # "none"
  BY <1>1 DEF IInv, BotsAreBorn
<1> QED
  BY <1>1, <1>2, <1>3, EventIsTyped

LEMMA MeetsTyped ==
    ASSUME TypeOK, NEW d \in Devs, Meets(d)
    PROVE  raced' \subseteq Devs
BY DEF TypeOK, Meets

LEMMA HeardTyped ==
    ASSUME TypeOK, NEW b \in Bots, NEW d \in Devs, NEW k \in {"added", "removed"},
           heard' = [heard EXCEPT ![b][d] = k]
    PROVE  heard' \in [Bots -> [Devs -> {"nothing", "added", "removed"}]]
BY DEF TypeOK

LEMMA SnapTyped ==
    ASSUME TypeOK, NEW b \in Bots, NEW d \in Devs, NEW s \in Sims \cup {None, Unseen},
           snap' = [snap EXCEPT ![b][d] = s]
    PROVE  snap' \in [Bots -> [Devs -> Sims \cup {None, Unseen}]]
BY DEF TypeOK

(* Only the loop, the channels and what was told change.                    *)
LEMMA LoopMovesKeeps ==
    ASSUME IInv, NEW b \in Bots, NEW w \in {Off, Idle} \cup Works,
           loop' = [loop EXCEPT ![b] = w],
           w.at # "off" => ctx[b] # "none",
           UNCHANGED <<ctx, pending, timers>>
    PROVE  PendingIsAlive' /\ BotsAreBorn'
<1>1. PendingIsAlive'
  BY DEF IInv, PendingIsAlive
<1>2. loop \in [Bots -> {Off, Idle} \cup Works]
  BY DEF IInv, TypeOK, Works
<1>3. \A c \in Bots : loop'[c].at # "off" => ctx[c] # "none"
  BY <1>2 DEF IInv, BotsAreBorn
<1>4. BotsAreBorn'
  BY <1>3 DEF IInv, BotsAreBorn
<1> QED
  BY <1>1, <1>4

LEMMA SendPushTyped ==
    ASSUME TypeOK, NEW b \in Bots, loop[b].at \in {"record", "diff"},
           NEW kind \in {"online", "sim"}
    PROVE  \E w \in Works : SendPush(b, kind) = [loop EXCEPT ![b] = w] /\ w.at = "send"
<1> DEFINE ev == loop[b].ev
<1> DEFINE p  == [kind |-> kind, dev |-> ev.dev, sim |-> ev.sim, msg |-> None]
<1> DEFINE w  == [at |-> "send", ev |-> ev, push |-> p]
<1>1. ev \in Event
  BY LoopIsTyped
<1>2. p \in Push
  BY <1>1, EventIsTyped DEF Push
<1>3. w \in Works /\ w.at = "send"
  BY <1>1, <1>2 DEF Works
<1>4. SendPush(b, kind) = [loop EXCEPT ![b] = w]
  BY DEF SendPush
<1> HIDE DEF w
<1> QED
  BY <1>3, <1>4

LEMMA OnSMSReceivedKeeps ==
    ASSUME IInv, NEW b \in Bots, OnSMSReceived(b)
    PROVE  IInv'
<1> DEFINE ev == Head(queue[b])
<1> DEFINE p == [kind |-> "sms", dev |-> ev.dev, sim |-> None, msg |-> ev.msg]
<1> DEFINE w == [at |-> "send", ev |-> ev, push |-> p]
<1>1. /\ Dispatch(b, "sms") /\ UNCHANGED <<maps, heard, raced>>
      /\ loop' = loop \/ loop' = [loop EXCEPT ![b] = w]
  BY DEF OnSMSReceived
<1>2. /\ queue' \in [Bots -> Seq(Event)] /\ \A c \in Bots : Len(queue'[c]) <= EventCap
      /\ ev \in Event /\ ev.dev \in Devs /\ ev.msg \in Texts /\ ctx[b] # "none"
      /\ loop[b].at = "idle"
      /\ UNCHANGED <<world, subs, ctx, control, chat, muted>>
  BY <1>1, Dispatched
<1>3. w \in Works
  <2>1. p \in Push
    BY <1>2 DEF Push
  <2> QED
    BY <1>2, <2>1 DEF Works
<1> HIDE DEF w
<1>4. loop' \in [Bots -> {Off, Idle} \cup Works]
  BY <1>1, <1>3, LoopSet DEF IInv, TypeOK, Works
<1>5. TypeOK'
  BY <1>1, <1>2, <1>4 DEF world, maps, control, chat, IInv, TypeOK, Works
<1>6. PendingIsAlive' /\ BotsAreBorn'
  <2>1. CASE loop' = loop
    BY <1>1, <1>2, <2>1 DEF maps, IInv, PendingIsAlive, BotsAreBorn
  <2>2. CASE loop' = [loop EXCEPT ![b] = w]
    BY <1>1, <1>2, <1>3, <2>2, LoopMovesKeeps DEF maps
  <2> QED
    BY <1>1, <2>1, <2>2
<1> QED
  BY <1>5, <1>6 DEF IInv

(* OnModemAdded: the timer of the entry is stopped and the entry removed.   *)
LEMMA OnModemAddedKeeps ==
    ASSUME IInv, NEW b \in Bots, OnModemAdded(b)
    PROVE  IInv'
<1> DEFINE ev == Head(queue[b])
<1> DEFINE d  == ev.dev
<1> DEFINE i  == pending[b][d]
<1> DEFINE w  == [at |-> "record", ev |-> ev, quiet |-> i # 0]
<1>1. /\ Dispatch(b, "added") /\ UNCHANGED snap /\ Meets(d)
      /\ timers' = IF i # 0 THEN [timers EXCEPT ![i] = Stopped(i)] ELSE timers
      /\ pending' = [pending EXCEPT ![b][d] = 0]
      /\ loop' = [loop EXCEPT ![b] = w]
      /\ heard' = [heard EXCEPT ![b][d] = "added"]
  BY DEF OnModemAdded
<1>2. /\ queue' \in [Bots -> Seq(Event)] /\ \A c \in Bots : Len(queue'[c]) <= EventCap
      /\ ev \in Event /\ d \in Devs /\ ctx[b] # "none"
      /\ UNCHANGED <<world, subs, ctx, control, chat, muted>>
  BY <1>1, Dispatched
<1>3. w \in Works /\ w.at # "off"
  BY <1>2 DEF Works
<1> HIDE DEF w
<1>4. loop' \in [Bots -> {Off, Idle} \cup Works]
  BY <1>1, <1>3, LoopSet DEF IInv
<1>5. i \in 0..Len(timers) /\ Len(timers) \in Nat /\ DOMAIN timers = 1..Len(timers)
  BY <1>2, TimersAreTyped DEF IInv
<1>6. \/ i = 0 /\ timers' = timers
      \/ i \in DOMAIN timers /\ \E at \in Ticks : Ticked(i, at, timers')
  <2> HIDE DEF i
  <2>1. CASE i = 0
    BY <1>1, <2>1
  <2>2. CASE i # 0
    <3>1. i \in DOMAIN timers
      BY <1>5, <2>2
    <3>2. timers' = [timers EXCEPT ![i] = Stopped(i)]
      BY <1>1, <2>2
    <3> QED
      BY <3>1, <3>2, TimerStops DEF IInv
  <2> QED
    BY <2>1, <2>2
<1>7. /\ timers' \in Seq(Timer) /\ Len(timers') = Len(timers) /\ DOMAIN timers' = DOMAIN timers
      /\ \A j \in DOMAIN timers : timers'[j].bot = timers[j].bot /\ timers'[j].dev = timers[j].dev
      /\ \A j \in DOMAIN timers : j # i => timers'[j] = timers[j]
  BY <1>6 DEF Ticked, IInv, TypeOK
<1> HIDE DEF d, i
<1>8. pending' \in [Bots -> [Devs -> 0..Len(timers')]]
  BY <1>1, <1>2, <1>7 DEF IInv, TypeOK
<1>9. raced' \subseteq Devs
  BY <1>1, <1>2, MeetsTyped DEF IInv
<1>10. heard' \in [Bots -> [Devs -> {"nothing", "added", "removed"}]]
  BY <1>1, <1>2, HeardTyped DEF IInv
<1>11. TypeOK'
  BY <1>1, <1>2, <1>4, <1>7, <1>8, <1>9, <1>10 DEF world, control, chat, IInv, TypeOK, Works
<1>12. PendingIsAlive'
  <2> SUFFICES ASSUME NEW c \in Bots, NEW e \in Devs, pending'[c][e] # 0
      PROVE  LET t == timers'[pending'[c][e]] IN
             /\ t.bot = c /\ t.dev = e
             /\ t.at \in {"armed", "fired"} \/ ctx'[c] = "cancelled"
    BY DEF PendingIsAlive
  <2>1. pending \in [Bots -> [Devs -> 0..Len(timers)]]
    BY DEF IInv, TypeOK
  <2>2. ~(c = b /\ e = d) /\ pending'[c][e] = pending[c][e]
    BY <1>1, <1>2, <2>1
  <2> DEFINE j == pending[c][e]
  <2>3. /\ timers[j].bot = c /\ timers[j].dev = e
        /\ timers[j].at \in {"armed", "fired"} \/ ctx[c] = "cancelled"
    BY <2>2 DEF IInv, PendingIsAlive
  <2>4. j \in DOMAIN timers
    BY <1>5, <2>1, <2>2
  <2>5. i # 0 => timers[i].bot = b /\ timers[i].dev = d
    BY <1>2 DEF IInv, PendingIsAlive, i
  <2>6. j # i
    BY <2>2, <2>3, <2>5
  <2>7. timers'[j] = timers[j]
    BY <1>7, <2>4, <2>6
  <2> QED
    BY <1>2, <2>2, <2>3, <2>7
<1>13. BotsAreBorn'
  <2>1. loop \in [Bots -> {Off, Idle} \cup Works]
    BY DEF IInv, TypeOK, Works
  <2> QED
    BY <1>1, <1>2, <1>7, <2>1 DEF IInv, BotsAreBorn
<1> QED
  BY <1>11, <1>12, <1>13 DEF IInv

(* OnModemRemoved: an older timer is stopped, the entry gets a new one.     *)
LEMMA RemovalKeeps ==
    ASSUME IInv, NEW b \in Bots, OnModemRemoved(b)
    PROVE  IInv'
<1> DEFINE d   == Head(queue[b]).dev
<1> DEFINE i   == pending[b][d]
<1> DEFINE old == IF i # 0 THEN [timers EXCEPT ![i] = Stopped(i)] ELSE timers
<1> DEFINE new == [bot |-> b, dev |-> d, at |-> "armed"]
<1>1. /\ Dispatch(b, "removed") /\ UNCHANGED <<snap, loop>> /\ Meets(d)
      /\ timers' = Append(old, new)
      /\ pending' = [pending EXCEPT ![b][d] = Len(timers) + 1]
      /\ heard' = [heard EXCEPT ![b][d] = "removed"]
  BY DEF OnModemRemoved
<1>2. /\ queue' \in [Bots -> Seq(Event)] /\ \A c \in Bots : Len(queue'[c]) <= EventCap
      /\ d \in Devs /\ ctx[b] # "none"
      /\ UNCHANGED <<world, subs, ctx, control, chat, muted>>
  BY <1>1, Dispatched
<1>3. new \in Timer /\ new.bot = b /\ new.dev = d /\ new.at = "armed"
  BY <1>2 DEF Timer
<1>4. i \in 0..Len(timers) /\ Len(timers) \in Nat /\ DOMAIN timers = 1..Len(timers)
  BY <1>2, TimersAreTyped DEF IInv
<1>5. \/ old = timers
      \/ i \in DOMAIN timers /\ \E at \in Ticks : Ticked(i, at, old)
  <2> HIDE DEF i
  <2>1. CASE i = 0
    BY <2>1
  <2>2. CASE i # 0
    <3>1. i \in DOMAIN timers
      BY <1>4, <2>2
    <3>2. old = [timers EXCEPT ![i] = Stopped(i)]
      BY <2>2
    <3> QED
      BY <3>1, <3>2, TimerStops DEF IInv
  <2> QED
    BY <2>1, <2>2
<1> HIDE DEF old, new, i, d
<1>6. /\ old \in Seq(Timer) /\ Len(old) = Len(timers) /\ DOMAIN old = DOMAIN timers
      /\ \A j \in DOMAIN timers : old[j].bot = timers[j].bot /\ old[j].dev = timers[j].dev
      /\ \A j \in DOMAIN timers : j # i => old[j] = timers[j]
  BY <1>5 DEF Ticked, IInv, TypeOK
<1>7. /\ timers' \in Seq(Timer) /\ Len(timers') = Len(timers) + 1
      /\ DOMAIN timers' = 1..(Len(timers) + 1)
      /\ timers'[Len(timers) + 1] = new
      /\ \A j \in DOMAIN timers : timers'[j] = old[j]
  <2>1. /\ Append(old, new) \in Seq(Timer) /\ Len(Append(old, new)) = Len(old) + 1
        /\ \A j \in 1..Len(old) : Append(old, new)[j] = old[j]
        /\ Append(old, new)[Len(old) + 1] = new
    BY <1>3, <1>6, AppendProperties
  <2>2. DOMAIN Append(old, new) = 1..(Len(old) + 1)
    BY <2>1, LenProperties
  <2> QED
    BY <1>1, <1>4, <1>6, <2>1, <2>2
<1>8. pending \in [Bots -> [Devs -> 0..Len(timers)]]
  BY DEF IInv, TypeOK
<1>9. pending' \in [Bots -> [Devs -> 0..Len(timers')]]
  <2>1. 0..Len(timers) \subseteq 0..Len(timers') /\ Len(timers) + 1 \in 0..Len(timers')
    BY <1>4, <1>7
  <2>2. pending \in [Bots -> [Devs -> 0..Len(timers')]]
    BY <1>8, <2>1
  <2> QED
    BY <1>1, <1>2, <2>1, <2>2
<1>10. raced' \subseteq Devs
  BY <1>1, <1>2, MeetsTyped DEF IInv
<1>11. heard' \in [Bots -> [Devs -> {"nothing", "added", "removed"}]]
  BY <1>1, <1>2, HeardTyped DEF IInv
<1>12. TypeOK'
  BY <1>1, <1>2, <1>7, <1>9, <1>10, <1>11 DEF world, control, chat, IInv, TypeOK
<1>13. PendingIsAlive'
  <2> SUFFICES ASSUME NEW c \in Bots, NEW e \in Devs, pending'[c][e] # 0
      PROVE  LET t == timers'[pending'[c][e]] IN
             /\ t.bot = c /\ t.dev = e
             /\ t.at \in {"armed", "fired"} \/ ctx'[c] = "cancelled"
    BY DEF PendingIsAlive
  <2>1. CASE c = b /\ e = d
    <3>1. pending'[c][e] = Len(timers) + 1
      BY <1>1, <1>2, <1>8, <2>1
    <3> QED
      BY <1>3, <1>7, <2>1, <3>1
  <2>2. CASE ~(c = b /\ e = d)
    <3> DEFINE j == pending[c][e]
    <3>1. pending'[c][e] = j
      BY <1>1, <1>2, <1>8, <2>2
    <3>2. /\ timers[j].bot = c /\ timers[j].dev = e
          /\ timers[j].at \in {"armed", "fired"} \/ ctx[c] = "cancelled"
      BY <3>1 DEF IInv, PendingIsAlive
    <3>3. j \in DOMAIN timers
      BY <1>4, <1>8, <3>1
    <3>4. i # 0 => timers[i].bot = b /\ timers[i].dev = d
      BY <1>2 DEF IInv, PendingIsAlive, i
    <3>5. j # i
      BY <1>4, <2>2, <3>1, <3>2, <3>4
    <3>6. timers'[j] = timers[j]
      BY <1>6, <1>7, <3>3, <3>5
    <3> QED
      BY <1>2, <3>1, <3>2, <3>6
  <2> QED
    BY <2>1, <2>2
<1>14. BotsAreBorn'
  <2>1. \A j \in DOMAIN timers : timers'[j].bot = timers[j].bot
    BY <1>6, <1>7
  <2>2. \A j \in DOMAIN timers' : j \in DOMAIN timers \/ j = Len(timers) + 1
    BY <1>4, <1>7
  <2>3. \A j \in DOMAIN timers' : ctx[timers'[j].bot] # "none"
    BY <1>2, <1>3, <1>7, <2>1, <2>2 DEF IInv, BotsAreBorn
  <2> QED
    BY <1>1, <1>2, <2>3 DEF IInv, BotsAreBorn
<1> QED
  BY <1>12, <1>13, <1>14 DEF IInv

LEMMA OnModemUpdatedKeeps ==
    ASSUME IInv, NEW b \in Bots, OnModemUpdated(b)
    PROVE  IInv'
<1> DEFINE ev == Head(queue[b])
<1> DEFINE w  == IF pending[b][ev.dev] # 0 THEN [at |-> "record", ev |-> ev, quiet |-> TRUE]
                 ELSE [at |-> "diff", ev |-> ev]
<1>1. /\ Dispatch(b, "updated") /\ UNCHANGED <<maps, heard>> /\ Meets(ev.dev)
      /\ loop' = [loop EXCEPT ![b] = w]
  BY DEF OnModemUpdated
<1>2. /\ queue' \in [Bots -> Seq(Event)] /\ \A c \in Bots : Len(queue'[c]) <= EventCap
      /\ ev \in Event /\ ev.dev \in Devs /\ ctx[b] # "none"
      /\ UNCHANGED <<world, subs, ctx, control, chat, muted>>
  BY <1>1, Dispatched
<1>3. w \in Works
  BY <1>2 DEF Works
<1> HIDE DEF w
<1>4. loop' \in [Bots -> {Off, Idle} \cup Works]
  BY <1>1, <1>3, LoopSet DEF IInv
<1>5. raced' \subseteq Devs
  BY <1>1, <1>2, MeetsTyped DEF IInv
<1>6. TypeOK'
  BY <1>1, <1>2, <1>4, <1>5 DEF world, maps, control, chat, IInv, TypeOK, Works
<1>7. PendingIsAlive' /\ BotsAreBorn'
  BY <1>1, <1>2, <1>3, LoopMovesKeeps DEF maps
<1> QED
  BY <1>6, <1>7 DEF IInv

(* RecordSIMSnapshot and HandleSIMDiff: a snapshot, then a push or not.     *)
LEMMA SnapshotKeeps ==
    ASSUME IInv, NEW b \in Bots, RecordSIMSnapshot(b) \/ HandleSIMDiff(b)
    PROVE  IInv'
<1> DEFINE ev == loop[b].ev
<1>1. /\ loop[b].at \in {"record", "diff"}
      /\ snap' = [snap EXCEPT ![b][ev.dev] = ev.sim]
      /\ muted' \in {muted, muted \cup {ev.dev}}
      /\ \/ loop' = [loop EXCEPT ![b] = Idle]
         \/ loop' = SendPush(b, "online") \/ loop' = SendPush(b, "sim")
      /\ UNCHANGED <<world, subs, queue, ctx, pending, timers, control, chat, heard, raced>>
  BY DEF RecordSIMSnapshot, HandleSIMDiff
<1>2. ev.dev \in Devs /\ ev.sim \in Sims \cup {None}
  BY <1>1, LoopIsTyped, EventIsTyped DEF IInv
<1>3. PICK w \in {Off, Idle} \cup Works : loop' = [loop EXCEPT ![b] = w]
  BY <1>1, SendPushTyped DEF IInv
<1> HIDE DEF ev
<1>4. loop' \in [Bots -> {Off, Idle} \cup Works]
  BY <1>3, LoopSet DEF IInv
<1>5. snap' \in [Bots -> [Devs -> Sims \cup {None, Unseen}]] /\ muted' \subseteq Devs
  BY <1>1, <1>2, SnapTyped DEF IInv, TypeOK
<1>6. TypeOK'
  BY <1>1, <1>4, <1>5 DEF world, control, chat, IInv, TypeOK, Works
<1>7. ctx[b] # "none"
  BY <1>1 DEF IInv, BotsAreBorn
<1>8. PendingIsAlive' /\ BotsAreBorn'
  BY <1>1, <1>3, <1>7, LoopMovesKeeps
<1> QED
  BY <1>6, <1>8 DEF IInv

LEMMA SendKeeps ==
    ASSUME IInv, NEW b \in Bots, Send(b)
    PROVE  IInv'
<1> DEFINE p == loop[b].push
<1>1. /\ loop[b].at = "send" /\ loop' = [loop EXCEPT ![b] = Idle]
      /\ told' = IF p.kind = "online" THEN [told EXCEPT ![p.dev] = "online"] ELSE told
      /\ toldSim' = IF p.kind = "sms" THEN toldSim ELSE [toldSim EXCEPT ![p.dev] = p.sim]
      /\ pushed' = IF p.kind = "sms" THEN [pushed EXCEPT ![p.msg] = @ + 1] ELSE pushed
      /\ muted' = IF p.kind = "sms" THEN muted ELSE muted \ {p.dev}
      /\ UNCHANGED <<world, subs, queue, ctx, maps, control, heard, faults, raced>>
  BY DEF Send
<1>2. /\ p.dev \in Devs /\ p.sim \in Sims \cup {None}
      /\ p.kind = "sms" => p.msg \in Texts
      /\ ctx[b] # "none"
  BY <1>1, LoopIsTyped, PushIsTyped DEF IInv, BotsAreBorn
<1> HIDE DEF p
<1>3. told' \in [Devs -> {"nothing", "online", "offline"}]
  BY <1>1, <1>2 DEF IInv, TypeOK
<1>4. toldSim' \in [Devs -> Sims \cup {None, Unseen}]
  BY <1>1, <1>2 DEF IInv, TypeOK
<1>5. pushed' \in [Texts -> Nat]
  BY <1>1, <1>2 DEF IInv, TypeOK
<1>6. muted' \subseteq Devs
  BY <1>1 DEF IInv, TypeOK
<1>7. loop' \in [Bots -> {Off, Idle} \cup Works]
  BY <1>1, LoopSet DEF IInv
<1>8. TypeOK'
  BY <1>1, <1>3, <1>4, <1>5, <1>6, <1>7 DEF world, maps, control, IInv, TypeOK, Works
<1>9. PendingIsAlive' /\ BotsAreBorn'
  BY <1>1, <1>2, LoopMovesKeeps DEF maps
<1> QED
  BY <1>8, <1>9 DEF IInv

LEMMA SendFailsKeeps ==
    ASSUME IInv, NEW b \in Bots, SendFails(b)
    PROVE  IInv'
<1>1. /\ loop[b].at = "send" /\ loop' = [loop EXCEPT ![b] = Idle]
      /\ faults < MaxSendFaults /\ faults' = faults + 1
      /\ UNCHANGED <<world, subs, queue, ctx, maps, control, told, toldSim, pushed, heard, raced, muted>>
      /\ ctx[b] # "none"
  BY DEF SendFails, SendFault, IInv, BotsAreBorn
<1>2. loop' \in [Bots -> {Off, Idle} \cup Works]
  BY <1>1, LoopSet DEF IInv
<1>5. faults \in 0..MaxSendFaults
  BY DEF IInv, TypeOK
<1>6. faults' \in 0..MaxSendFaults
  BY <1>1, <1>5, PushAssumption
<1>3. TypeOK'
  BY <1>1, <1>2, <1>6 DEF world, maps, control, IInv, TypeOK, Works
<1>4. PendingIsAlive' /\ BotsAreBorn'
  BY <1>1, LoopMovesKeeps DEF maps
<1> QED
  BY <1>3, <1>4 DEF IInv

LEMMA LoopEndsKeeps ==
    ASSUME IInv, NEW b \in Bots, LoopEnds(b)
    PROVE  IInv'
<1>1. /\ loop' = [loop EXCEPT ![b] = Off] /\ subs' = subs \ {b}
      /\ queue' = [queue EXCEPT ![b] = <<>>]
      /\ missed' \subseteq Devs
      /\ UNCHANGED <<present, card, events, arrived, ctx, maps, control, chat, heard, raced, muted>>
  BY DEF LoopEnds, IInv, TypeOK
<1>2. loop' \in [Bots -> {Off, Idle} \cup Works] /\ Off.at = "off"
  BY <1>1, LoopSet DEF IInv, Off
<1>3. queue' \in [Bots -> Seq(Event)] /\ \A c \in Bots : Len(queue'[c]) <= EventCap
  <2>1. <<>> \in Seq(Event) /\ Len(<<>>) = 0
    BY EmptySeq
  <2> QED
    BY <1>1, <2>1, PushAssumption DEF IInv, TypeOK
<1>4. TypeOK'
  BY <1>1, <1>2, <1>3 DEF world, maps, control, chat, IInv, TypeOK, Works
<1>5. PendingIsAlive' /\ BotsAreBorn'
  BY <1>1, <1>2, LoopMovesKeeps DEF maps
<1> QED
  BY <1>4, <1>5 DEF IInv

-----------------------------------------------------------------------------
(* A timer function makes a step.  It leaves its entry behind only when the *)
(* bot was stopped; whatever entry pointed to this timer is the entry of    *)
(* its bot and modem.                                                       *)
LEMMA EntryCleared ==
    ASSUME NEW N \in Nat, pending \in [Bots -> [Devs -> 0..N]], NEW b \in Bots, NEW d \in Devs
    PROVE  LET new == [pending EXCEPT ![b][d] = 0] IN
           /\ new \in [Bots -> [Devs -> 0..N]]
           /\ \A c \in Bots, e \in Devs : new[c][e] # 0 => new[c][e] = pending[c][e]
OBVIOUS

LEMMA TimerMovesKeeps ==
    ASSUME IInv, NEW i \in DOMAIN timers, NEW to \in Ticks,
           timers' = [timers EXCEPT ![i].at = to],
           \/ pending' = pending
           \/ pending' = [pending EXCEPT ![timers[i].bot][timers[i].dev] = 0],
           \/ to \in {"armed", "fired"} \/ ctx[timers[i].bot] = "cancelled"
           \/ pending'[timers[i].bot][timers[i].dev] # i,
           UNCHANGED <<ctx, loop>>
    PROVE  /\ timers' \in Seq(Timer) /\ pending' \in [Bots -> [Devs -> 0..Len(timers')]]
           /\ PendingIsAlive' /\ BotsAreBorn'
<1>1. Ticked(i, to, timers')
  BY TimerTicks DEF IInv
<1>2. /\ timers' \in Seq(Timer) /\ Len(timers') = Len(timers) /\ DOMAIN timers' = DOMAIN timers
      /\ \A j \in DOMAIN timers : timers'[j].bot = timers[j].bot /\ timers'[j].dev = timers[j].dev
      /\ timers'[i].at = to
      /\ \A j \in DOMAIN timers \ {i} : timers'[j] = timers[j]
  BY <1>1 DEF Ticked
<1>3. /\ pending \in [Bots -> [Devs -> 0..Len(timers)]] /\ Len(timers) \in Nat
      /\ DOMAIN timers = 1..Len(timers) /\ timers[i].bot \in Bots /\ timers[i].dev \in Devs
  BY TimersAreTyped, TimerIsTyped DEF IInv, TypeOK
<1>4. /\ pending' \in [Bots -> [Devs -> 0..Len(timers)]]
      /\ \A c \in Bots, d \in Devs : pending'[c][d] # 0 => pending'[c][d] = pending[c][d]
  <2>1. CASE pending' = pending
    BY <1>3, <2>1
  <2>2. CASE pending' = [pending EXCEPT ![timers[i].bot][timers[i].dev] = 0]
    BY <1>3, <2>2, EntryCleared
  <2> QED
    BY <2>1, <2>2
<1>6. PendingIsAlive'
  <2> SUFFICES ASSUME NEW c \in Bots, NEW d \in Devs, pending'[c][d] # 0
      PROVE  LET t == timers'[pending'[c][d]] IN
             /\ t.bot = c /\ t.dev = d
             /\ t.at \in {"armed", "fired"} \/ ctx'[c] = "cancelled"
    BY DEF PendingIsAlive
  <2> DEFINE j == pending[c][d]
  <2>1. pending'[c][d] = j /\ j # 0 /\ j \in DOMAIN timers
    BY <1>3, <1>4
  <2>2. /\ timers[j].bot = c /\ timers[j].dev = d
        /\ timers[j].at \in {"armed", "fired"} \/ ctx[c] = "cancelled"
    BY <2>1 DEF IInv, PendingIsAlive
  <2> HIDE DEF j
  <2>3. CASE j = i
    BY <1>2, <2>1, <2>2, <2>3
  <2>4. CASE j # i
    BY <1>2, <2>1, <2>2, <2>4
  <2> QED
    BY <2>3, <2>4
<1>7. BotsAreBorn'
  BY <1>2 DEF IInv, BotsAreBorn
<1> QED
  BY <1>2, <1>4, <1>6, <1>7

LEMMA TimerKeeps ==
    ASSUME IInv, NEW i \in DOMAIN timers, TimerRun(i)
    PROVE  IInv'
<1> DEFINE b == timers[i].bot
<1> DEFINE d == timers[i].dev
<1>1. /\ UNCHANGED <<world, subs, queue, ctx, loop, control, heard, raced, muted>>
      /\ UNCHANGED <<toldSim, pushed>>
  BY DEF TimerRun, TimerFires, TimerUnlists, TimerClears, TimerSends, TimerSendFails,
         TimerStep, chat
<1>2. b \in Bots /\ d \in Devs /\ ctx[b] \in {"live", "cancelled"}
  <2>1. ctx[b] \in {"none", "live", "cancelled"} /\ ctx[b] # "none" /\ d \in Devs /\ b \in Bots
    BY TimersAreTyped, TimerIsTyped DEF IInv, TypeOK, BotsAreBorn
  <2> QED
    BY <2>1
<1>3. pending[b][d] = i => timers[i].at \in {"armed", "fired"} \/ ctx[b] = "cancelled"
  <2>1. i # 0
    BY TimersAreTyped DEF IInv
  <2> QED
    BY <1>2, <2>1 DEF IInv, PendingIsAlive
<1>4. PICK to \in Ticks :
        /\ timers' = [timers EXCEPT ![i].at = to]
        /\ \/ pending' = pending
           \/ pending' = [pending EXCEPT ![b][d] = 0]
        /\ \/ to \in {"armed", "fired"} \/ ctx[b] = "cancelled"
           \/ pending'[b][d] # i
  <2>1. CASE TimerFires(i)
    BY <1>2, <2>1 DEF TimerFires, TimerStep, Ticks
  <2>2. CASE TimerUnlists(i)
    <3>1. pending'[b][d] = 0 /\ i # 0
      BY <1>2, <2>2, TimersAreTyped DEF TimerUnlists, IInv, TypeOK
    <3> QED
      BY <2>2, <3>1 DEF TimerUnlists, TimerStep, Ticks
  <2>3. CASE TimerClears(i)
    BY <1>3, <2>3 DEF TimerClears, TimerStep, Ticks
  <2>4. CASE TimerSends(i) \/ TimerSendFails(i)
    BY <1>3, <2>4 DEF TimerSends, TimerSendFails, TimerStep, Ticks
  <2> QED
    BY <2>1, <2>2, <2>3, <2>4 DEF TimerRun
<1>5. /\ timers' \in Seq(Timer) /\ pending' \in [Bots -> [Devs -> 0..Len(timers')]]
      /\ PendingIsAlive' /\ BotsAreBorn'
  BY <1>1, <1>4, TimerMovesKeeps
<1>6. snap' \in [Bots -> [Devs -> Sims \cup {None, Unseen}]]
  <2>1. snap' = snap \/ snap' = [snap EXCEPT ![b][d] = Unseen]
    BY DEF TimerRun, TimerFires, TimerUnlists, TimerClears, TimerSends, TimerSendFails
  <2> HIDE DEF b, d
  <2> QED
    BY <1>2, <2>1, SnapTyped DEF IInv, TypeOK
<1>7. told' \in [Devs -> {"nothing", "online", "offline"}]
  <2>1. told' = told \/ told' = [told EXCEPT ![d] = "offline"]
    BY DEF TimerRun, TimerFires, TimerUnlists, TimerClears, TimerSends, TimerSendFails, chat
  <2>2. told \in [Devs -> {"nothing", "online", "offline"}]
    BY DEF IInv, TypeOK
  <2> HIDE DEF b, d
  <2>3. [told EXCEPT ![d] = "offline"] \in [Devs -> {"nothing", "online", "offline"}]
    BY <1>2, <2>2
  <2> QED
    BY <2>1, <2>2, <2>3
<1>8. faults' \in 0..MaxSendFaults
  <2>1. \/ faults' = faults
        \/ faults < MaxSendFaults /\ faults' = faults + 1
    <3>1. CASE TimerSendFails(i)
      BY <3>1 DEF TimerSendFails, SendFault
    <3>2. CASE ~TimerSendFails(i)
      BY <3>2 DEF TimerRun, TimerFires, TimerUnlists, TimerClears, TimerSends, chat
    <3> QED
      BY <3>1, <3>2
  <2>2. faults \in 0..MaxSendFaults
    BY DEF IInv, TypeOK
  <2> QED
    BY <2>1, <2>2, PushAssumption
<1>9. TypeOK'
  BY <1>1, <1>5, <1>6, <1>7, <1>8 DEF world, control, IInv, TypeOK
<1> QED
  BY <1>5, <1>9 DEF IInv

-----------------------------------------------------------------------------
(* The controller stops a bot and starts the next.                          *)
LEMMA ReloadKeeps ==
    ASSUME IInv, Reload
    PROVE  IInv'
<1>1. /\ \/ ctx' = ctx
         \/ current \in Bots /\ ctx' = [ctx EXCEPT ![current] = "cancelled"]
      /\ reload' \in {"no", "stopping", "starting"}
      /\ UNCHANGED <<world, subs, queue, loop, maps, current, overdue, chat, heard, raced, muted>>
  BY DEF Reload, IInv, TypeOK
<1>2. ctx \in [Bots -> {"none", "live", "cancelled"}]
  BY DEF IInv, TypeOK
<1>3. /\ ctx' \in [Bots -> {"none", "live", "cancelled"}]
      /\ \A b \in Bots : ctx'[b] = ctx[b] \/ ctx'[b] = "cancelled"
  BY <1>1, <1>2
<1>4. TypeOK'
  BY <1>1, <1>3 DEF world, maps, chat, IInv, TypeOK
<1>5. PendingIsAlive'
  BY <1>1, <1>3 DEF maps, IInv, PendingIsAlive
<1>6. BotsAreBorn'
  BY <1>1, <1>3, TimersAreTyped, TimerIsTyped DEF maps, IInv, BotsAreBorn
<1> QED
  BY <1>4, <1>5, <1>6 DEF IInv

LEMMA StopKeeps ==
    ASSUME IInv, StopReturns \/ StopTimesOut \/ StartFails
    PROVE  IInv'
<1>1. /\ current' \in {0, current} /\ reload' \in {"no", "starting"} /\ overdue' \in {overdue, TRUE}
      /\ UNCHANGED <<world, subs, queue, ctx, loop, maps, chat, heard, raced, muted>>
  BY DEF StopReturns, StopTimesOut, StartFails
<1>2. TypeOK'
  BY <1>1 DEF world, maps, chat, IInv, TypeOK
<1>3. PendingIsAlive' /\ BotsAreBorn'
  BY <1>1 DEF maps, IInv, PendingIsAlive, BotsAreBorn
<1> QED
  BY <1>2, <1>3 DEF IInv

(* A new bot has no timers and no entries.                                  *)
LEMMA StartBotKeeps ==
    ASSUME IInv, StartBot
    PROVE  IInv'
<1>1. PICK b \in Bots \ Born :
        /\ ctx' = [ctx EXCEPT ![b] = "live"] /\ loop' = [loop EXCEPT ![b] = Idle]
        /\ subs' = subs \cup {b} /\ current' = b
  BY DEF StartBot
<1>2. reload' = "no" /\ UNCHANGED <<world, queue, maps, overdue, chat, heard, raced, muted>>
  BY DEF StartBot
<1>3. b \in Bots /\ ctx[b] = "none"
  BY <1>1 DEF Born
<1>4. ctx \in [Bots -> {"none", "live", "cancelled"}]
  BY DEF IInv, TypeOK
<1>5. /\ ctx' \in [Bots -> {"none", "live", "cancelled"}] /\ ctx'[b] = "live"
      /\ \A c \in Bots : c # b => ctx'[c] = ctx[c]
  BY <1>1, <1>3, <1>4
<1>6. loop' \in [Bots -> {Off, Idle} \cup Works]
  BY <1>1, <1>3, LoopSet DEF IInv
<1>7. TypeOK'
  BY <1>1, <1>2, <1>3, <1>5, <1>6 DEF world, maps, chat, IInv, TypeOK, Works
<1>8. PendingIsAlive'
  <2> SUFFICES ASSUME NEW c \in Bots, NEW d \in Devs, pending[c][d] # 0
      PROVE  LET t == timers[pending[c][d]] IN
             /\ t.bot = c /\ t.dev = d
             /\ t.at \in {"armed", "fired"} \/ ctx'[c] = "cancelled"
    BY <1>2 DEF maps, PendingIsAlive
  <2>1. /\ timers[pending[c][d]].bot = c /\ pending[c][d] \in DOMAIN timers
        /\ ctx[c] # "none"
    BY TimersAreTyped DEF IInv, PendingIsAlive, BotsAreBorn
  <2>2. ctx'[c] = ctx[c]
    BY <1>3, <1>5, <2>1
  <2> QED
    BY <2>2 DEF IInv, PendingIsAlive
<1>9. BotsAreBorn'
  <2>1. \A i \in DOMAIN timers : timers[i].bot \in Bots
    BY TimersAreTyped, TimerIsTyped DEF IInv
  <2>2. \A c \in Bots : c # b => loop'[c] = loop[c]
    BY <1>1
  <2> QED
    BY <1>2, <1>5, <2>1, <2>2 DEF maps, IInv, BotsAreBorn
<1> QED
  BY <1>7, <1>8, <1>9 DEF IInv

-----------------------------------------------------------------------------
LEMMA NextKeeps == IInv /\ [Next]_vars => IInv'
<1> SUFFICES ASSUME IInv, [Next]_vars PROVE IInv'
  OBVIOUS
<1>1. CASE World
  BY <1>1, WorldKeeps
<1>2. ASSUME NEW b \in Bots, LoopStep(b) PROVE IInv'
  BY <1>2, OnSMSReceivedKeeps, OnModemAddedKeeps, RemovalKeeps, OnModemUpdatedKeeps,
     SnapshotKeeps, SendKeeps, SendFailsKeeps, LoopEndsKeeps DEF LoopStep
<1>3. ASSUME NEW i \in DOMAIN timers, TimerRun(i) PROVE IInv'
  BY <1>3, TimerKeeps
<1>4. CASE Reload \/ StopReturns \/ StopTimesOut \/ StartBot \/ StartFails
  BY <1>4, ReloadKeeps, StopKeeps, StartBotKeeps
<1>5. CASE UNCHANGED vars
  <2>1. TypeOK'
    BY <1>5 DEF vars, world, maps, control, chat, IInv, TypeOK
  <2>2. PendingIsAlive' /\ BotsAreBorn'
    BY <1>5 DEF vars, maps, IInv, PendingIsAlive, BotsAreBorn
  <2> QED
    BY <2>1, <2>2 DEF IInv
<1> QED
  BY <1>1, <1>2, <1>3, <1>4, <1>5 DEF Next

(* The inductive invariant holds: channels, timers and bots together.       *)
THEOREM Invariance == Spec => []IInv
<1>1. Init => IInv
  BY InitHolds
<1>2. IInv /\ [Next]_vars => IInv'
  BY NextKeeps
<1> QED
  BY <1>1, <1>2, PTL DEF Spec

(* The types of the push bot's state: queues within their capacity, an      *)
(* entry of pendingOffline is nil or a timer, a loop that handles an event. *)
THEOREM TypeCorrect == Spec => []TypeOK
<1>1. IInv => TypeOK
  BY DEF IInv
<1> QED
  BY <1>1, Invariance, PTL

(* The entry that scheduleOffline and cancelPendingOffline rely on: a       *)
(* device's entry in pendingOffline is a timer of that bot and that device, *)
(* armed or just fired, as long as the bot was not stopped.  A stale entry  *)
(* would keep the next return of the modem quiet although its absence was   *)
(* told, and swallow its SIM changes.                                       *)
THEOREM PendingPointsToLive == Spec => []PendingIsAlive
<1>1. IInv => PendingIsAlive
  BY DEF IInv
<1> QED
  BY <1>1, Invariance, PTL

-----------------------------------------------------------------------------
(* The bots one after the other.  One bot is live, the one that the         *)
(* controller holds; a bot that was not started has empty maps; two push    *)
(* loops run at the same time only when stop() gave up waiting.             *)
Controlled ==
    /\ \A b \in Bots : ctx[b] = "live" => b = current
    /\ reload = "starting" => current = 0
    /\ reload = "stopping" => current \in Bots /\ ctx[current] = "cancelled"

Fresh ==
    \A b \in Bots : ctx[b] = "none" =>
      \A d \in Devs : heard[b][d] = "nothing" /\ pending[b][d] = 0 /\ snap[b][d] = Unseen

Alone ==
    ~overdue => \A b \in Bots :
      /\ loop[b].at # "off" => b = current
      /\ b \in subs => loop[b].at # "off"
      /\ b \notin subs => queue[b] = <<>>

Reported ==
    /\ \A b \in Bots : loop[b].at = "send" => loop[b].push.dev = loop[b].ev.dev
    /\ \A b \in Bots, d \in Devs : pending[b][d] # 0 => heard[b][d] = "removed"

Lifecycle == Controlled /\ Fresh /\ Alone /\ Reported

LEMMA LifecycleHolds == Init => Lifecycle
<1> SUFFICES ASSUME Init PROVE Lifecycle
  OBVIOUS
<1>1. /\ \A b \in Bots : /\ ctx[b] = "none" /\ loop[b].at = "off" /\ queue[b] = <<>>
                        /\ \A d \in Devs : /\ heard[b][d] = "nothing" /\ pending[b][d] = 0
                                            /\ snap[b][d] = Unseen
      /\ subs = {} /\ current = 0 /\ reload = "starting"
  BY DEF Init, Off
<1> QED
  BY <1>1 DEF Lifecycle, Controlled, Fresh, Alone, Reported

(* What a step of one push loop can touch: the state of its own bot.        *)
Elsewhere(b) ==
    \A c \in Bots \ {b} :
      /\ loop'[c] = loop[c] /\ queue'[c] = queue[c]
      /\ pending'[c] = pending[c] /\ heard'[c] = heard[c] /\ snap'[c] = snap[c]

LEMMA LoopStepShape ==
    ASSUME IInv, NEW b \in Bots, LoopStep(b)
    PROVE  /\ UNCHANGED <<ctx, control, present, arrived>>
           /\ loop[b].at # "off" /\ Elsewhere(b)
           /\ \/ /\ UNCHANGED <<subs, missed>> /\ loop'[b].at # "off"
                 /\ UNCHANGED queue \/ (queue[b] # <<>> /\ queue'[b] = Tail(queue[b]))
              \/ LoopEnds(b) /\ subs' = subs \ {b} /\ loop'[b].at = "off" /\ queue'[b] = <<>>
<1>1. /\ loop \in [Bots -> {Off, Idle} \cup Works] /\ queue \in [Bots -> Seq(Event)]
      /\ pending \in [Bots -> [Devs -> 0..Len(timers)]]
      /\ heard \in [Bots -> [Devs -> {"nothing", "added", "removed"}]]
      /\ snap \in [Bots -> [Devs -> Sims \cup {None, Unseen}]]
  BY DEF IInv, TypeOK, Works
<1>2. ASSUME NEW kind, Dispatch(b, kind),
             \/ loop' = loop
             \/ \E w : w.at # "off" /\ loop' = [loop EXCEPT ![b] = w],
             \/ pending' = pending
             \/ \E d, n : pending' = [pending EXCEPT ![b][d] = n],
             \/ heard' = heard
             \/ \E d, n : heard' = [heard EXCEPT ![b][d] = n],
             UNCHANGED snap
      PROVE  /\ UNCHANGED <<ctx, control, present, arrived, subs, missed>>
             /\ loop[b].at # "off" /\ loop'[b].at # "off" /\ Elsewhere(b)
             /\ queue[b] # <<>> /\ queue'[b] = Tail(queue[b])
  <2>1. /\ loop[b].at = "idle" /\ queue[b] # <<>> /\ queue' = [queue EXCEPT ![b] = Tail(@)]
        /\ UNCHANGED <<world, subs, ctx, control, chat, muted>>
    BY <1>2 DEF Dispatch
  <2>2. loop'[b].at # "off" /\ \A c \in Bots \ {b} : loop'[c] = loop[c]
    BY <1>1, <1>2, <2>1
  <2>3. \A c \in Bots \ {b} : pending'[c] = pending[c] /\ heard'[c] = heard[c]
    BY <1>1, <1>2
  <2> QED
    BY <1>1, <1>2, <2>1, <2>2, <2>3 DEF Elsewhere, world
<1>3. ASSUME NEW w, loop' = [loop EXCEPT ![b] = w], w.at # "off", loop[b].at # "off",
             \/ snap' = snap
             \/ \E d, n : snap' = [snap EXCEPT ![b][d] = n],
             UNCHANGED <<world, subs, queue, ctx, control, pending, heard>>
      PROVE  /\ UNCHANGED <<ctx, control, present, arrived, subs, missed, queue>>
             /\ loop[b].at # "off" /\ loop'[b].at # "off" /\ Elsewhere(b)
  BY <1>1, <1>3 DEF Elsewhere, world
<1>4. CASE OnSMSReceived(b)
  <2> DEFINE ev == Head(queue[b])
  <2> DEFINE w == [at |-> "send", ev |-> ev, push |->
                     [kind |-> "sms", dev |-> ev.dev, sim |-> None, msg |-> ev.msg]]
  <2>1. /\ Dispatch(b, "sms") /\ UNCHANGED <<maps, heard>> /\ w.at # "off"
        /\ loop' = loop \/ loop' = [loop EXCEPT ![b] = w]
    BY <1>4 DEF OnSMSReceived
  <2> HIDE DEF w
  <2> QED
    BY <1>2, <2>1 DEF maps
<1>5. CASE OnModemAdded(b)
  <2> DEFINE ev == Head(queue[b])
  <2> DEFINE w == [at |-> "record", ev |-> ev, quiet |-> pending[b][ev.dev] # 0]
  <2>1. /\ Dispatch(b, "added") /\ UNCHANGED snap /\ w.at # "off"
        /\ loop' = [loop EXCEPT ![b] = w]
        /\ pending' = [pending EXCEPT ![b][ev.dev] = 0]
        /\ heard' = [heard EXCEPT ![b][ev.dev] = "added"]
    BY <1>5 DEF OnModemAdded
  <2> HIDE DEF w, ev
  <2> QED
    BY <1>2, <2>1
<1>6. CASE OnModemRemoved(b)
  <2> DEFINE d == Head(queue[b]).dev
  <2>1. /\ Dispatch(b, "removed") /\ UNCHANGED <<snap, loop>>
        /\ pending' = [pending EXCEPT ![b][d] = Len(timers) + 1]
        /\ heard' = [heard EXCEPT ![b][d] = "removed"]
    BY <1>6 DEF OnModemRemoved
  <2> HIDE DEF d
  <2> QED
    BY <1>2, <2>1
<1>7. CASE OnModemUpdated(b)
  <2> DEFINE ev == Head(queue[b])
  <2> DEFINE w == IF pending[b][ev.dev] # 0 THEN [at |-> "record", ev |-> ev, quiet |-> TRUE]
                  ELSE [at |-> "diff", ev |-> ev]
  <2>1. /\ Dispatch(b, "updated") /\ UNCHANGED <<maps, heard>> /\ w.at # "off"
        /\ loop' = [loop EXCEPT ![b] = w]
    BY <1>7 DEF OnModemUpdated
  <2> HIDE DEF w
  <2> QED
    BY <1>2, <2>1 DEF maps
<1>8. CASE RecordSIMSnapshot(b) \/ HandleSIMDiff(b)
  <2>1. loop[b].at \in {"record", "diff"}
    BY <1>8 DEF RecordSIMSnapshot, HandleSIMDiff
  <2>2. PICK w : loop' = [loop EXCEPT ![b] = w] /\ w.at # "off"
    <3>1. \/ loop' = [loop EXCEPT ![b] = Idle]
          \/ loop' = SendPush(b, "online") \/ loop' = SendPush(b, "sim")
      BY <1>8 DEF RecordSIMSnapshot, HandleSIMDiff
    <3>2. Idle.at # "off"
      BY DEF Idle
    <3> QED
      BY <2>1, <3>1, <3>2, SendPushTyped DEF IInv
  <2>3. /\ \E d, n : snap' = [snap EXCEPT ![b][d] = n]
        /\ UNCHANGED <<world, subs, queue, ctx, control, pending, heard>>
    BY <1>8 DEF RecordSIMSnapshot, HandleSIMDiff
  <2> QED
    BY <1>3, <2>1, <2>2, <2>3
<1>9. CASE Send(b) \/ SendFails(b)
  <2>1. /\ loop' = [loop EXCEPT ![b] = Idle] /\ Idle.at # "off" /\ loop[b].at # "off"
        /\ UNCHANGED <<world, subs, queue, ctx, control, pending, heard, snap>>
    BY <1>9 DEF Send, SendFails, maps, Idle
  <2> QED
    BY <1>3, <2>1
<1>10. CASE LoopEnds(b)
  BY <1>1, <1>10 DEF LoopEnds, Elsewhere, maps, Off
<1> QED
  BY <1>4, <1>5, <1>6, <1>7, <1>8, <1>9, <1>10 DEF LoopStep

LEMMA TimerRunShape ==
    ASSUME IInv, NEW i \in DOMAIN timers, TimerRun(i)
    PROVE  /\ UNCHANGED <<world, subs, queue, ctx, loop, control, heard, raced, muted, toldSim, pushed>>
           /\ timers[i].bot \in Bots /\ timers[i].dev \in Devs
           /\ \/ UNCHANGED pending
              \/ pending' = [pending EXCEPT ![timers[i].bot][timers[i].dev] = 0]
           /\ \/ UNCHANGED snap
              \/ snap' = [snap EXCEPT ![timers[i].bot][timers[i].dev] = Unseen]
BY TimersAreTyped, TimerIsTyped
   DEF IInv, TimerRun, TimerFires, TimerUnlists, TimerClears, TimerSends, TimerSendFails,
       TimerStep, chat

LEMMA WorldShape ==
    ASSUME IInv, World
    PROVE  /\ UNCHANGED <<subs, ctx, loop, maps, control, chat, heard, raced, muted>>
           /\ \A b \in Bots \ subs : queue'[b] = queue[b]
BY DEF World, ModemAppears, ModemLeaves, ModemUpdates, Moved, MessageArrives, Fanout

-----------------------------------------------------------------------------
(* The lifecycle is kept.                                                   *)
LEMMA WorldLives ==
    ASSUME IInv, Lifecycle, World
    PROVE  Lifecycle'
BY WorldShape DEF Lifecycle, Controlled, Fresh, Alone, Reported, maps, control

(* One entry of a map of maps is set.                                       *)
LEMMA EntrySet ==
    ASSUME NEW S, NEW f \in [Bots -> [Devs -> S]], NEW b \in Bots, NEW d \in Devs, NEW v,
           NEW c \in Bots, NEW e \in Devs
    PROVE  [f EXCEPT ![b][d] = v][c][e] = IF c = b /\ e = d THEN v ELSE f[c][e]
<1>1. CASE c = b
  BY <1>1
<1>2. CASE c # b
  BY <1>2
<1> QED
  BY <1>1, <1>2

LEMMA TimersLive ==
    ASSUME IInv, Lifecycle, NEW i \in DOMAIN timers, TimerRun(i)
    PROVE  Lifecycle'
<1>1. /\ UNCHANGED <<world, subs, queue, ctx, loop, control, heard>>
      /\ timers[i].bot \in Bots /\ timers[i].dev \in Devs
      /\ \/ UNCHANGED pending
         \/ pending' = [pending EXCEPT ![timers[i].bot][timers[i].dev] = 0]
      /\ \/ UNCHANGED snap
         \/ snap' = [snap EXCEPT ![timers[i].bot][timers[i].dev] = Unseen]
  BY TimerRunShape
<1>2. /\ \A b \in Bots, d \in Devs : pending'[b][d] = pending[b][d] \/ pending'[b][d] = 0
      /\ \A b \in Bots, d \in Devs : snap'[b][d] = snap[b][d] \/ snap'[b][d] = Unseen
  <2>1. /\ pending \in [Bots -> [Devs -> 0..Len(timers)]]
        /\ snap \in [Bots -> [Devs -> Sims \cup {None, Unseen}]]
    BY DEF IInv, TypeOK
  <2>2. ASSUME NEW b \in Bots, NEW d \in Devs
        PROVE  pending'[b][d] = pending[b][d] \/ pending'[b][d] = 0
    <3>1. CASE pending' = pending
      BY <3>1
    <3>2. CASE pending' = [pending EXCEPT ![timers[i].bot][timers[i].dev] = 0]
      <4>1. pending'[b] = IF b = timers[i].bot THEN [pending[b] EXCEPT ![timers[i].dev] = 0]
                          ELSE pending[b]
        BY <1>1, <2>1, <3>2
      <4>2. pending[b] \in [Devs -> 0..Len(timers)]
        BY <2>1
      <4> QED
        BY <4>1, <4>2
    <3> QED
      BY <1>1, <3>1, <3>2
  <2>3. ASSUME NEW b \in Bots, NEW d \in Devs
        PROVE  snap'[b][d] = snap[b][d] \/ snap'[b][d] = Unseen
    <3>1. CASE snap' = snap
      BY <3>1
    <3>2. CASE snap' = [snap EXCEPT ![timers[i].bot][timers[i].dev] = Unseen]
      <4>1. snap'[b] = IF b = timers[i].bot THEN [snap[b] EXCEPT ![timers[i].dev] = Unseen]
                          ELSE snap[b]
        BY <1>1, <2>1, <3>2
      <4>2. snap[b] \in [Devs -> Sims \cup {None, Unseen}]
        BY <2>1
      <4> QED
        BY <4>1, <4>2
    <3> QED
      BY <1>1, <3>1, <3>2
  <2> QED
    BY <2>2, <2>3
<1>3. Controlled' /\ Alone'
  BY <1>1 DEF Lifecycle, Controlled, Alone, control
<1>4. Fresh' /\ Reported'
  BY <1>1, <1>2 DEF Lifecycle, Fresh, Reported
<1> QED
  BY <1>3, <1>4 DEF Lifecycle

LEMMA LoopReports ==
    ASSUME IInv, Reported, NEW b \in Bots, LoopStep(b)
    PROVE  Reported'
<1>1. /\ loop \in [Bots -> {Off, Idle} \cup Works]
      /\ pending \in [Bots -> [Devs -> 0..Len(timers)]]
      /\ heard \in [Bots -> [Devs -> {"nothing", "added", "removed"}]]
  BY DEF IInv, TypeOK, Works
<1>2. \A c \in Bots \ {b} : /\ loop'[c] = loop[c] /\ pending'[c] = pending[c]
                            /\ heard'[c] = heard[c]
  BY LoopStepShape DEF Elsewhere
<1>3. loop'[b].at = "send" => loop'[b].push.dev = loop'[b].ev.dev
  <2>1. CASE OnSMSReceived(b)
    BY <1>1, <2>1 DEF OnSMSReceived, Dispatch
  <2>2. CASE OnModemAdded(b)
    BY <1>1, <2>2 DEF OnModemAdded
  <2>3. CASE OnModemRemoved(b)
    BY <2>3 DEF OnModemRemoved, Reported
  <2>4. CASE OnModemUpdated(b)
    BY <1>1, <2>4 DEF OnModemUpdated
  <2>5. CASE RecordSIMSnapshot(b)
    BY <1>1, <2>5 DEF RecordSIMSnapshot, SendPush, Idle
  <2>6. CASE HandleSIMDiff(b)
    BY <1>1, <2>6 DEF HandleSIMDiff, SendPush, Idle
  <2>7. CASE Send(b) \/ SendFails(b) \/ LoopEnds(b)
    BY <1>1, <2>7 DEF Send, SendFails, LoopEnds, Idle, Off
  <2> QED
    BY <2>1, <2>2, <2>3, <2>4, <2>5, <2>6, <2>7 DEF LoopStep
<1>4. ASSUME NEW d \in Devs, pending'[b][d] # 0 PROVE heard'[b][d] = "removed"
  <2>1. CASE UNCHANGED <<pending, heard>>
    BY <1>4, <2>1 DEF Reported
  <2>2. ASSUME NEW e \in Devs, pending' = [pending EXCEPT ![b][e] = 0],
               heard' = [heard EXCEPT ![b][e] = "added"]
        PROVE  heard'[b][d] = "removed"
    BY <1>1, <1>4, <2>2 DEF Reported
  <2>3. ASSUME NEW e \in Devs, heard' = [heard EXCEPT ![b][e] = "removed"],
               pending' = [pending EXCEPT ![b][e] = Len(timers) + 1]
        PROVE  heard'[b][d] = "removed"
    BY <1>1, <1>4, <2>3 DEF Reported
  <2>4. CASE OnModemAdded(b)
    <3>1. Head(queue[b]).dev \in Devs
      BY <2>4, Dispatched DEF OnModemAdded
    <3> QED
      BY <2>2, <2>4, <3>1 DEF OnModemAdded
  <2>5. CASE OnModemRemoved(b)
    <3>1. Head(queue[b]).dev \in Devs
      BY <2>5, Dispatched DEF OnModemRemoved
    <3> QED
      BY <2>3, <2>5, <3>1 DEF OnModemRemoved
  <2>6. CASE ~OnModemAdded(b) /\ ~OnModemRemoved(b)
    BY <2>1, <2>6
       DEF LoopStep, OnSMSReceived, OnModemUpdated, RecordSIMSnapshot, HandleSIMDiff, Send,
           SendFails, LoopEnds, maps
  <2> QED
    BY <2>4, <2>5, <2>6
<1> QED
  BY <1>2, <1>3, <1>4 DEF Reported

LEMMA LoopsLive ==
    ASSUME IInv, Lifecycle, NEW b \in Bots, LoopStep(b)
    PROVE  Lifecycle'
<1>1. /\ UNCHANGED <<ctx, control>> /\ loop[b].at # "off" /\ Elsewhere(b)
      /\ \/ /\ UNCHANGED subs /\ loop'[b].at # "off"
            /\ queue' = queue \/ queue[b] # <<>>
         \/ subs' = subs \ {b} /\ loop'[b].at = "off" /\ queue'[b] = <<>>
  <2>1. /\ UNCHANGED <<ctx, control, present, arrived>>
        /\ loop[b].at # "off" /\ Elsewhere(b)
    BY LoopStepShape
  <2>2. \/ /\ UNCHANGED <<subs, missed>> /\ loop'[b].at # "off"
           /\ UNCHANGED queue \/ (queue[b] # <<>> /\ queue'[b] = Tail(queue[b]))
        \/ LoopEnds(b) /\ subs' = subs \ {b} /\ loop'[b].at = "off" /\ queue'[b] = <<>>
    BY LoopStepShape
  <2> QED
    BY <2>1, <2>2
<1>2. ctx[b] # "none"
  BY <1>1 DEF IInv, BotsAreBorn
<1>3. Fresh'
  BY <1>1, <1>2 DEF Lifecycle, Fresh, Elsewhere
<1>4. Controlled'
  BY <1>1 DEF Lifecycle, Controlled, control
<1>5. Alone'
  <2>1. UNCHANGED <<current, overdue>>
    BY <1>1 DEF control
  <2>2. ASSUME ~overdue, NEW c \in Bots
        PROVE  /\ loop'[c].at # "off" => c = current
               /\ c \in subs' => loop'[c].at # "off"
               /\ c \notin subs' => queue'[c] = <<>>
    <3>1. CASE c = b
      BY <1>1, <2>1, <2>2, <3>1 DEF Lifecycle, Alone
    <3>2. CASE c # b
      BY <1>1, <2>2, <3>2 DEF Lifecycle, Alone, Elsewhere
    <3> QED
      BY <3>1, <3>2
  <2> QED
    BY <2>1, <2>2 DEF Alone
<1> QED
  BY <1>3, <1>4, <1>5, LoopReports DEF Lifecycle

LEMMA ControlLives ==
    ASSUME IInv, Lifecycle, Reload \/ StopReturns \/ StopTimesOut \/ StartBot \/ StartFails
    PROVE  Lifecycle'
<1>1. /\ UNCHANGED <<world, queue, maps, heard>>
      /\ ctx \in [Bots -> {"none", "live", "cancelled"}]
      /\ loop \in [Bots -> {Off, Idle} \cup Works]
      /\ current \in {0} \cup Bots /\ 0 \notin Bots
  BY DEF Reload, StopReturns, StopTimesOut, StartBot, StartFails, IInv, TypeOK, Works, Bots
<1>2. CASE Reload
  <2>1. /\ ctx' = IF current = 0 THEN ctx ELSE [ctx EXCEPT ![current] = "cancelled"]
        /\ reload' = IF current = 0 THEN "starting" ELSE "stopping"
        /\ UNCHANGED <<subs, loop, current, overdue>>
    BY <1>2 DEF Reload
  <2>2. \A b \in Bots : ctx'[b] = ctx[b] \/ (b = current /\ ctx'[b] = "cancelled")
    BY <1>1, <2>1
  <2>3. current # 0 => ctx'[current] = "cancelled"
    BY <1>1, <2>1
  <2> QED
    BY <1>1, <2>1, <2>2, <2>3 DEF Lifecycle, Controlled, Fresh, Alone, Reported, maps
<1>3. CASE StopReturns
  <2>1. /\ reload = "stopping" /\ loop[current].at = "off"
        /\ reload' = "starting" /\ current' = 0 /\ UNCHANGED <<subs, ctx, loop, overdue>>
    BY <1>3 DEF StopReturns
  <2> QED
    BY <1>1, <2>1 DEF Lifecycle, Controlled, Fresh, Alone, Reported, maps
<1>4. CASE StopTimesOut
  <2>1. /\ reload = "stopping" /\ overdue' = TRUE
        /\ reload' = "starting" /\ current' = 0 /\ UNCHANGED <<subs, ctx, loop>>
    BY <1>4 DEF StopTimesOut
  <2> QED
    BY <1>1, <2>1 DEF Lifecycle, Controlled, Fresh, Alone, Reported, maps
<1>5. CASE StartFails
  BY <1>1, <1>5 DEF StartFails, Lifecycle, Controlled, Fresh, Alone, Reported, maps
<1>6. CASE StartBot
  <2>1. PICK b \in Bots \ Born :
          /\ ctx' = [ctx EXCEPT ![b] = "live"] /\ loop' = [loop EXCEPT ![b] = Idle]
          /\ subs' = subs \cup {b} /\ current' = b
    BY <1>6 DEF StartBot
  <2>2. reload = "starting" /\ reload' = "no" /\ UNCHANGED overdue
    BY <1>6 DEF StartBot
  <2>3. \A c \in Bots : ctx'[c] = IF c = b THEN "live" ELSE ctx[c]
    BY <1>1, <2>1
  <2>4. \A c \in Bots : loop'[c] = IF c = b THEN Idle ELSE loop[c]
    BY <1>1, <2>1
  <2>5. Controlled'
    BY <1>1, <2>1, <2>2, <2>3 DEF Lifecycle, Controlled
  <2>6. Fresh'
    BY <1>1, <2>3 DEF Lifecycle, Fresh, maps
  <2>7. Alone'
    BY <1>1, <2>1, <2>2, <2>4 DEF Lifecycle, Controlled, Alone, Idle
  <2>8. Reported'
    BY <1>1, <2>4 DEF Lifecycle, Reported, Idle, maps
  <2> QED
    BY <2>5, <2>6, <2>7, <2>8 DEF Lifecycle
<1> QED
  BY <1>2, <1>3, <1>4, <1>5, <1>6

LEMMA NextLives == ASSUME IInv, Lifecycle, [Next]_vars PROVE Lifecycle'
<1>1. CASE UNCHANGED vars
  BY <1>1 DEF vars, maps, control, Lifecycle, Controlled, Fresh, Alone, Reported
<1> QED
  BY <1>1, WorldLives, TimersLive, LoopsLive, ControlLives DEF Next

(* Bots follow one another: the lifecycle holds of every behaviour.         *)
THEOREM BotsFollowOneAnother == Spec => []Lifecycle
<1>1. Init => Lifecycle
  BY LifecycleHolds
<1>2. IInv /\ Lifecycle /\ [Next]_vars => Lifecycle'
  BY NextLives
<1> QED
  BY <1>1, <1>2, Invariance, PTL DEF Spec

-----------------------------------------------------------------------------
(* The channels.  What an event leaves in a channel, and what is taken.     *)
LEMMA ChannelIsTyped ==
    ASSUME TypeOK, NEW b \in Bots
    PROVE  /\ queue[b] \in Seq(Event) /\ Len(queue[b]) \in Nat
           /\ DOMAIN queue[b] = 1..Len(queue[b])
           /\ \A i \in 1..Len(queue[b]) : queue[b][i] \in Event
<1>1. queue[b] \in Seq(Event)
  BY DEF TypeOK
<1> QED
  BY <1>1, LenProperties, ElementOfSeq

LEMMA ChannelFilled ==
    ASSUME TypeOK, NEW ev \in Event, Fanout(ev), NEW b \in Bots
    PROVE  \/ queue'[b] = queue[b]
           \/ /\ b \in subs
              /\ Len(queue'[b]) = Len(queue[b]) + 1
              /\ DOMAIN queue'[b] = 1..Len(queue[b]) + 1
              /\ queue'[b][Len(queue[b]) + 1] = ev
              /\ \A i \in 1..Len(queue[b]) : queue'[b][i] = queue[b][i]
<1>1. queue[b] \in Seq(Event) /\ Len(queue[b]) \in Nat
  BY ChannelIsTyped
<1>2. queue'[b] = queue[b] \/ (b \in subs /\ queue'[b] = Append(queue[b], ev))
  BY DEF Fanout
<1> DEFINE q == Append(queue[b], ev)
<1>3. /\ q \in Seq(Event) /\ Len(q) = Len(queue[b]) + 1 /\ q[Len(queue[b]) + 1] = ev
      /\ \A i \in 1..Len(queue[b]) : q[i] = queue[b][i]
  BY <1>1, AppendProperties
<1>4. DOMAIN q = 1..Len(q)
  BY <1>3, LenProperties
<1> HIDE DEF q
<1> QED
  BY <1>2, <1>3, <1>4 DEF q

LEMMA ChannelTaken ==
    ASSUME TypeOK, NEW b \in Bots, queue[b] # <<>>
    PROVE  /\ Len(queue[b]) \in Nat \ {0} /\ Len(Tail(queue[b])) = Len(queue[b]) - 1
           /\ DOMAIN Tail(queue[b]) = 1..Len(queue[b]) - 1
           /\ Head(queue[b]) = queue[b][1]
           /\ \A i \in 1..Len(queue[b]) - 1 : Tail(queue[b])[i] = queue[b][i + 1]
<1>1. queue[b] \in Seq(Event) /\ Len(queue[b]) \in Nat
  BY ChannelIsTyped
<1>2. Len(queue[b]) # 0
  BY <1>1, EmptySeq
<1>3. /\ Tail(queue[b]) \in Seq(Event) /\ Len(Tail(queue[b])) = Len(queue[b]) - 1
      /\ \A i \in 1..Len(Tail(queue[b])) : Tail(queue[b])[i] = queue[b][i + 1]
  BY <1>1, HeadTailProperties
<1>4. DOMAIN Tail(queue[b]) = 1..Len(Tail(queue[b]))
  BY <1>3, LenProperties
<1>5. Head(queue[b]) = queue[b][1]
  BY <1>1
<1> QED
  BY <1>1, <1>2, <1>3, <1>4, <1>5

-----------------------------------------------------------------------------
(* A message is pushed once.  It is in one place at a time: not yet come,   *)
(* in the channel of the one bot there is, at one position, in the hands of *)
(* its push loop, or pushed.                                                *)
Sending(b, m) ==
    loop[b].at = "send" /\ loop[b].push.kind = "sms" /\ loop[b].push.msg = m

OneCopy(b, m) ==
    /\ Sending(b, m) => m \in arrived /\ pushed[m] = 0
    /\ \A i \in DOMAIN queue[b] : queue[b][i].msg = m =>
         /\ m \in arrived /\ pushed[m] = 0 /\ ~Sending(b, m)
         /\ \A j \in DOMAIN queue[b] : queue[b][j].msg = m => j = i

AtMostOnce(m) ==
    /\ pushed[m] <= 1
    /\ m \notin arrived => pushed[m] = 0
    /\ \A b \in Bots : OneCopy(b, m)

Once == ~overdue => \A m \in Texts : AtMostOnce(m)

LEMMA OnceHolds == Init => Once
<1> SUFFICES ASSUME Init, NEW m \in Texts PROVE AtMostOnce(m)
  BY DEF Once
<1>1. pushed[m] = 0 /\ \A b \in Bots : queue[b] = <<>> /\ loop[b].at = "off"
  BY DEF Init, Off
<1>2. \A b \in Bots : DOMAIN queue[b] = {}
  BY <1>1
<1> QED
  BY <1>1, <1>2 DEF AtMostOnce, OneCopy, Sending

LEMMA WorldOnce ==
    ASSUME IInv, World, NEW m \in Texts, AtMostOnce(m)
    PROVE  AtMostOnce(m)'
<1>1. ASSUME NEW ev \in Event, Fanout(ev), arrived' = arrived, ev.msg = None
      PROVE  AtMostOnce(m)'
  <2>1. UNCHANGED <<loop, pushed>>
    BY <1>1 DEF Fanout, chat
  <2>2. ev.msg # m
    BY <1>1, PushAssumption
  <2>3. ASSUME NEW b \in Bots PROVE OneCopy(b, m)'
    <3>1. CASE queue'[b] = queue[b]
      BY <1>1, <2>1, <3>1 DEF AtMostOnce, OneCopy, Sending
    <3>2. CASE queue'[b] # queue[b]
      <4>1. /\ DOMAIN queue'[b] = 1..Len(queue[b]) + 1 /\ queue'[b][Len(queue[b]) + 1] = ev
            /\ \A i \in 1..Len(queue[b]) : queue'[b][i] = queue[b][i]
        BY <1>1, <3>2, ChannelFilled DEF IInv
      <4>2. Len(queue[b]) \in Nat /\ DOMAIN queue[b] = 1..Len(queue[b])
        BY ChannelIsTyped DEF IInv
      <4>3. \A i \in DOMAIN queue'[b] : queue'[b][i].msg = m =>
              i \in DOMAIN queue[b] /\ queue[b][i].msg = m
        BY <2>2, <4>1, <4>2
      <4> QED
        BY <1>1, <2>1, <4>3 DEF AtMostOnce, OneCopy, Sending
    <3> QED
      BY <3>1, <3>2
  <2> QED
    BY <1>1, <2>1, <2>3 DEF AtMostOnce
<1>2. ASSUME NEW n \in Texts, MessageArrives(n)
      PROVE  AtMostOnce(m)'
  <2>1. PICK ev \in Event : Fanout(ev) /\ ev.msg = n
    <3>1. \A d \in Devs : [kind |-> "sms", dev |-> d, sim |-> None, msg |-> n] \in Event
      BY DEF Event
    <3> QED
      BY <1>2, <3>1 DEF MessageArrives
  <2>2. n \notin arrived /\ arrived' = arrived \cup {n}
    BY <1>2 DEF MessageArrives
  <2>3. UNCHANGED <<loop, pushed>>
    BY <2>1 DEF Fanout, chat
  <2>4. ASSUME NEW b \in Bots PROVE OneCopy(b, m)'
    <3>1. CASE queue'[b] = queue[b]
      BY <2>2, <2>3, <3>1 DEF AtMostOnce, OneCopy, Sending
    <3>2. CASE queue'[b] # queue[b]
      <4>1. /\ DOMAIN queue'[b] = 1..Len(queue[b]) + 1 /\ queue'[b][Len(queue[b]) + 1] = ev
            /\ \A i \in 1..Len(queue[b]) : queue'[b][i] = queue[b][i]
        BY <2>1, <3>2, ChannelFilled DEF IInv
      <4>2. Len(queue[b]) \in Nat /\ DOMAIN queue[b] = 1..Len(queue[b])
        BY ChannelIsTyped DEF IInv
      <4>3. CASE m # n
        <5>1. \A i \in DOMAIN queue'[b] : queue'[b][i].msg = m =>
                i \in DOMAIN queue[b] /\ queue[b][i].msg = m
          BY <2>1, <4>1, <4>2, <4>3
        <5> QED
          BY <2>2, <2>3, <5>1 DEF AtMostOnce, OneCopy, Sending
      <4>4. CASE m = n
        <5>1. pushed[m] = 0 /\ ~Sending(b, m) /\ \A i \in DOMAIN queue[b] : queue[b][i].msg # m
          BY <2>2, <4>4 DEF AtMostOnce, OneCopy
        <5>2. \A i \in DOMAIN queue'[b] : queue'[b][i].msg = m => i = Len(queue[b]) + 1
          BY <4>1, <4>2, <5>1
        <5> QED
          BY <2>2, <2>3, <4>4, <5>1, <5>2 DEF OneCopy, Sending
      <4> QED
        BY <4>3, <4>4
    <3> QED
      BY <3>1, <3>2
  <2> QED
    BY <2>2, <2>3, <2>4 DEF AtMostOnce
<1>3. ASSUME NEW d \in Devs, NEW kind \in {"added", "updated", "removed"},
             NEW here \in BOOLEAN, NEW s \in Sims \cup {None}, Moved(d, kind, here, s)
      PROVE  AtMostOnce(m)'
  <2>1. [kind |-> kind, dev |-> d, sim |-> s, msg |-> None] \in Event
    BY DEF Event
  <2> QED
    BY <1>1, <1>3, <2>1 DEF Moved
<1>4. \A d \in Devs : card[d] \in Sims \cup {None}
  BY DEF IInv, TypeOK
<1> QED
  BY <1>2, <1>3, <1>4 DEF World, ModemAppears, ModemLeaves, ModemUpdates

(* An event is taken, and the push loop does not take up the message m.     *)
LEMMA DispatchOnce ==
    ASSUME IInv, NEW b \in Bots, NEW kind, Dispatch(b, kind), NEW m \in Texts, AtMostOnce(m),
           Sending(b, m)' => Head(queue[b]).msg = m,
           \A c \in Bots \ {b} : loop'[c] = loop[c]
    PROVE  AtMostOnce(m)'
<1>1. /\ queue[b] # <<>> /\ queue' = [queue EXCEPT ![b] = Tail(@)]
      /\ UNCHANGED <<arrived, pushed>>
  BY DEF Dispatch, world, chat
<1>2. queue'[b] = Tail(queue[b]) /\ \A c \in Bots \ {b} : queue'[c] = queue[c]
  BY <1>1 DEF IInv, TypeOK
<1>3. ASSUME NEW c \in Bots, c # b PROVE OneCopy(c, m)'
  BY <1>1, <1>2, <1>3 DEF AtMostOnce, OneCopy, Sending
<1>4. /\ Len(queue[b]) \in Nat \ {0} /\ Head(queue[b]) = queue[b][1]
      /\ DOMAIN queue[b] = 1..Len(queue[b]) /\ DOMAIN queue'[b] = 1..Len(queue[b]) - 1
      /\ \A i \in 1..Len(queue[b]) - 1 : queue'[b][i] = queue[b][i + 1]
  BY <1>1, <1>2, ChannelTaken, ChannelIsTyped DEF IInv
<1>5. \A i \in DOMAIN queue'[b] : queue'[b][i].msg = m =>
        i + 1 \in DOMAIN queue[b] /\ queue[b][i + 1].msg = m /\ i \in Nat /\ i # 0
  BY <1>4
<1>6. 1 \in DOMAIN queue[b]
  BY <1>4
<1>7. OneCopy(b, m)
  BY DEF AtMostOnce
<1>8. ASSUME NEW i \in DOMAIN queue'[b], queue'[b][i].msg = m
      PROVE  /\ m \in arrived' /\ pushed'[m] = 0 /\ ~Sending(b, m)'
             /\ \A j \in DOMAIN queue'[b] : queue'[b][j].msg = m => j = i
  <2>1. i + 1 \in DOMAIN queue[b] /\ queue[b][i + 1].msg = m /\ i \in Nat /\ i # 0
    BY <1>5, <1>8
  <2>2. m \in arrived /\ pushed[m] = 0
    BY <1>7, <2>1 DEF OneCopy
  <2>3. ~Sending(b, m)'
    <3>1. 1 # i + 1
      BY <2>1
    <3>2. queue[b][1].msg # m
      BY <1>6, <1>7, <2>1, <3>1 DEF OneCopy
    <3> QED
      BY <1>4, <3>2
  <2>4. ASSUME NEW j \in DOMAIN queue'[b], queue'[b][j].msg = m PROVE j = i
    <3>1. j + 1 \in DOMAIN queue[b] /\ queue[b][j + 1].msg = m /\ j \in Nat
      BY <1>5, <2>4
    <3>2. j + 1 = i + 1
      BY <1>7, <2>1, <3>1 DEF OneCopy
    <3> QED
      BY <2>1, <3>1, <3>2
  <2> QED
    BY <1>1, <2>2, <2>3, <2>4
<1>9. ASSUME Sending(b, m)' PROVE m \in arrived' /\ pushed'[m] = 0
  <2>1. queue[b][1].msg = m
    BY <1>4, <1>9
  <2> QED
    BY <1>1, <1>6, <1>7, <2>1 DEF OneCopy
<1>10. OneCopy(b, m)'
  BY <1>8, <1>9 DEF OneCopy
<1> QED
  BY <1>1, <1>3, <1>10 DEF AtMostOnce

(* The push loop ends what it has in hand, or goes on with it, and no       *)
(* message leaves its channel.                                              *)
LEMMA ElsewhereOnce ==
    ASSUME IInv, NEW b \in Bots, NEW m \in Texts, AtMostOnce(m), Elsewhere(b),
           UNCHANGED <<arrived, pushed>>, queue'[b] \in {queue[b], <<>>}, ~Sending(b, m)'
    PROVE  AtMostOnce(m)'
<1>1. ASSUME NEW c \in Bots, c # b PROVE OneCopy(c, m)'
  BY <1>1 DEF Elsewhere, AtMostOnce, OneCopy, Sending
<1>2. OneCopy(b, m)'
  <2>1. CASE queue'[b] = queue[b]
    BY <2>1 DEF AtMostOnce, OneCopy
  <2>2. CASE queue'[b] = <<>>
    BY <2>2 DEF OneCopy
  <2> QED
    BY <2>1, <2>2
<1> QED
  BY <1>1, <1>2 DEF AtMostOnce

LEMMA LoopOnce ==
    ASSUME IInv, Lifecycle, ~overdue, NEW b \in Bots, LoopStep(b), NEW m \in Texts, AtMostOnce(m)
    PROVE  AtMostOnce(m)'
<1>1. loop \in [Bots -> {Off, Idle} \cup Works] /\ pushed \in [Texts -> Nat]
  BY DEF IInv, TypeOK, Works
<1>2. Elsewhere(b)
  BY LoopStepShape
<1>3. CASE OnSMSReceived(b)
  <2> DEFINE ev == Head(queue[b])
  <2>1. Dispatch(b, "sms")
    BY <1>3 DEF OnSMSReceived
  <2>2. \/ loop' = loop
        \/ loop' = [loop EXCEPT ![b] = [at |-> "send", ev |-> ev,
                      push |-> [kind |-> "sms", dev |-> ev.dev, sim |-> None, msg |-> ev.msg]]]
    BY <1>3 DEF OnSMSReceived
  <2>3. loop[b].at = "idle"
    BY <2>1 DEF Dispatch
  <2>4. Sending(b, m)' => ev.msg = m
    BY <1>1, <2>2, <2>3 DEF Sending
  <2> QED
    BY <1>2, <2>1, <2>4, DispatchOnce DEF Elsewhere
<1>4. CASE OnModemAdded(b)
  <2>1. Dispatch(b, "added") /\ ~Sending(b, m)'
    BY <1>1, <1>4 DEF OnModemAdded, Sending
  <2> QED
    BY <1>2, <2>1, DispatchOnce DEF Elsewhere
<1>5. CASE OnModemRemoved(b)
  <2>1. Dispatch(b, "removed") /\ ~Sending(b, m)'
    BY <1>1, <1>5 DEF OnModemRemoved, Sending, Dispatch
  <2> QED
    BY <1>2, <2>1, DispatchOnce DEF Elsewhere
<1>6. CASE OnModemUpdated(b)
  <2>1. Dispatch(b, "updated") /\ ~Sending(b, m)'
    BY <1>1, <1>6 DEF OnModemUpdated, Sending
  <2> QED
    BY <1>2, <2>1, DispatchOnce DEF Elsewhere
<1>7. CASE RecordSIMSnapshot(b) \/ HandleSIMDiff(b)
  <2>1. ~Sending(b, m)'
    BY <1>1, <1>7 DEF RecordSIMSnapshot, HandleSIMDiff, SendPush, Sending, Idle
  <2>2. UNCHANGED <<arrived, pushed, queue>>
    BY <1>7 DEF RecordSIMSnapshot, HandleSIMDiff, world, chat
  <2> QED
    BY <1>2, <2>1, <2>2, ElsewhereOnce
<1>8. CASE SendFails(b)
  <2>1. ~Sending(b, m)' /\ UNCHANGED <<arrived, pushed, queue>>
    BY <1>1, <1>8 DEF SendFails, Sending, Idle, world
  <2> QED
    BY <1>2, <2>1, ElsewhereOnce
<1>9. CASE LoopEnds(b)
  <2>1. ~Sending(b, m)' /\ UNCHANGED <<arrived, pushed>>
    BY <1>1, <1>9 DEF LoopEnds, Sending, Off, chat
  <2>2. queue'[b] = <<>>
    BY <1>9 DEF LoopEnds, IInv, TypeOK
  <2> QED
    BY <1>2, <2>1, <2>2, ElsewhereOnce
<1>10. CASE Send(b)
  <2>1. /\ loop[b].at = "send" /\ loop' = [loop EXCEPT ![b] = Idle]
        /\ pushed' = IF loop[b].push.kind = "sms" THEN [pushed EXCEPT ![loop[b].push.msg] = @ + 1]
                     ELSE pushed
        /\ UNCHANGED <<arrived, queue>>
    BY <1>10 DEF Send, world
  <2>2. ~Sending(b, m)'
    BY <1>1, <2>1 DEF Sending, Idle
  <2>3. CASE ~Sending(b, m)
    <3>1. pushed'[m] = pushed[m]
      BY <1>1, <2>1, <2>3 DEF Sending
    <3>2. \A c \in Bots : OneCopy(c, m)'
      BY <1>2, <2>1, <2>2, <3>1 DEF Elsewhere, AtMostOnce, OneCopy, Sending
    <3> QED
      BY <2>1, <3>1, <3>2 DEF AtMostOnce
  <2>4. CASE Sending(b, m)
    <3>1. pushed[m] = 0 /\ m \in arrived /\ \A i \in DOMAIN queue[b] : queue[b][i].msg # m
      BY <2>4 DEF AtMostOnce, OneCopy
    <3>2. pushed'[m] = 1
      BY <1>1, <2>1, <2>4, <3>1 DEF Sending
    <3>3. \A c \in Bots \ {b} : loop[c].at = "off" /\ queue[c] = <<>>
      BY <2>1 DEF Lifecycle, Alone
    <3>4. ASSUME NEW c \in Bots PROVE OneCopy(c, m)'
      <4>1. CASE c = b
        BY <2>1, <2>2, <3>1, <4>1 DEF OneCopy
      <4>2. CASE c # b
        <5>1. queue'[c] = <<>> /\ loop'[c].at = "off"
          BY <1>2, <3>3, <4>2 DEF Elsewhere
        <5> QED
          BY <5>1 DEF OneCopy, Sending
      <4> QED
        BY <4>1, <4>2
    <3> QED
      BY <2>1, <3>1, <3>2, <3>4 DEF AtMostOnce
  <2> QED
    BY <2>3, <2>4
<1> QED
  BY <1>3, <1>4, <1>5, <1>6, <1>7, <1>8, <1>9, <1>10 DEF LoopStep

(* Steps of the controller: no message moves, and no push loop sends that   *)
(* did not.                                                                 *)
LEMMA ControlOnce ==
    ASSUME IInv, NEW m \in Texts, AtMostOnce(m), UNCHANGED <<arrived, pushed, queue>>,
           \A b \in Bots : loop'[b] = loop[b] \/ loop'[b] = Idle
    PROVE  AtMostOnce(m)'
<1>1. \A b \in Bots : Sending(b, m)' => Sending(b, m)
  BY DEF Sending, Idle
<1>2. \A b \in Bots : OneCopy(b, m)'
  BY <1>1 DEF AtMostOnce, OneCopy
<1> QED
  BY <1>2 DEF AtMostOnce

LEMMA NextOnce == ASSUME IInv, Lifecycle, Once, [Next]_vars PROVE Once'
<1> SUFFICES ASSUME ~overdue', NEW m \in Texts PROVE AtMostOnce(m)'
  BY DEF Once
<1>1. CASE UNCHANGED vars
  BY <1>1 DEF vars, world, chat, control, Once, AtMostOnce, OneCopy, Sending
<1>2. CASE World
  BY <1>2, WorldOnce, WorldShape DEF Once, control
<1>3. ASSUME NEW b \in Bots, LoopStep(b) PROVE AtMostOnce(m)'
  <2>1. ~overdue
    BY <1>3, LoopStepShape DEF control
  <2> QED
    BY <1>3, <2>1, LoopOnce DEF Once
<1>4. ASSUME NEW i \in DOMAIN timers, TimerRun(i) PROVE AtMostOnce(m)'
  <2>1. UNCHANGED <<arrived, pushed, queue, loop, overdue>>
    BY <1>4, TimerRunShape DEF world, control
  <2> QED
    BY <2>1, ControlOnce DEF Once
<1>5. CASE Reload \/ StopReturns \/ StopTimesOut \/ StartBot \/ StartFails
  <2>1. /\ UNCHANGED <<arrived, pushed, queue>> /\ ~overdue
        /\ loop' = loop \/ \E b \in Bots : loop' = [loop EXCEPT ![b] = Idle]
    BY <1>5 DEF Reload, StopReturns, StopTimesOut, StartBot, StartFails, world, chat
  <2>2. \A b \in Bots : loop'[b] = loop[b] \/ loop'[b] = Idle
    BY <2>1 DEF IInv, TypeOK
  <2> QED
    BY <2>1, <2>2, ControlOnce DEF Once
<1> QED
  BY <1>1, <1>2, <1>3, <1>4, <1>5 DEF Next

(* An incoming message is pushed at most once, for any number of bots that  *)
(* Reload starts, as long as stop() does not give up waiting for one.       *)
THEOREM MessagesPushedOnce == Spec => []SmsPushedOnce
<1>1. Init => Once
  BY OnceHolds
<1>2. IInv /\ Lifecycle /\ Once /\ [Next]_vars => Once'
  BY NextOnce
<1>3. Once => SmsPushedOnce
  BY DEF Once, AtMostOnce, SmsPushedOnce
<1> QED
  BY <1>1, <1>2, <1>3, Invariance, BotsFollowOneAnother, PTL DEF Spec

-----------------------------------------------------------------------------
(* What the bot takes for the SIM of a modem was told, or its push loop is  *)
(* about to tell it: the snapshot is written one step before the push, and  *)
(* the timer may clear it in between.                                       *)
Announces(d) ==
    /\ loop[current].at = "send" /\ loop[current].push.kind # "sms"
    /\ loop[current].push.dev = d

SimKept(d) ==
    /\ Announces(d) => snap[current][d] \in {Unseen, loop[current].push.sim}
    /\ snap[current][d] # Unseen /\ d \notin muted
         => snap[current][d] = toldSim[d] \/ Announces(d)

SnapTold == ~overdue /\ faults = 0 /\ current # 0 => \A d \in Devs : SimKept(d)

LEMMA LoopTells ==
    ASSUME IInv, current # 0, LoopStep(current), faults' = 0, NEW d \in Devs, SimKept(d)
    PROVE  SimKept(d)'
<1> DEFINE b == current
<1>1. /\ b \in Bots /\ 0 \notin Bots /\ b' = b
      /\ loop \in [Bots -> {Off, Idle} \cup Works]
      /\ snap \in [Bots -> [Devs -> Sims \cup {None, Unseen}]]
      /\ toldSim \in [Devs -> Sims \cup {None, Unseen}]
  <2>1. b \in Bots /\ 0 \notin Bots
    BY DEF IInv, TypeOK, Bots
  <2>2. b' = b
    BY <2>1, LoopStepShape DEF control
  <2> QED
    BY <2>1, <2>2 DEF IInv, TypeOK, Works
<1> HIDE DEF b
<1>2. ASSUME loop[b].at # "send", UNCHANGED <<snap, toldSim, muted>>,
             \/ loop'[b].at # "send" \/ loop'[b].push.kind = "sms"
      PROVE  SimKept(d)'
  BY <1>1, <1>2 DEF SimKept, Announces, b
<1>3. CASE OnSMSReceived(b) \/ OnModemAdded(b) \/ OnModemRemoved(b) \/ OnModemUpdated(b)
  <2>1. loop[b].at = "idle" /\ UNCHANGED <<snap, toldSim, muted>>
    BY <1>3 DEF OnSMSReceived, OnModemAdded, OnModemRemoved, OnModemUpdated, Dispatch, chat, maps
  <2>2. CASE OnSMSReceived(b)
    <3>1. loop'[b].at # "send" \/ loop'[b].push.kind = "sms"
      BY <1>1, <2>1, <2>2 DEF OnSMSReceived
    <3> QED
      BY <1>2, <2>1, <3>1
  <2>3. CASE OnModemAdded(b) \/ OnModemRemoved(b) \/ OnModemUpdated(b)
    <3>1. loop'[b].at # "send"
      BY <1>1, <2>1, <2>3 DEF OnModemAdded, OnModemRemoved, OnModemUpdated
    <3> QED
      BY <1>2, <2>1, <3>1
  <2> QED
    BY <1>3, <2>2, <2>3
<1>4. ASSUME loop[b].at \in {"record", "diff"},
             snap' = [snap EXCEPT ![b][loop[b].ev.dev] = loop[b].ev.sim], UNCHANGED toldSim,
             \/ /\ loop'[b].at = "idle"
                /\ muted' = muted \/ muted' = muted \cup {loop[b].ev.dev}
                /\ snap[b][loop[b].ev.dev] # loop[b].ev.sim => loop[b].ev.dev \in muted'
             \/ /\ loop'[b].at = "send" /\ loop'[b].push.kind # "sms" /\ UNCHANGED muted
                /\ loop'[b].push.dev = loop[b].ev.dev /\ loop'[b].push.sim = loop[b].ev.sim
      PROVE  SimKept(d)'
  <2>1. loop[b].ev.dev \in Devs /\ loop[b].ev.sim \in Sims \cup {None}
    BY <1>1, <1>4, LoopIsTyped, EventIsTyped DEF IInv
  <2>2. ~Announces(d)
    BY <1>4 DEF Announces, b
  <2>3. CASE d = loop[b].ev.dev
    <3>1. snap'[b][d] = loop[b].ev.sim
      BY <1>1, <1>4, <2>1, <2>3
    <3>2. CASE loop'[b].at = "idle"
      <4>1. d \notin muted' => snap[b][d] = snap'[b][d] /\ d \notin muted
        BY <1>4, <2>3, <3>1, <3>2
      <4>2. ~Announces(d)'
        BY <1>1, <3>2 DEF Announces, b
      <4> QED
        BY <1>1, <1>4, <2>2, <4>1, <4>2 DEF SimKept, b
    <3>3. CASE loop'[b].at = "send"
      BY <1>1, <1>4, <2>3, <3>1, <3>3 DEF SimKept, Announces, b
    <3> QED
      BY <1>4, <3>2, <3>3
  <2>4. CASE d # loop[b].ev.dev
    <3>1. snap'[b][d] = snap[b][d] /\ (d \in muted' <=> d \in muted)
      BY <1>1, <1>4, <2>1, <2>4
    <3>2. ~Announces(d)'
      BY <1>1, <1>4, <2>4 DEF Announces, b
    <3> QED
      BY <1>1, <1>4, <2>2, <3>1, <3>2 DEF SimKept, b
  <2> QED
    BY <2>3, <2>4
<1>5. CASE RecordSIMSnapshot(b)
  <2>1. /\ loop[b].at \in {"record", "diff"} /\ UNCHANGED toldSim
        /\ snap' = [snap EXCEPT ![b][loop[b].ev.dev] = loop[b].ev.sim]
    BY <1>5 DEF RecordSIMSnapshot, chat
  <2>2. CASE loop[b].quiet
    BY <1>1, <1>4, <1>5, <2>1, <2>2 DEF RecordSIMSnapshot, Idle
  <2>3. CASE ~loop[b].quiet
    BY <1>1, <1>4, <1>5, <2>1, <2>3 DEF RecordSIMSnapshot, SendPush
  <2> QED
    BY <2>2, <2>3
<1>6. CASE HandleSIMDiff(b)
  <2>1. /\ loop[b].at \in {"record", "diff"} /\ UNCHANGED toldSim
        /\ snap' = [snap EXCEPT ![b][loop[b].ev.dev] = loop[b].ev.sim]
    BY <1>6 DEF HandleSIMDiff, chat
  <2>2. CASE snap[b][loop[b].ev.dev] \in {Unseen, loop[b].ev.sim}
    <3>1. loop'[b].at = "idle"
      BY <1>1, <1>6, <2>2 DEF HandleSIMDiff, Idle
    <3>2. /\ muted' = muted \/ muted' = muted \cup {loop[b].ev.dev}
          /\ snap[b][loop[b].ev.dev] # loop[b].ev.sim => loop[b].ev.dev \in muted'
      BY <1>6, <2>2 DEF HandleSIMDiff
    <3> QED
      BY <1>4, <2>1, <3>1, <3>2
  <2>3. CASE snap[b][loop[b].ev.dev] \notin {Unseen, loop[b].ev.sim}
    BY <1>1, <1>4, <1>6, <2>1, <2>3 DEF HandleSIMDiff, SendPush
  <2> QED
    BY <2>2, <2>3
<1>7. CASE Send(b)
  <2> DEFINE p == loop[b].push
  <2>1. /\ loop[b].at = "send" /\ loop' = [loop EXCEPT ![b] = Idle] /\ UNCHANGED snap
        /\ toldSim' = IF p.kind = "sms" THEN toldSim ELSE [toldSim EXCEPT ![p.dev] = p.sim]
        /\ muted' = IF p.kind = "sms" THEN muted ELSE muted \ {p.dev}
    BY <1>7 DEF Send, maps
  <2>2. ~Announces(d)'
    BY <1>1, <2>1 DEF Announces, Idle, b
  <2>3. CASE p.kind # "sms" /\ p.dev = d
    <3>1. toldSim'[d] = p.sim
      BY <1>1, <2>1, <2>3
    <3>2. snap[b][d] \in {Unseen, p.sim}
      BY <2>1, <2>3 DEF SimKept, Announces, b
    <3> QED
      BY <1>1, <2>1, <2>2, <3>1, <3>2 DEF SimKept, b
  <2>4. CASE p.kind = "sms" \/ p.dev # d
    <3>1. toldSim'[d] = toldSim[d] /\ (d \in muted' <=> d \in muted)
      BY <1>1, <2>1, <2>4
    <3>2. ~Announces(d)
      BY <2>4 DEF Announces, b
    <3> QED
      BY <1>1, <2>1, <2>2, <3>1, <3>2 DEF SimKept, b
  <2> QED
    BY <2>3, <2>4
<1>8. CASE SendFails(b)
  <2>1. faults \in Nat /\ faults' = faults + 1
    BY <1>8 DEF SendFails, SendFault, IInv, TypeOK
  <2> QED
    BY <2>1
<1>9. CASE LoopEnds(b)
  BY <1>1, <1>2, <1>9 DEF LoopEnds, maps, chat, Off
<1> QED
  BY <1>3, <1>5, <1>6, <1>7, <1>8, <1>9 DEF LoopStep, b

LEMMA NextTells == ASSUME IInv, Lifecycle, SnapTold, [Next]_vars PROVE SnapTold'
<1> SUFFICES ASSUME ~overdue', faults' = 0, current' # 0, NEW d \in Devs PROVE SimKept(d)'
  BY DEF SnapTold
<1>1. ASSUME UNCHANGED <<overdue, faults, current, loop, toldSim, muted>>,
             snap'[current][d] \in {snap[current][d], Unseen}
      PROVE  SimKept(d)'
  BY <1>1 DEF SnapTold, SimKept, Announces
<1>2. CASE UNCHANGED vars
  BY <1>1, <1>2 DEF vars, control, chat, maps
<1>3. CASE World
  BY <1>1, <1>3, WorldShape DEF control, chat, maps
<1>4. ASSUME NEW b \in Bots, LoopStep(b) PROVE SimKept(d)'
  <2>1. ~overdue /\ current = b /\ current # 0
    BY <1>4, LoopStepShape DEF control, Lifecycle, Alone, Bots
  <2>2. faults = 0
    <3>1. faults \in Nat /\ (faults' = faults \/ faults' = faults + 1)
      BY <1>4 DEF LoopStep, OnSMSReceived, OnModemAdded, OnModemRemoved, OnModemUpdated, Dispatch,
                  RecordSIMSnapshot, HandleSIMDiff, Send, SendFails, SendFault, LoopEnds, chat,
                  IInv, TypeOK
    <3> QED
      BY <3>1
  <2> QED
    BY <1>4, <2>1, <2>2, LoopTells DEF SnapTold
<1>5. ASSUME NEW i \in DOMAIN timers, TimerRun(i) PROVE SimKept(d)'
  <2>1. /\ UNCHANGED <<overdue, current, loop, toldSim, muted>>
        /\ timers[i].bot \in Bots /\ timers[i].dev \in Devs
        /\ \/ UNCHANGED snap
           \/ snap' = [snap EXCEPT ![timers[i].bot][timers[i].dev] = Unseen]
    BY <1>5, TimerRunShape DEF control
  <2>2. faults' = faults
    <3>1. faults \in Nat /\ (faults' = faults \/ faults' = faults + 1)
      BY <1>5 DEF TimerRun, TimerFires, TimerUnlists, TimerClears, TimerSends, TimerSendFails,
                  SendFault, chat, IInv, TypeOK
    <3> QED
      BY <3>1
  <2>3. current \in Bots /\ snap \in [Bots -> [Devs -> Sims \cup {None, Unseen}]]
    BY <2>1 DEF IInv, TypeOK
  <2>4. snap'[current][d] \in {snap[current][d], Unseen}
    <3>1. CASE snap' = snap
      BY <3>1
    <3>2. CASE snap' = [snap EXCEPT ![timers[i].bot][timers[i].dev] = Unseen]
      <4>1. snap'[current] = IF current = timers[i].bot
                             THEN [snap[current] EXCEPT ![timers[i].dev] = Unseen]
                             ELSE snap[current]
        BY <2>1, <2>3, <3>2
      <4>2. snap[current] \in [Devs -> Sims \cup {None, Unseen}]
        BY <2>3
      <4> QED
        BY <4>1, <4>2
    <3> QED
      BY <2>1, <3>1, <3>2
  <2> QED
    BY <1>1, <2>1, <2>2, <2>4
<1>6. CASE Reload \/ StartFails
  BY <1>1, <1>6 DEF Reload, StartFails, chat, maps
<1>7. CASE StopReturns \/ StopTimesOut
  BY <1>7 DEF StopReturns, StopTimesOut
<1>8. CASE StartBot
  <2>1. PICK b \in Bots \ Born : loop' = [loop EXCEPT ![b] = Idle] /\ current' = b
    BY <1>8 DEF StartBot
  <2>2. snap'[b][d] = Unseen
    BY <1>8, <2>1 DEF StartBot, Lifecycle, Fresh, Born, maps
  <2>3. loop'[b].at = "idle"
    BY <2>1 DEF IInv, TypeOK, Idle
  <2> QED
    BY <2>1, <2>2, <2>3 DEF SimKept, Announces
<1> QED
  BY <1>2, <1>3, <1>4, <1>5, <1>6, <1>7, <1>8 DEF Next

(* What the bot takes for the SIM of a modem is what the chat was told,     *)
(* whatever order the push loop and the timers run in.                      *)
THEOREM SimsAreTold == Spec => []SimIsTold
<1>1. Init => SnapTold
  BY DEF Init, SnapTold
<1>2. IInv /\ Lifecycle /\ SnapTold /\ [Next]_vars => SnapTold'
  BY NextTells
<1>3. IInv /\ Lifecycle /\ SnapTold => SimIsTold
  <2> SUFFICES ASSUME Lifecycle, SnapTold, NEW d \in Devs, IInv,
                      current # 0, snap[current][d] # Unseen, ~Handles(current, d),
                      d \notin muted, faults = 0, ~overdue
               PROVE  snap[current][d] = toldSim[d]
    BY DEF SimIsTold
  <2>1. current \in Bots
    BY DEF IInv, TypeOK
  <2>2. ~Announces(d)
    BY <2>1 DEF Announces, Handles, Lifecycle, Reported
  <2> QED
    BY <2>2 DEF SnapTold, SimKept
<1> QED
  BY <1>1, <1>2, <1>3, Invariance, BotsFollowOneAnother, PTL DEF Spec

-----------------------------------------------------------------------------
(* "Offline" is not the last word about a modem that is back.  For a modem  *)
(* that the exceptions of NoStaleOffline do not concern:                    *)
(* - Runs: a timer function that runs either belongs to the bot there is,   *)
(*   which has seen the modem leave and not return, and whose entry is that *)
(*   timer until it removes it; or to an earlier bot, and then this one has *)
(*   not heard of the modem;                                                *)
(* - Arms: a timer that can still fire is the one of the entry;             *)
(* - Untold: an absence that may still be kept quiet was not told;          *)
(* - Fleeting: after "offline" the modem has not returned, or "online" is   *)
(*   on its way;                                                            *)
(* - Alternate: in what is to come for the bot, starting with the modem     *)
(*   being gone now if it is, between two departures there is a return, and *)
(*   after the last one when the modem is there.                            *)
Trusted(d) == d \notin raced \cup missed /\ faults = 0 /\ ~overdue

OnTheWay(d) ==
    /\ current # 0
    /\ \/ loop[current].at = "record" /\ ~loop[current].quiet /\ loop[current].ev.dev = d
       \/ /\ loop[current].at = "send" /\ loop[current].push.kind = "online"
          /\ loop[current].push.dev = d

Runs(d) ==
    current # 0 =>
      \A i \in DOMAIN timers : timers[i].dev = d /\ Running(timers[i]) =>
        IF timers[i].bot = current
        THEN /\ heard[current][d] = "removed"
             /\ pending[current][d] = IF timers[i].at = "fired" THEN i ELSE 0
        ELSE heard[current][d] = "nothing"

Arms(d) ==
    \A i \in DOMAIN timers :
      timers[i].dev = d /\ timers[i].at = "armed" /\ ctx[timers[i].bot] = "live"
        => pending[timers[i].bot][d] = i

Untold(d) == current # 0 /\ pending[current][d] # 0 => told[d] # "offline"

Fleeting(d) ==
    current # 0 /\ told[d] = "offline" => heard[current][d] # "added" \/ OnTheWay(d)

Gone(d) == \/ told[d] = "offline" /\ ~OnTheWay(d)
           \/ current # 0 /\ heard[current][d] = "removed"
           \/ TimerRuns(d)

Coming == IF current = 0 THEN <<>> ELSE queue[current]

Departs(d, i) == IF i = 0 THEN Gone(d) ELSE Coming[i].kind = "removed" /\ Coming[i].dev = d
Returns(d, i) == Coming[i].kind = "added" /\ Coming[i].dev = d

Alternate(d) ==
    \A i \in 0..Len(Coming) : Departs(d, i) =>
      /\ \A k \in i + 1..Len(Coming) : Departs(d, k) => \E j \in i + 1..k - 1 : Returns(d, j)
      /\ present[d] => \E j \in i + 1..Len(Coming) : Returns(d, j)

Story(d) == Runs(d) /\ Arms(d) /\ Untold(d) /\ Fleeting(d) /\ Alternate(d)
Stories == \A d \in Devs : Trusted(d) => Story(d)

LEMMA ComingIsTyped ==
    ASSUME IInv
    PROVE  Len(Coming) \in Nat /\ Coming \in Seq(Event)
<1>1. CASE current = 0
  BY <1>1, EmptySeq DEF Coming
<1>2. CASE current # 0
  <2>1. current \in Bots
    BY <1>2 DEF IInv, TypeOK
  <2> QED
    BY <1>2, <2>1, ChannelIsTyped DEF Coming, IInv
<1> QED
  BY <1>1, <1>2

(* Nothing is appended and nothing taken.                                   *)
LEMMA ComingStays ==
    ASSUME NEW d, Alternate(d), Coming' = Coming,
           Gone(d)' => Gone(d), present'[d] => present[d]
    PROVE  Alternate(d)'
<1>1. \A i \in 0..Len(Coming) : /\ Departs(d, i)' => Departs(d, i)
                                /\ Returns(d, i)' <=> Returns(d, i)
  BY DEF Departs, Returns
<1>2. ASSUME NEW i \in 0..Len(Coming), Departs(d, i)'
      PROVE  /\ \A k \in i + 1..Len(Coming) : Departs(d, k)' => \E j \in i + 1..k - 1 : Returns(d, j)'
             /\ present'[d] => \E j \in i + 1..Len(Coming) : Returns(d, j)'
  <2>1. \A j : Returns(d, j)' <=> Returns(d, j)
    BY DEF Returns
  <2>2. \A k \in i + 1..Len(Coming) : Departs(d, k)' => Departs(d, k)
    BY DEF Departs
  <2>3. Departs(d, i)
    BY <1>1, <1>2
  <2> QED
    BY <2>1, <2>2, <2>3 DEF Alternate
<1> QED
  BY <1>2 DEF Alternate

(* An event is appended: one that is not about the modem coming or going,   *)
(* its return, or its departure when it was there.                          *)
LEMMA ComingGrows ==
    ASSUME NEW d, Alternate(d), NEW n \in Nat, Len(Coming) = n, Len(Coming)' = n + 1,
           \A i \in 1..n : Coming'[i] = Coming[i],
           Gone(d)' => Gone(d),
           \/ ~Departs(d, n + 1)' /\ ~Returns(d, n + 1)' /\ (present'[d] => present[d])
           \/ Returns(d, n + 1)' /\ ~Departs(d, n + 1)'
           \/ Departs(d, n + 1)' /\ present[d] /\ ~present'[d]
    PROVE  Alternate(d)'
<1>1. \A i \in 0..n : Departs(d, i)' => Departs(d, i)
  BY DEF Departs
<1>2. \A i \in 1..n : Returns(d, i) => Returns(d, i)'
  BY DEF Returns
<1>3. ASSUME NEW i \in 0..n + 1, Departs(d, i)', NEW k \in i + 1..n + 1, Departs(d, k)'
      PROVE  \E j \in i + 1..k - 1 : Returns(d, j)'
  <2>1. i \in 0..n /\ Departs(d, i)
    BY <1>1, <1>3
  <2>2. CASE k \in i + 1..n
    <3>1. Departs(d, k)
      BY <1>1, <1>3, <2>2
    <3>2. PICK j \in i + 1..k - 1 : Returns(d, j)
      BY <2>1, <2>2, <3>1 DEF Alternate
    <3>3. j \in 1..n
      BY <2>1, <2>2, <3>2
    <3> QED
      BY <1>2, <3>2, <3>3
  <2>3. CASE k = n + 1
    <3>1. present[d]
      BY <1>3, <2>3
    <3>2. PICK j \in i + 1..n : Returns(d, j)
      BY <2>1, <3>1 DEF Alternate
    <3>3. j \in 1..n /\ j \in i + 1..k - 1
      BY <2>1, <2>3, <3>2
    <3> QED
      BY <1>2, <3>2, <3>3
  <2> QED
    BY <1>3, <2>2, <2>3
<1>4. ASSUME NEW i \in 0..n + 1, Departs(d, i)', present'[d]
      PROVE  \E j \in i + 1..n + 1 : Returns(d, j)'
  <2>1. i \in 0..n /\ Departs(d, i)
    BY <1>1, <1>4
  <2>2. CASE Returns(d, n + 1)'
    BY <2>1, <2>2
  <2>3. CASE ~Returns(d, n + 1)'
    <3>1. present[d]
      BY <1>4, <2>3
    <3>2. PICK j \in i + 1..n : Returns(d, j)
      BY <2>1, <3>1 DEF Alternate
    <3>3. j \in 1..n /\ j \in i + 1..n + 1
      BY <2>1, <3>2
    <3> QED
      BY <1>2, <3>2, <3>3
  <2> QED
    BY <2>2, <2>3
<1> QED
  BY <1>3, <1>4 DEF Alternate

(* An event is taken: one that is not the return of the modem, any after    *)
(* which the modem is not gone, or its departure.                           *)
LEMMA ComingShrinks ==
    ASSUME NEW d, Alternate(d), NEW n \in Nat, Len(Coming) = n + 1, Len(Coming)' = n,
           \A i \in 1..n : Coming'[i] = Coming[i + 1],
           present'[d] => present[d],
           \/ (Gone(d)' => Gone(d)) /\ ~Returns(d, 1)
           \/ ~Gone(d)'
           \/ Departs(d, 1)
    PROVE  Alternate(d)'
<1>1. \A i \in 1..n : Departs(d, i)' => Departs(d, i + 1)
  BY DEF Departs
<1>2. \A j \in 2..n + 1 : Returns(d, j) => Returns(d, j - 1)'
  BY DEF Returns
<1>3. ASSUME NEW i \in 0..n, Departs(d, i)'
      PROVE  \E o \in 0..n + 1 : Departs(d, o) /\ o <= i + 1
                                 /\ \A j \in o + 1..n + 1 : Returns(d, j) => j > i + 1
  <2>1. CASE i # 0
    <3>1. i + 1 \in 0..n + 1 /\ i \in 1..n
      BY <2>1
    <3>2. \A j \in i + 2..n + 1 : j > i + 1
      OBVIOUS
    <3> QED
      BY <1>1, <1>3, <3>1, <3>2
  <2>2. CASE i = 0 /\ Departs(d, 1)
    <3>1. 1 \in 0..n + 1 /\ \A j \in 2..n + 1 : j > 1
      OBVIOUS
    <3> QED
      BY <2>2, <3>1
  <2>3. CASE i = 0 /\ ~Departs(d, 1)
    <3>1. Gone(d)'
      BY <1>3, <2>3 DEF Departs
    <3>2. Departs(d, 0) /\ ~Returns(d, 1)
      BY <2>3, <3>1 DEF Departs
    <3>3. \A j \in 1..n + 1 : Returns(d, j) => j > 1
      BY <3>2
    <3>4. 0 \in 0..n + 1
      OBVIOUS
    <3> QED
      BY <2>3, <3>2, <3>3, <3>4
  <2> QED
    BY <2>1, <2>2, <2>3
<1>4. ASSUME NEW i \in 0..n, Departs(d, i)', NEW k \in i + 1..n, Departs(d, k)'
      PROVE  \E j \in i + 1..k - 1 : Returns(d, j)'
  <2>1. PICK o \in 0..n + 1 : /\ Departs(d, o) /\ o <= i + 1
                              /\ \A j \in o + 1..n + 1 : Returns(d, j) => j > i + 1
    BY <1>3, <1>4
  <2>2. Departs(d, k + 1) /\ k + 1 \in o + 1..n + 1
    BY <1>1, <1>4, <2>1
  <2>3. PICK j \in o + 1..k : Returns(d, j)
    BY <2>1, <2>2 DEF Alternate
  <2>4. j > i + 1 /\ j \in 2..n + 1 /\ j - 1 \in i + 1..k - 1
    BY <2>1, <2>3
  <2> QED
    BY <1>2, <2>3, <2>4
<1>5. ASSUME NEW i \in 0..n, Departs(d, i)', present'[d]
      PROVE  \E j \in i + 1..n : Returns(d, j)'
  <2>1. PICK o \in 0..n + 1 : /\ Departs(d, o) /\ o <= i + 1
                              /\ \A j \in o + 1..n + 1 : Returns(d, j) => j > i + 1
    BY <1>3, <1>5
  <2>2. PICK j \in o + 1..n + 1 : Returns(d, j)
    BY <1>5, <2>1 DEF Alternate
  <2>3. j > i + 1 /\ j \in 2..n + 1 /\ j - 1 \in i + 1..n
    BY <2>1, <2>2
  <2> QED
    BY <1>2, <2>2, <2>3
<1> QED
  BY <1>4, <1>5 DEF Alternate

(* No timer of the modem is armed or starts to run.                         *)
SameTimers(d) ==
    \A i \in DOMAIN timers' :
      timers'[i].dev = d /\ (timers'[i].at = "armed" \/ Running(timers'[i]))
        => i \in DOMAIN timers /\ timers'[i] = timers[i]

(* A step that is not about the modem: what is left is its channel.         *)
LEMMA NotAbout ==
    ASSUME IInv, NEW d \in Devs, Runs(d), Arms(d), Untold(d), Fleeting(d),
           current' = current, SameTimers(d),
           \A b \in Bots : /\ heard'[b][d] = heard[b][d] /\ pending'[b][d] = pending[b][d]
                           /\ ctx'[b] = "live" => ctx[b] = "live",
           told'[d] = "offline" => told[d] = "offline" /\ (OnTheWay(d)' <=> OnTheWay(d))
    PROVE  /\ Runs(d)' /\ Arms(d)' /\ Untold(d)' /\ Fleeting(d)'
           /\ Gone(d)' => Gone(d)
<1>1. current = 0 \/ current \in Bots
  BY DEF IInv, TypeOK
<1>2. \A i \in DOMAIN timers : timers[i].bot \in Bots
  BY TimersAreTyped, TimerIsTyped DEF IInv
<1>3. Runs(d)'
  <2> SUFFICES ASSUME current # 0, NEW i \in DOMAIN timers',
                      timers'[i].dev = d, Running(timers'[i])
               PROVE  IF timers'[i].bot = current
                      THEN /\ heard'[current][d] = "removed"
                           /\ pending'[current][d] = IF timers'[i].at = "fired" THEN i ELSE 0
                      ELSE heard'[current][d] = "nothing"
    BY DEF Runs
  <2>1. i \in DOMAIN timers /\ timers'[i] = timers[i]
    BY DEF SameTimers
  <2>2. Running(timers[i]) /\ timers[i].dev = d
    BY <2>1
  <2> QED
    BY <1>1, <2>1, <2>2 DEF Runs
<1>4. Arms(d)'
  <2> SUFFICES ASSUME NEW i \in DOMAIN timers', timers'[i].dev = d, timers'[i].at = "armed",
                      ctx'[timers'[i].bot] = "live"
               PROVE  pending'[timers'[i].bot][d] = i
    BY DEF Arms
  <2>1. i \in DOMAIN timers /\ timers'[i] = timers[i]
    BY DEF SameTimers
  <2> QED
    BY <1>2, <2>1 DEF Arms
<1>5. Untold(d)' /\ Fleeting(d)'
  BY <1>1 DEF Untold, Fleeting
<1>6. TimerRuns(d)' => TimerRuns(d)
  BY DEF TimerRuns, SameTimers
<1>7. Gone(d)' => Gone(d)
  BY <1>1, <1>6 DEF Gone
<1> QED
  BY <1>3, <1>4, <1>5, <1>7

(* Nothing that was excused is trusted again.                               *)
LEMMA TrustIsLost ==
    ASSUME IInv, [Next]_vars, NEW d \in Devs, Trusted(d)'
    PROVE  Trusted(d)
<1>1. overdue' = overdue \/ overdue' = TRUE
  BY DEF Next, World, ModemAppears, ModemLeaves, ModemUpdates, Moved, MessageArrives, Fanout,
         LoopStep, OnSMSReceived, OnModemAdded, OnModemRemoved, OnModemUpdated, Dispatch,
         RecordSIMSnapshot, HandleSIMDiff, Send, SendFails, LoopEnds, TimerRun, TimerFires,
         TimerUnlists, TimerClears, TimerSends, TimerSendFails, TimerStep, Reload, StopReturns,
         StopTimesOut, StartBot, StartFails, vars, control
<1>2. faults' = faults \/ faults' = faults + 1
  BY DEF Next, World, ModemAppears, ModemLeaves, ModemUpdates, Moved, MessageArrives, Fanout,
         LoopStep, OnSMSReceived, OnModemAdded, OnModemRemoved, OnModemUpdated, Dispatch,
         RecordSIMSnapshot, HandleSIMDiff, Send, SendFails, LoopEnds, TimerRun, TimerFires,
         TimerUnlists, TimerClears, TimerSends, TimerSendFails, TimerStep, Reload, StopReturns,
         StopTimesOut, StartBot, StartFails, vars, chat, SendFault
<1>3. raced \subseteq raced'
  BY DEF Next, World, ModemAppears, ModemLeaves, ModemUpdates, Moved, MessageArrives, Fanout,
         LoopStep, OnSMSReceived, OnModemAdded, OnModemRemoved, OnModemUpdated, Dispatch, Meets,
         RecordSIMSnapshot, HandleSIMDiff, Send, SendFails, LoopEnds, TimerRun, TimerFires,
         TimerUnlists, TimerClears, TimerSends, TimerSendFails, TimerStep, Reload, StopReturns,
         StopTimesOut, StartBot, StartFails, vars
<1>4. missed \subseteq missed'
  BY DEF Next, World, ModemAppears, ModemLeaves, ModemUpdates, Moved, MessageArrives, Fanout,
         LoopStep, OnSMSReceived, OnModemAdded, OnModemRemoved, OnModemUpdated, Dispatch,
         RecordSIMSnapshot, HandleSIMDiff, Send, SendFails, LoopEnds, TimerRun, TimerFires,
         TimerUnlists, TimerClears, TimerSends, TimerSendFails, TimerStep, Reload, StopReturns,
         StopTimesOut, StartBot, StartFails, vars, world
<1>5. faults \in Nat
  BY DEF IInv, TypeOK
<1>6. faults' = 0 => faults = 0
  BY <1>2, <1>5
<1> QED
  BY <1>1, <1>3, <1>4, <1>6 DEF Trusted

-----------------------------------------------------------------------------
(* The runner tells an event.                                               *)
LEMMA WorldTellsStory ==
    ASSUME IInv, Lifecycle, World, NEW d \in Devs, Trusted(d)', Story(d)
    PROVE  Story(d)'
<1>1. /\ UNCHANGED <<subs, ctx, loop, pending, timers, current, overdue, told, heard, faults>>
      /\ ~overdue
  BY WorldShape DEF maps, control, chat, Trusted
<1>2. SameTimers(d) /\ (OnTheWay(d)' <=> OnTheWay(d))
  BY <1>1 DEF SameTimers, OnTheWay
<1>3. Runs(d)' /\ Arms(d)' /\ Untold(d)' /\ Fleeting(d)' /\ (Gone(d)' => Gone(d))
  BY <1>1, <1>2, NotAbout DEF Story
<1>4. PICK n \in Nat : Len(Coming) = n
  BY ComingIsTyped
<1>5. ASSUME NEW ev \in Event, Fanout(ev)
      PROVE  \/ /\ Coming' = Coming
                /\ ev.kind = "added" => ev.dev \in missed'
             \/ /\ Len(Coming)' = n + 1 /\ Coming'[n + 1] = ev
                /\ \A i \in 1..n : Coming'[i] = Coming[i]
  <2>1. CASE current = 0
    <3>1. subs = {}
      BY <1>1, <2>1 DEF Lifecycle, Alone, Bots, IInv, TypeOK
    <3>2. ev.kind = "added" => ev.dev \in missed'
      BY <1>5, <3>1 DEF Fanout
    <3> QED
      BY <1>1, <2>1, <3>2 DEF Coming
  <2>2. CASE current # 0
    <3>1. current \in Bots /\ \A b \in subs : b = current
      BY <1>1, <2>2 DEF Lifecycle, Alone, IInv, TypeOK
    <3>2. Coming = queue[current] /\ Coming' = queue'[current] /\ Len(queue[current]) = n
      BY <1>1, <1>4, <2>2 DEF Coming
    <3>3. CASE current \in subs /\ Len(queue[current]) < EventCap
      <4>1. queue'[current] = Append(queue[current], ev)
        BY <1>5, <3>1, <3>3 DEF Fanout
      <4>2. queue[current] \in Seq(Event)
        BY <3>1, ChannelIsTyped DEF IInv
      <4>3. /\ Len(Append(queue[current], ev)) = Len(queue[current]) + 1
            /\ Append(queue[current], ev)[Len(queue[current]) + 1] = ev
            /\ \A i \in 1..Len(queue[current]) :
                 Append(queue[current], ev)[i] = queue[current][i]
        BY <4>2, AppendProperties
      <4> QED
        BY <3>2, <4>1, <4>3
    <3>4. CASE ~(current \in subs /\ Len(queue[current]) < EventCap)
      <4>1. queue'[current] = queue[current]
        BY <1>5, <3>1, <3>4 DEF Fanout
      <4>2. Len(queue[current]) \in Nat /\ EventCap \in Nat
        BY <3>1, ChannelIsTyped, PushAssumption DEF IInv
      <4>3. \A b \in subs : Len(queue[b]) >= EventCap
        BY <3>1, <3>4, <4>2
      <4>4. ev.kind = "added" => ev.dev \in missed'
        BY <1>5, <4>3 DEF Fanout
      <4> QED
        BY <3>2, <4>1, <4>4
    <3> QED
      BY <3>3, <3>4
  <2> QED
    BY <2>1, <2>2
<1>6. d \notin missed'
  BY DEF Trusted
<1>7. n + 1 # 0
  BY <1>4
<1>8. ASSUME NEW ev \in Event, Fanout(ev),
             \/ ev.dev # d /\ (present'[d] => present[d])
             \/ ev.kind \in {"sms", "updated"} /\ (present'[d] => present[d])
             \/ ev.kind = "added" /\ ev.dev = d
             \/ ev.kind = "removed" /\ present[d] /\ ~present'[d]
      PROVE  Alternate(d)'
  <2>1. CASE Coming' = Coming /\ (ev.kind = "added" => ev.dev \in missed')
    <3>1. present'[d] => present[d]
      BY <1>6, <1>8, <2>1
    <3> QED
      BY <1>3, <2>1, <3>1, ComingStays DEF Story
  <2>2. CASE /\ Len(Coming)' = n + 1 /\ Coming'[n + 1] = ev
             /\ \A i \in 1..n : Coming'[i] = Coming[i]
    <3>1. /\ Departs(d, n + 1)' <=> (ev.kind = "removed" /\ ev.dev = d)
          /\ Returns(d, n + 1)' <=> (ev.kind = "added" /\ ev.dev = d)
      BY <1>7, <2>2 DEF Departs, Returns
    <3>2. \/ ~Departs(d, n + 1)' /\ ~Returns(d, n + 1)' /\ (present'[d] => present[d])
          \/ Returns(d, n + 1)' /\ ~Departs(d, n + 1)'
          \/ Departs(d, n + 1)' /\ present[d] /\ ~present'[d]
      BY <1>8, <3>1
    <3> QED
      BY <1>3, <1>4, <2>2, <3>2, ComingGrows DEF Story
  <2> QED
    BY <1>5, <1>8, <2>1, <2>2
<1>9. ASSUME NEW e \in Devs, NEW kind \in {"added", "updated", "removed"}, NEW here \in BOOLEAN,
             NEW s \in Sims \cup {None}, Moved(e, kind, here, s),
             kind = "removed" => present[e] /\ ~here,
             kind = "updated" => present[e]
      PROVE  Alternate(d)'
  <2> DEFINE ev == [kind |-> kind, dev |-> e, sim |-> s, msg |-> None]
  <2>1. ev \in Event /\ ev.kind = kind /\ ev.dev = e
    BY DEF Event
  <2>2. Fanout(ev) /\ present' = [present EXCEPT ![e] = here]
    BY <1>9 DEF Moved
  <2> HIDE DEF ev
  <2>3. present'[e] = here /\ \A x \in Devs \ {e} : present'[x] = present[x]
    BY <2>2 DEF IInv, TypeOK
  <2>4. CASE e # d
    BY <1>8, <2>1, <2>2, <2>3, <2>4
  <2>5. CASE e = d
    BY <1>8, <1>9, <2>1, <2>2, <2>3, <2>5
  <2> QED
    BY <2>4, <2>5
<1>10. ASSUME NEW m \in Texts, MessageArrives(m)
       PROVE  Alternate(d)'
  <2>1. PICK ev \in Event : Fanout(ev) /\ ev.kind = "sms"
    <3>1. \A e \in Devs : [kind |-> "sms", dev |-> e, sim |-> None, msg |-> m] \in Event
      BY DEF Event
    <3> QED
      BY <1>10, <3>1 DEF MessageArrives
  <2>2. present' = present
    BY <1>10 DEF MessageArrives
  <2> QED
    BY <1>8, <2>1, <2>2
<1>11. \A e \in Devs : card[e] \in Sims \cup {None}
  BY DEF IInv, TypeOK
<1>12. Alternate(d)'
  <2>1. ASSUME NEW e \in Devs, ModemAppears(e) PROVE Alternate(d)'
    BY <1>9, <2>1 DEF ModemAppears
  <2>2. ASSUME NEW e \in Devs, ModemLeaves(e) PROVE Alternate(d)'
    BY <1>9, <1>11, <2>2 DEF ModemLeaves
  <2>3. ASSUME NEW e \in Devs, ModemUpdates(e) PROVE Alternate(d)'
    BY <1>9, <2>3 DEF ModemUpdates
  <2> QED
    BY <1>10, <2>1, <2>2, <2>3 DEF World
<1> QED
  BY <1>3, <1>12 DEF Story

-----------------------------------------------------------------------------
(* The push loop of the current bot takes an event that is not the modem's  *)
(* departure or return.                                                     *)
LEMMA ChannelOfCurrent ==
    ASSUME IInv, current # 0, queue[current] # <<>>,
           queue' = [queue EXCEPT ![current] = Tail(@)], current' = current
    PROVE  \E n \in Nat : /\ Len(Coming) = n + 1 /\ Len(Coming)' = n
                          /\ \A i \in 1..n : Coming'[i] = Coming[i + 1]
                          /\ Coming[1] = Head(queue[current]) /\ 1 \in 0..Len(Coming)
<1>1. current \in Bots
  BY DEF IInv, TypeOK
<1>2. Coming = queue[current] /\ Coming' = Tail(queue[current])
  BY <1>1 DEF Coming, IInv, TypeOK
<1>3. /\ Len(queue[current]) \in Nat \ {0}
      /\ Len(Tail(queue[current])) = Len(queue[current]) - 1
      /\ Head(queue[current]) = queue[current][1]
      /\ \A i \in 1..Len(queue[current]) - 1 : Tail(queue[current])[i] = queue[current][i + 1]
  BY <1>1, ChannelTaken DEF IInv
<1>4. PICK n \in Nat : Len(queue[current]) = n + 1
  <2>1. Len(queue[current]) - 1 \in Nat /\ Len(queue[current]) = (Len(queue[current]) - 1) + 1
    BY <1>3
  <2> QED
    BY <2>1
<1>5. n + 1 - 1 = n /\ 1 \in 0..n + 1
  BY <1>4
<1> QED
  BY <1>2, <1>3, <1>4, <1>5

LEMMA OtherEventTellsStory ==
    ASSUME IInv, NEW d \in Devs, Story(d), current # 0,
           NEW kind, Dispatch(current, kind), SameTimers(d),
           ~(Head(queue[current]).dev = d /\ kind \in {"added", "removed"}),
           loop'[current].at \in {"idle", "diff", "send", "record"},
           loop'[current].at = "send" => loop'[current].push.kind = "sms",
           loop'[current].at = "record" => loop'[current].quiet \/ loop'[current].ev.dev # d,
           \A b \in Bots : heard'[b][d] = heard[b][d] /\ pending'[b][d] = pending[b][d]
    PROVE  Story(d)'
<1>1. /\ UNCHANGED <<world, subs, ctx, control, chat>> /\ loop[current].at = "idle"
      /\ queue[current] # <<>> /\ queue' = [queue EXCEPT ![current] = Tail(@)]
      /\ Head(queue[current]).kind = kind
  BY DEF Dispatch
<1>2. UNCHANGED <<current, told, present>>
  BY <1>1 DEF world, control, chat
<1>3. ~OnTheWay(d) /\ ~OnTheWay(d)'
  BY <1>1, <1>2 DEF OnTheWay
<1>4. Runs(d)' /\ Arms(d)' /\ Untold(d)' /\ Fleeting(d)' /\ (Gone(d)' => Gone(d))
  BY <1>1, <1>2, <1>3, NotAbout DEF Story
<1>5. PICK n \in Nat : /\ Len(Coming) = n + 1 /\ Len(Coming)' = n
                       /\ \A i \in 1..n : Coming'[i] = Coming[i + 1]
                       /\ Coming[1] = Head(queue[current])
  BY <1>1, <1>2, ChannelOfCurrent
<1>6. ~Returns(d, 1)
  BY <1>1, <1>5 DEF Returns
<1>7. Alternate(d)'
  BY <1>2, <1>4, <1>5, <1>6, ComingShrinks DEF Story
<1> QED
  BY <1>4, <1>7 DEF Story

(* What cancelPendingOffline and scheduleOffline do to the timers.          *)
LEMMA AddedTimers ==
    ASSUME IInv, NEW b \in Bots, OnModemAdded(b)
    PROVE  /\ DOMAIN timers' = DOMAIN timers
           /\ \A i \in DOMAIN timers :
                /\ timers'[i].dev = timers[i].dev /\ timers'[i].bot = timers[i].bot
                /\ Running(timers'[i]) => timers'[i] = timers[i]
                /\ timers'[i].at = "armed"
                     => timers'[i] = timers[i] /\ i # pending[b][Head(queue[b]).dev]
                /\ i = pending[b][Head(queue[b]).dev] => timers[i].dev = Head(queue[b]).dev
<1> DEFINE k == pending[b][Head(queue[b]).dev]
<1>1. /\ Head(queue[b]).dev \in Devs
      /\ timers' = IF k # 0 THEN [timers EXCEPT ![k] = Stopped(k)] ELSE timers
  BY Dispatched DEF OnModemAdded
<1>2. /\ timers \in [1..Len(timers) -> Timer] /\ Len(timers) \in Nat /\ k \in 0..Len(timers)
      /\ DOMAIN timers = 1..Len(timers)
  BY <1>1, TimersAreTyped DEF IInv
<1>3. k # 0 => timers[k].dev = Head(queue[b]).dev
  BY <1>1 DEF IInv, PendingIsAlive
<1> HIDE DEF k
<1>4. DOMAIN timers' = DOMAIN timers
  BY <1>1
<1>5. ASSUME NEW i \in DOMAIN timers
      PROVE  /\ timers'[i].dev = timers[i].dev /\ timers'[i].bot = timers[i].bot
             /\ Running(timers'[i]) => timers'[i] = timers[i]
             /\ timers'[i].at = "armed" => timers'[i] = timers[i] /\ i # k
             /\ i = k => timers[i].dev = Head(queue[b]).dev
  <2>1. timers[i] \in Timer /\ i # 0
    BY <1>2
  <2>2. CASE i # k
    <3>1. timers'[i] = timers[i]
      BY <1>1, <1>2, <2>1, <2>2
    <3> QED
      BY <2>2, <3>1
  <2>3. CASE i = k
    <3>1. timers'[i] = Stopped(i)
      BY <1>1, <1>2, <2>1, <2>3
    <3>2. CASE timers[i].at = "armed"
      <4>1. timers'[i] = [timers[i] EXCEPT !.at = "stopped"]
        BY <3>1, <3>2 DEF Stopped
      <4>2. timers'[i].dev = timers[i].dev /\ timers'[i].bot = timers[i].bot
            /\ timers'[i].at = "stopped"
        BY <2>1, <4>1 DEF Timer
      <4> QED
        BY <1>3, <2>1, <2>3, <4>2 DEF Running
    <3>3. CASE timers[i].at # "armed"
      BY <1>3, <2>1, <2>3, <3>1, <3>3 DEF Stopped
    <3> QED
      BY <3>2, <3>3
  <2> QED
    BY <2>2, <2>3
<1> QED
  BY <1>4, <1>5 DEF k

LEMMA RemovedTimers ==
    ASSUME IInv, NEW b \in Bots, OnModemRemoved(b)
    PROVE  /\ Len(timers) + 1 \in DOMAIN timers' /\ Len(timers) \in Nat
           /\ timers'[Len(timers) + 1] = [bot |-> b, dev |-> Head(queue[b]).dev, at |-> "armed"]
           /\ \A i \in DOMAIN timers' \ {Len(timers) + 1} :
                /\ i \in DOMAIN timers
                /\ timers'[i].dev = timers[i].dev /\ timers'[i].bot = timers[i].bot
                /\ Running(timers'[i]) => timers'[i] = timers[i]
                /\ timers'[i].at = "armed" => timers'[i] = timers[i]
<1> DEFINE k   == pending[b][Head(queue[b]).dev]
           old == IF k # 0 THEN [timers EXCEPT ![k] = Stopped(k)] ELSE timers
           new == [bot |-> b, dev |-> Head(queue[b]).dev, at |-> "armed"]
<1>1. Head(queue[b]).dev \in Devs /\ timers' = Append(old, new)
  BY Dispatched DEF OnModemRemoved
<1>2. /\ timers \in [1..Len(timers) -> Timer] /\ Len(timers) \in Nat /\ k \in 0..Len(timers)
      /\ DOMAIN timers = 1..Len(timers) /\ timers \in Seq(Timer)
  BY <1>1, TimersAreTyped DEF IInv, TypeOK
<1>3. old \in Seq(Timer) /\ Len(old) = Len(timers)
  BY <1>2, TimerStops DEF IInv, Ticked
<1>4. ASSUME NEW i \in DOMAIN timers
      PROVE  /\ old[i].dev = timers[i].dev /\ old[i].bot = timers[i].bot
             /\ Running(old[i]) => old[i] = timers[i]
             /\ old[i].at = "armed" => old[i] = timers[i]
  <2>1. timers[i] \in Timer /\ i # 0
    BY <1>2
  <2>2. CASE i # k
    <3>1. old[i] = timers[i]
      BY <1>2, <2>1, <2>2
    <3> QED
      BY <3>1
  <2>3. CASE i = k
    <3>1. old[i] = Stopped(i)
      BY <1>2, <2>1, <2>3
    <3>2. CASE timers[i].at = "armed"
      <4>1. old[i] = [timers[i] EXCEPT !.at = "stopped"]
        BY <3>1, <3>2 DEF Stopped
      <4>2. old[i].dev = timers[i].dev /\ old[i].bot = timers[i].bot /\ old[i].at = "stopped"
        BY <2>1, <4>1 DEF Timer
      <4> QED
        BY <4>2 DEF Running
    <3>3. CASE timers[i].at # "armed"
      BY <3>1, <3>3 DEF Stopped
    <3> QED
      BY <3>2, <3>3
  <2> QED
    BY <2>2, <2>3
<1>5. new \in Timer
  BY <1>1 DEF Timer
<1> HIDE DEF k, old, new
<1>6. /\ Append(old, new) \in Seq(Timer) /\ Len(Append(old, new)) = Len(timers) + 1
      /\ Append(old, new)[Len(timers) + 1] = new
      /\ \A i \in 1..Len(timers) : Append(old, new)[i] = old[i]
  BY <1>3, <1>5, AppendProperties
<1>7. DOMAIN timers' = 1..Len(timers) + 1
  BY <1>1, <1>6, LenProperties
<1>8. \A i \in DOMAIN timers' \ {Len(timers) + 1} : i \in 1..Len(timers)
  BY <1>2, <1>7
<1>9. timers'[Len(timers) + 1] = new /\ \A i \in 1..Len(timers) : timers'[i] = old[i]
  BY <1>1, <1>6
<1>10. Len(timers) + 1 \in DOMAIN timers'
  BY <1>2, <1>7
<1> QED
  BY <1>2, <1>4, <1>8, <1>9, <1>10 DEF new

(* The return of the modem is taken: no timer function was running, or the  *)
(* modem would be raced; the timer of the entry is stopped.                 *)
LEMMA ReturnTellsStory ==
    ASSUME IInv, Lifecycle, NEW d \in Devs, Story(d), Trusted(d)', current # 0,
           OnModemAdded(current), Head(queue[current]).dev = d
    PROVE  Story(d)'
<1>1. /\ Dispatch(current, "added") /\ pending' = [pending EXCEPT ![current][d] = 0]
      /\ loop' = [loop EXCEPT ![current] = [at |-> "record", ev |-> Head(queue[current]),
                                            quiet |-> pending[current][d] # 0]]
      /\ raced' = IF TimerRuns(d) THEN raced \cup {d} ELSE raced
  BY DEF OnModemAdded, Meets
<1>2. /\ UNCHANGED <<ctx, current, told, present>> /\ loop[current].at = "idle"
      /\ queue[current] # <<>> /\ queue' = [queue EXCEPT ![current] = Tail(@)]
  BY <1>1 DEF Dispatch, world, control, chat
<1>3. /\ current \in Bots /\ loop \in [Bots -> {Off, Idle} \cup Works]
      /\ pending \in [Bots -> [Devs -> 0..Len(timers)]]
  BY DEF IInv, TypeOK, Works
<1>4. heard'[current][d] = "added"
  BY <1>3 DEF OnModemAdded, IInv, TypeOK
<1>5. pending'[current][d] = 0
  BY <1>1, <1>3
<1>6. ~TimerRuns(d)
  BY <1>1 DEF Trusted
<1>7. ~TimerRuns(d)'
  BY <1>3, <1>6, AddedTimers DEF TimerRuns
<1>8. Runs(d)'
  BY <1>7 DEF Runs, TimerRuns
<1>9. Arms(d)'
  <2> SUFFICES ASSUME NEW i \in DOMAIN timers', timers'[i].dev = d, timers'[i].at = "armed",
                      ctx'[timers'[i].bot] = "live"
               PROVE  FALSE
    BY DEF Arms
  <2>1. i \in DOMAIN timers /\ timers'[i] = timers[i] /\ i # pending[current][d]
    BY <1>3, AddedTimers
  <2>2. timers[i].bot \in Bots
    BY <2>1, TimersAreTyped, TimerIsTyped DEF IInv
  <2>3. timers[i].bot = current
    BY <1>2, <2>1, <2>2 DEF Lifecycle, Controlled
  <2>4. pending[current][d] = i
    BY <1>2, <2>1, <2>3 DEF Story, Arms
  <2> QED
    BY <2>1, <2>4
<1>10. Untold(d)'
  BY <1>2, <1>5 DEF Untold
<1>11. told[d] = "offline" => OnTheWay(d)'
  <2>1. told[d] = "offline" => pending[current][d] = 0
    BY DEF Story, Untold
  <2>2. /\ loop'[current].at = "record" /\ loop'[current].ev.dev = d
        /\ loop'[current].quiet = (pending[current][d] # 0)
    BY <1>1, <1>3
  <2> QED
    BY <1>2, <2>1, <2>2 DEF OnTheWay
<1>12. Fleeting(d)'
  BY <1>2, <1>11 DEF Fleeting
<1>13. ~Gone(d)'
  BY <1>2, <1>4, <1>7, <1>11 DEF Gone
<1>14. PICK n \in Nat : /\ Len(Coming) = n + 1 /\ Len(Coming)' = n
                        /\ \A i \in 1..n : Coming'[i] = Coming[i + 1]
  BY <1>2, ChannelOfCurrent
<1>15. Alternate(d)'
  BY <1>2, <1>13, <1>14, ComingShrinks DEF Story
<1> QED
  BY <1>8, <1>9, <1>10, <1>12, <1>15 DEF Story

(* The departure of the modem is taken: the modem was not gone, so that it  *)
(* has no entry, no timer runs and "offline" was not told.                  *)
LEMMA DepartureTellsStory ==
    ASSUME IInv, Lifecycle, NEW d \in Devs, Story(d), current # 0,
           OnModemRemoved(current), Head(queue[current]).dev = d
    PROVE  Story(d)'
<1>1. /\ Dispatch(current, "removed") /\ UNCHANGED loop
      /\ pending' = [pending EXCEPT ![current][d] = Len(timers) + 1]
      /\ heard' = [heard EXCEPT ![current][d] = "removed"]
  BY DEF OnModemRemoved
<1>2. /\ UNCHANGED <<ctx, current, told, present>> /\ loop[current].at = "idle"
      /\ queue[current] # <<>> /\ queue' = [queue EXCEPT ![current] = Tail(@)]
      /\ Head(queue[current]).kind = "removed"
  BY <1>1 DEF Dispatch, world, control, chat
<1>3. /\ current \in Bots /\ pending \in [Bots -> [Devs -> 0..Len(timers)]]
      /\ heard \in [Bots -> [Devs -> {"nothing", "added", "removed"}]]
  BY DEF IInv, TypeOK
<1>4. PICK n \in Nat : /\ Len(Coming) = n + 1 /\ Len(Coming)' = n
                       /\ \A i \in 1..n : Coming'[i] = Coming[i + 1]
                       /\ Coming[1] = Head(queue[current]) /\ 1 \in 0..Len(Coming)
  BY <1>2, ChannelOfCurrent
<1>5. Departs(d, 1)
  BY <1>2, <1>4 DEF Departs
<1>6. ~Gone(d)
  <2>1. ASSUME Departs(d, 0) PROVE FALSE
    <3>1. 0 \in 0..Len(Coming) /\ 1 \in 0 + 1..Len(Coming) /\ 0 + 1..1 - 1 = {}
      BY <1>4
    <3> QED
      BY <1>5, <2>1, <3>1 DEF Story, Alternate
  <2> QED
    BY <2>1 DEF Departs
<1>7. told[d] # "offline" /\ heard[current][d] # "removed" /\ ~TimerRuns(d)
  BY <1>2, <1>6 DEF Gone, OnTheWay
<1>8. pending[current][d] = 0
  BY <1>3, <1>7 DEF Lifecycle, Reported
<1>13. timers'[Len(timers) + 1] = [bot |-> current, dev |-> d, at |-> "armed"]
  BY <1>3, RemovedTimers
<1>14. timers'[Len(timers) + 1].bot = current /\ ~Running(timers'[Len(timers) + 1])
  BY <1>13 DEF Running
<1>15. pending'[current][d] = Len(timers) + 1
  BY <1>1, <1>3
<1>9. Runs(d)'
  <2> SUFFICES ASSUME NEW i \in DOMAIN timers', timers'[i].dev = d, Running(timers'[i])
               PROVE  FALSE
    BY DEF Runs
  <2>1. i # Len(timers) + 1
    BY <1>14
  <2> QED
    BY <1>3, <1>7, <2>1, RemovedTimers DEF TimerRuns
<1>10. Arms(d)'
  <2> SUFFICES ASSUME NEW i \in DOMAIN timers', timers'[i].dev = d, timers'[i].at = "armed",
                      ctx'[timers'[i].bot] = "live"
               PROVE  pending'[timers'[i].bot][d] = i
    BY DEF Arms
  <2>1. CASE i = Len(timers) + 1
    BY <1>14, <1>15, <2>1
  <2>2. CASE i # Len(timers) + 1
    <3>1. i \in DOMAIN timers /\ timers'[i] = timers[i]
      BY <1>3, <2>2, RemovedTimers
    <3>2. timers[i].bot \in Bots /\ i # 0
      BY <3>1, TimersAreTyped, TimerIsTyped DEF IInv
    <3>3. timers[i].bot = current
      BY <1>2, <3>1, <3>2 DEF Lifecycle, Controlled
    <3> QED
      BY <1>2, <1>8, <3>1, <3>2, <3>3 DEF Story, Arms
  <2> QED
    BY <2>1, <2>2
<1>11. Untold(d)' /\ Fleeting(d)'
  BY <1>2, <1>7 DEF Untold, Fleeting
<1>12. Alternate(d)'
  BY <1>2, <1>4, <1>5, ComingShrinks DEF Story
<1> QED
  BY <1>9, <1>10, <1>11, <1>12 DEF Story

LEMMA LoopTellsStory ==
    ASSUME IInv, Lifecycle, NEW b \in Bots, LoopStep(b), NEW d \in Devs,
           Trusted(d), Trusted(d)', Story(d)
    PROVE  Story(d)'
<1>1. /\ current = b /\ current # 0 /\ UNCHANGED <<ctx, current, present>>
      /\ loop[b].at # "off"
  BY LoopStepShape DEF control, Trusted, Lifecycle, Alone, Bots
<1>2. /\ loop \in [Bots -> {Off, Idle} \cup Works] /\ told \in [Devs -> {"nothing", "online", "offline"}]
      /\ pending \in [Bots -> [Devs -> 0..Len(timers)]]
      /\ heard \in [Bots -> [Devs -> {"nothing", "added", "removed"}]]
  BY DEF IInv, TypeOK, Works
<1>3. CASE OnSMSReceived(b)
  <2>1. /\ Dispatch(b, "sms") /\ UNCHANGED <<maps, heard>>
        /\ \/ loop' = loop
           \/ loop' = [loop EXCEPT ![b] = [at |-> "send", ev |-> Head(queue[b]),
                push |-> [kind |-> "sms", dev |-> Head(queue[b]).dev, sim |-> None,
                          msg |-> Head(queue[b]).msg]]]
    BY <1>3 DEF OnSMSReceived
  <2>2. loop[b].at = "idle"
    BY <2>1 DEF Dispatch
  <2>3. /\ loop'[b].at \in {"idle", "send"}
        /\ loop'[b].at = "send" => loop'[b].push.kind = "sms"
    BY <1>2, <2>1, <2>2
  <2>4. SameTimers(d)
    BY <2>1 DEF maps, SameTimers
  <2> QED
    BY <1>1, <2>1, <2>3, <2>4, OtherEventTellsStory DEF maps
<1>4. CASE OnModemUpdated(b)
  <2>1. Dispatch(b, "updated") /\ UNCHANGED <<maps, heard>>
    BY <1>4 DEF OnModemUpdated
  <2>2. loop'[b].at \in {"record", "diff"} /\ (loop'[b].at = "record" => loop'[b].quiet)
    BY <1>2, <1>4 DEF OnModemUpdated
  <2>3. SameTimers(d)
    BY <2>1 DEF maps, SameTimers
  <2> QED
    BY <1>1, <2>1, <2>2, <2>3, OtherEventTellsStory DEF maps
<1>5. CASE OnModemAdded(b) /\ Head(queue[b]).dev # d
  <2> DEFINE e == Head(queue[b]).dev
  <2>1. /\ Dispatch(b, "added") /\ e \in Devs
        /\ pending' = [pending EXCEPT ![b][e] = 0]
        /\ heard' = [heard EXCEPT ![b][e] = "added"]
        /\ loop' = [loop EXCEPT ![b] = [at |-> "record", ev |-> Head(queue[b]),
                                        quiet |-> pending[b][e] # 0]]
    BY <1>5, Dispatched DEF OnModemAdded
  <2>2. SameTimers(d)
    BY <1>5, AddedTimers DEF SameTimers
  <2>3. loop'[b].at = "record" /\ loop'[b].ev.dev # d
    BY <1>2, <1>5, <2>1
  <2>4. \A c \in Bots : heard'[c][d] = heard[c][d] /\ pending'[c][d] = pending[c][d]
    <3> HIDE DEF e
    <3>1. e # d
      BY <1>5 DEF e
    <3> QED
      BY <1>2, <2>1, <3>1
  <2> QED
    BY <1>1, <1>5, <2>1, <2>2, <2>3, <2>4, OtherEventTellsStory
<1>6. CASE OnModemRemoved(b) /\ Head(queue[b]).dev # d
  <2> DEFINE e == Head(queue[b]).dev
  <2>1. /\ Dispatch(b, "removed") /\ e \in Devs /\ UNCHANGED loop
        /\ pending' = [pending EXCEPT ![b][e] = Len(timers) + 1]
        /\ heard' = [heard EXCEPT ![b][e] = "removed"]
    BY <1>6, Dispatched DEF OnModemRemoved
  <2>2. SameTimers(d)
    <3>2. timers'[Len(timers) + 1] = [bot |-> b, dev |-> e, at |-> "armed"]
      BY <1>6, RemovedTimers
    <3>1. timers'[Len(timers) + 1].dev # d
      BY <1>6, <3>2
    <3> QED
      BY <1>6, <3>1, RemovedTimers DEF SameTimers
  <2>3. loop'[b].at = "idle"
    BY <2>1 DEF Dispatch
  <2>4. \A c \in Bots : heard'[c][d] = heard[c][d] /\ pending'[c][d] = pending[c][d]
    <3> HIDE DEF e
    <3>1. e # d
      BY <1>6 DEF e
    <3> QED
      BY <1>2, <2>1, <3>1
  <2> QED
    BY <1>1, <1>6, <2>1, <2>2, <2>3, <2>4, OtherEventTellsStory
<1>7. CASE OnModemAdded(b) /\ Head(queue[b]).dev = d
  BY <1>1, <1>7, ReturnTellsStory
<1>8. CASE OnModemRemoved(b) /\ Head(queue[b]).dev = d
  BY <1>1, <1>8, DepartureTellsStory
<1>9. ASSUME UNCHANGED <<queue, pending, timers, heard>>,
             told'[d] = "offline" => told[d] = "offline" /\ (OnTheWay(d)' <=> OnTheWay(d))
      PROVE  Story(d)'
  <2>1. Coming' = Coming
    BY <1>1, <1>9 DEF Coming
  <2>2. SameTimers(d)
    BY <1>9 DEF SameTimers
  <2>3. Runs(d)' /\ Arms(d)' /\ Untold(d)' /\ Fleeting(d)' /\ (Gone(d)' => Gone(d))
    BY <1>1, <1>9, <2>2, NotAbout DEF Story
  <2> QED
    BY <1>1, <2>1, <2>3, ComingStays DEF Story
<1>10. CASE RecordSIMSnapshot(b)
  <2>1. loop[b].at = "record" /\ UNCHANGED <<queue, pending, timers, heard, told>>
    BY <1>10 DEF RecordSIMSnapshot, chat
  <2>2. OnTheWay(d)' <=> OnTheWay(d)
    <3>1. CASE loop[b].quiet
      <4>1. loop'[b].at = "idle"
        BY <1>2, <1>10, <3>1 DEF RecordSIMSnapshot, Idle
      <4> QED
        BY <1>1, <2>1, <3>1, <4>1 DEF OnTheWay
    <3>2. CASE ~loop[b].quiet
      <4>1. /\ loop'[b].at = "send" /\ loop'[b].push.kind = "online"
            /\ loop'[b].push.dev = loop[b].ev.dev
        BY <1>2, <1>10, <3>2 DEF RecordSIMSnapshot, SendPush
      <4> QED
        BY <1>1, <2>1, <3>2, <4>1 DEF OnTheWay
    <3> QED
      BY <3>1, <3>2
  <2> QED
    BY <1>9, <2>1, <2>2
<1>11. CASE HandleSIMDiff(b)
  <2>1. loop[b].at = "diff" /\ UNCHANGED <<queue, pending, timers, heard, told>>
    BY <1>11 DEF HandleSIMDiff, chat
  <2>2. loop'[b].at = "idle" \/ (loop'[b].at = "send" /\ loop'[b].push.kind = "sim")
    BY <1>2, <1>11 DEF HandleSIMDiff, SendPush, Idle
  <2>3. ~OnTheWay(d)' /\ ~OnTheWay(d)
    BY <1>1, <2>1, <2>2 DEF OnTheWay
  <2> QED
    BY <1>9, <2>1, <2>3
<1>12. CASE Send(b)
  <2> DEFINE p == loop[b].push
  <2>1. /\ loop[b].at = "send" /\ UNCHANGED <<queue, pending, timers, heard>>
        /\ told' = IF p.kind = "online" THEN [told EXCEPT ![p.dev] = "online"] ELSE told
        /\ loop' = [loop EXCEPT ![b] = Idle]
    BY <1>12 DEF Send, maps
  <2>2. ~OnTheWay(d)'
    BY <1>1, <1>2, <2>1 DEF OnTheWay, Idle
  <2>3. CASE p.kind = "online" /\ p.dev = d
    <3>1. told'[d] = "online"
      BY <1>2, <2>1, <2>3
    <3> QED
      BY <1>9, <2>1, <3>1
  <2>4. CASE ~(p.kind = "online" /\ p.dev = d)
    <3>1. told'[d] = told[d]
      BY <1>2, <2>1, <2>4
    <3>2. ~OnTheWay(d)
      BY <1>1, <2>1, <2>4 DEF OnTheWay
    <3> QED
      BY <1>9, <2>1, <2>2, <3>1, <3>2
  <2> QED
    BY <2>3, <2>4
<1>13. CASE SendFails(b)
  <2>1. faults \in Nat /\ faults' = faults + 1
    BY <1>13 DEF SendFails, SendFault, IInv, TypeOK
  <2> QED
    BY <2>1 DEF Trusted
<1>14. CASE LoopEnds(b)
  <2>1. /\ loop[b].at = "idle" /\ loop' = [loop EXCEPT ![b] = Off]
        /\ queue' = [queue EXCEPT ![b] = <<>>]
        /\ missed' = missed \cup {x \in Devs : \E i \in DOMAIN queue[b] :
                                    queue[b][i].kind = "added" /\ queue[b][i].dev = x}
        /\ UNCHANGED <<pending, timers, heard, told>>
    BY <1>14 DEF LoopEnds, maps, chat
  <2>2. ~OnTheWay(d) /\ ~OnTheWay(d)'
    BY <1>1, <1>2, <2>1 DEF OnTheWay, Off
  <2>3. SameTimers(d)
    BY <2>1 DEF SameTimers
  <2>4. Runs(d)' /\ Arms(d)' /\ Untold(d)' /\ Fleeting(d)' /\ (Gone(d)' => Gone(d))
    BY <1>1, <2>1, <2>2, <2>3, NotAbout DEF Story
  <2>5. Coming = queue[b] /\ Coming' = <<>>
    BY <1>1, <2>1 DEF Coming, IInv, TypeOK
  <2>6. Len(Coming)' = 0
    BY <2>5, EmptySeq
  <2>7. \A j \in 1..Len(Coming) : ~Returns(d, j)
    <3>1. DOMAIN queue[b] = 1..Len(queue[b])
      BY ChannelIsTyped DEF IInv
    <3> QED
      BY <2>1, <2>5, <3>1 DEF Returns, Trusted
  <2>8. Gone(d) => ~present[d]
    <3>1. 0 \in 0..Len(Coming)
      BY ComingIsTyped
    <3> QED
      BY <2>7, <3>1 DEF Story, Alternate, Departs
  <2>9. Alternate(d)'
    <3> SUFFICES ASSUME NEW i \in 0..0, Departs(d, i)'
                 PROVE  /\ \A k \in i + 1..0 : Departs(d, k)' => \E j \in i + 1..k - 1 : Returns(d, j)'
                        /\ present'[d] => \E j \in i + 1..0 : Returns(d, j)'
      BY <2>6 DEF Alternate
    <3>1. i = 0 /\ i + 1..0 = {}
      OBVIOUS
    <3>2. Gone(d)'
      BY <3>1 DEF Departs
    <3> QED
      BY <1>1, <2>4, <2>8, <3>1, <3>2
  <2> QED
    BY <2>4, <2>9 DEF Story
<1> QED
  BY <1>3, <1>4, <1>5, <1>6, <1>7, <1>8, <1>10, <1>11, <1>12, <1>13, <1>14 DEF LoopStep

-----------------------------------------------------------------------------
(* A step of a timer function.                                              *)
LEMMA TimerTellsStory ==
    ASSUME IInv, Lifecycle, NEW k \in DOMAIN timers, TimerRun(k), NEW d \in Devs,
           Trusted(d), Trusted(d)', Story(d)
    PROVE  Story(d)'
<1> DEFINE c == timers[k].bot
           e == timers[k].dev
<1>1. /\ UNCHANGED <<ctx, queue, loop, current, heard, present>>
      /\ c \in Bots /\ e \in Devs /\ k # 0
  <2>1. UNCHANGED <<ctx, queue, loop, current, heard, present>> /\ c \in Bots /\ e \in Devs
    BY TimerRunShape DEF world, control
  <2>2. DOMAIN timers = 1..Len(timers) /\ Len(timers) \in Nat
    BY TimersAreTyped DEF IInv
  <2> QED
    BY <2>1, <2>2
<1>2. PICK at \in Ticks : Ticked(k, at, timers')
  <2>1. PICK at \in Ticks : timers' = [timers EXCEPT ![k].at = at]
    BY DEF TimerRun, TimerFires, TimerUnlists, TimerClears, TimerSends, TimerSendFails, TimerStep,
           Ticks
  <2>2. Ticked(k, at, [timers EXCEPT ![k].at = at])
    BY TimerTicks DEF IInv
  <2> QED
    BY <2>1, <2>2
<1>3. /\ pending \in [Bots -> [Devs -> 0..Len(timers)]]
      /\ told \in [Devs -> {"nothing", "online", "offline"}]
      /\ current = 0 \/ current \in Bots
  BY DEF IInv, TypeOK
<1>4. /\ DOMAIN timers' = DOMAIN timers /\ timers'[k].bot = c /\ timers'[k].dev = e
      /\ timers'[k].at = at /\ \A j \in DOMAIN timers \ {k} : timers'[j] = timers[j]
  BY <1>2 DEF Ticked
<1>5. Coming' = Coming /\ (OnTheWay(d)' <=> OnTheWay(d))
  BY <1>1 DEF Coming, OnTheWay
<1>6. \/ TimerFires(k) /\ UNCHANGED <<told, pending>>
         /\ timers[k].at = "armed" /\ at = (IF ctx[c] = "live" THEN "fired" ELSE "done")
      \/ TimerUnlists(k) /\ UNCHANGED told /\ pending' = [pending EXCEPT ![c][e] = 0]
         /\ timers[k].at = "fired" /\ at = "unlisted"
      \/ TimerClears(k) /\ UNCHANGED <<told, pending>>
         /\ timers[k].at = "unlisted" /\ at = "cleared"
      \/ TimerSends(k) /\ UNCHANGED pending /\ told' = [told EXCEPT ![e] = "offline"]
         /\ timers[k].at = "cleared" /\ at = "done"
  <2>1. ~TimerSendFails(k)
    <3>1. faults \in Nat /\ (TimerSendFails(k) => faults' = faults + 1)
      BY DEF TimerSendFails, SendFault, IInv, TypeOK
    <3> QED
      BY <3>1 DEF Trusted
  <2>2. /\ TimerFires(k) => timers'[k].at = (IF ctx[c] = "live" THEN "fired" ELSE "done")
        /\ TimerUnlists(k) => timers'[k].at = "unlisted"
        /\ TimerClears(k) => timers'[k].at = "cleared"
        /\ TimerSends(k) => timers'[k].at = "done"
    BY TimersAreTyped DEF TimerFires, TimerUnlists, TimerClears, TimerSends, TimerStep, Timer, IInv
  <2> QED
    BY <1>4, <2>1, <2>2
       DEF TimerRun, TimerFires, TimerUnlists, TimerClears, TimerSends, TimerStep, chat
<1>7. \A b \in Bots : pending'[b][d] = IF TimerUnlists(k) /\ b = c /\ d = e THEN 0 ELSE pending[b][d]
  <2>1. CASE UNCHANGED pending /\ ~TimerUnlists(k)
    BY <2>1
  <2>2. CASE TimerUnlists(k)
    <3>1. pending' = [pending EXCEPT ![c][e] = 0]
      BY <2>2 DEF TimerUnlists
    <3> HIDE DEF c, e
    <3> QED
      BY <1>1, <1>3, <2>2, <3>1
  <2> QED
    BY <1>6, <2>1, <2>2 DEF TimerFires, TimerUnlists, TimerClears, TimerSends, TimerStep
<1>8. told'[d] = IF TimerSends(k) /\ d = e THEN "offline" ELSE told[d]
  <2>1. CASE TimerSends(k)
    BY <1>1, <1>3, <2>1 DEF TimerSends
  <2>2. CASE ~TimerSends(k)
    BY <1>6, <2>2
  <2> QED
    BY <2>1, <2>2
<1> HIDE DEF c, e
<1>9. CASE e # d
  <2>1. SameTimers(d)
    BY <1>4, <1>9 DEF SameTimers
  <2>2. Runs(d)' /\ Arms(d)' /\ Untold(d)' /\ Fleeting(d)' /\ (Gone(d)' => Gone(d))
    BY <1>1, <1>5, <1>7, <1>8, <1>9, <2>1, NotAbout DEF Story
  <2> QED
    BY <1>1, <1>5, <2>2, ComingStays DEF Story
<1>10. CASE e = d
  \* what holds of the entry of the current bot, and of what it heard
  <2>1. ASSUME current # 0, Running(timers[k])
        PROVE  IF c = current
               THEN /\ heard[current][d] = "removed"
                    /\ pending[current][d] = IF timers[k].at = "fired" THEN k ELSE 0
               ELSE heard[current][d] = "nothing" /\ pending[current][d] = 0
    <3>1. IF c = current
          THEN /\ heard[current][d] = "removed"
               /\ pending[current][d] = IF timers[k].at = "fired" THEN k ELSE 0
          ELSE heard[current][d] = "nothing"
      BY <1>10, <2>1 DEF Story, Runs, c, e
    <3> QED
      BY <1>3, <2>1, <3>1 DEF Lifecycle, Reported
  <2>2. ASSUME TimerFires(k), ctx[c] = "live"
        PROVE  c = current /\ current # 0 /\ heard[current][d] = "removed"
               /\ pending[current][d] = k
    <3>1. c = current /\ current # 0
      BY <1>1, <2>2 DEF Lifecycle, Controlled, Bots
    <3>2. timers[k].at = "armed"
      BY <2>2 DEF TimerFires, TimerStep
    <3>3. pending[c][d] = k
      BY <1>10, <2>2, <3>2 DEF Story, Arms, c, e
    <3> QED
      BY <1>1, <1>3, <3>1, <3>3 DEF Lifecycle, Reported
  <2>3. Runs(d)'
    <3> SUFFICES ASSUME current # 0, NEW i \in DOMAIN timers,
                        timers'[i].dev = d, Running(timers'[i])
                 PROVE  IF timers'[i].bot = current
                        THEN /\ heard[current][d] = "removed"
                             /\ pending'[current][d] = IF timers'[i].at = "fired" THEN i ELSE 0
                        ELSE heard[current][d] = "nothing"
      BY <1>1, <1>4 DEF Runs
    <3>1. CASE i = k
      <4>1. CASE TimerFires(k)
        <5>1. at = "fired" /\ ctx[c] = "live"
          BY <1>4, <1>6, <3>1, <4>1 DEF Running, TimerFires, TimerUnlists, TimerClears, TimerSends, TimerStep
        <5> QED
          BY <1>3, <1>4, <1>6, <1>7, <2>2, <3>1, <4>1, <5>1
             DEF TimerFires, TimerUnlists, TimerStep
      <4>2. CASE ~TimerFires(k)
        <5>1. /\ timers[k].at \in {"fired", "unlisted"} /\ at \in {"unlisted", "cleared"}
              /\ timers[k].at = "fired" => TimerUnlists(k)
              /\ timers[k].at = "unlisted" => ~TimerUnlists(k)
          BY <1>4, <1>6, <3>1, <4>2 DEF Running, TimerUnlists, TimerClears, TimerStep
        <5>2. Running(timers[k])
          BY <5>1 DEF Running
        <5> QED
          BY <1>3, <1>4, <1>7, <1>10, <2>1, <3>1, <5>1, <5>2
      <4> QED
        BY <4>1, <4>2
    <3>2. CASE i # k
      <4>1. timers'[i] = timers[i]
        BY <1>4, <3>2
      <4>2. IF timers[i].bot = current
            THEN /\ heard[current][d] = "removed"
                 /\ pending[current][d] = IF timers[i].at = "fired" THEN i ELSE 0
            ELSE heard[current][d] = "nothing"
        BY <4>1 DEF Story, Runs
      <4>3. CASE TimerUnlists(k) /\ c = current /\ timers[i].bot = current
        <5>1. pending[current][d] = k
          BY <2>1, <4>3 DEF TimerUnlists, TimerStep, Running
        <5>2. FALSE
          BY <1>1, <3>2, <4>2, <4>3, <5>1
        <5> QED
          BY <5>2
      <4>4. CASE ~(TimerUnlists(k) /\ c = current /\ timers[i].bot = current)
        BY <1>3, <1>7, <4>1, <4>2, <4>4
      <4> QED
        BY <4>3, <4>4
    <3> QED
      BY <3>1, <3>2
  <2>4. Arms(d)'
    <3> SUFFICES ASSUME NEW i \in DOMAIN timers, timers'[i].dev = d, timers'[i].at = "armed",
                        ctx[timers'[i].bot] = "live"
                 PROVE  pending'[timers'[i].bot][d] = i
      BY <1>1, <1>4 DEF Arms
    <3>1. i # k
      BY <1>4, <1>6
    <3>2. timers'[i] = timers[i] /\ timers[i].bot \in Bots
      BY <1>4, <3>1, TimersAreTyped, TimerIsTyped DEF IInv
    <3>3. timers[i].bot = current /\ current # 0
      BY <3>2 DEF Lifecycle, Controlled, Bots
    <3>4. pending[current][d] = i
      BY <3>2, <3>3 DEF Story, Arms
    <3>5. ~(TimerUnlists(k) /\ c = current)
      <4> SUFFICES ASSUME TimerUnlists(k), c = current PROVE FALSE
        OBVIOUS
      <4>1. pending[current][d] = k
        BY <2>1, <3>3 DEF TimerUnlists, TimerStep, Running
      <4> QED
        BY <3>1, <3>4, <4>1
    <3> QED
      BY <1>7, <3>2, <3>3, <3>4, <3>5
  <2>5. Untold(d)' /\ Fleeting(d)'
    <3>1. CASE TimerSends(k) /\ current # 0
      <4>1. heard[current][d] # "added" /\ pending[current][d] = 0
        BY <2>1, <3>1 DEF TimerSends, TimerStep, Running
      <4>2. pending'[current][d] = 0
        BY <1>3, <1>7, <3>1, <4>1
      <4> QED
        BY <1>1, <4>1, <4>2 DEF Untold, Fleeting
    <3>2. CASE ~TimerSends(k)
      <4>1. told'[d] = told[d]
        BY <1>8, <3>2
      <4>2. current # 0 /\ pending'[current][d] # 0 => pending[current][d] # 0
        BY <1>3, <1>7
      <4> QED
        BY <1>1, <1>5, <4>1, <4>2 DEF Story, Untold, Fleeting
    <3>3. CASE current = 0
      BY <1>1, <3>3 DEF Untold, Fleeting
    <3> QED
      BY <3>1, <3>2, <3>3
  <2>6. Gone(d)' => Gone(d)
    <3>1. CASE Running(timers[k])
      BY <1>10, <3>1 DEF Gone, TimerRuns, e
    <3>2. CASE ~Running(timers[k])
      <4>1. TimerFires(k) /\ told'[d] = told[d]
        BY <1>6, <3>2 DEF Running
      <4>2. CASE ctx[c] = "live"
        BY <2>2, <4>1, <4>2 DEF Gone
      <4>3. CASE ctx[c] # "live"
        <5>1. at = "done"
          BY <1>6, <3>2, <4>3 DEF Running
        <5>2. TimerRuns(d)' => TimerRuns(d)
          BY <1>4, <5>1 DEF TimerRuns, Running
        <5> QED
          BY <1>1, <1>5, <4>1, <5>2 DEF Gone
      <4> QED
        BY <4>2, <4>3
    <3> QED
      BY <3>1, <3>2
  <2> QED
    BY <1>1, <1>5, <2>3, <2>4, <2>5, <2>6, ComingStays DEF Story
<1> QED
  BY <1>9, <1>10

-----------------------------------------------------------------------------
(* The controller.                                                          *)
LEMMA ControlTellsStory ==
    ASSUME IInv, Lifecycle, Reload \/ StopReturns \/ StopTimesOut \/ StartBot \/ StartFails,
           NEW d \in Devs, Trusted(d), Trusted(d)', Story(d)
    PROVE  Story(d)'
<1>1. /\ UNCHANGED <<queue, pending, timers, heard, told, present>>
      /\ ctx \in [Bots -> {"none", "live", "cancelled"}]
      /\ loop \in [Bots -> {Off, Idle} \cup Works]
      /\ current \in {0} \cup Bots /\ 0 \notin Bots
  BY DEF Reload, StopReturns, StopTimesOut, StartBot, StartFails, world, maps, chat, IInv, TypeOK,
         Works, Bots
<1>2. SameTimers(d) /\ (TimerRuns(d)' <=> TimerRuns(d))
  BY <1>1 DEF SameTimers, TimerRuns
<1>3. ASSUME UNCHANGED <<current, loop>>, \A b \in Bots : ctx'[b] = "live" => ctx[b] = "live"
      PROVE  Story(d)'
  <2>1. Coming' = Coming /\ (OnTheWay(d)' <=> OnTheWay(d))
    BY <1>1, <1>3 DEF Coming, OnTheWay
  <2>2. Runs(d)' /\ Arms(d)' /\ Untold(d)' /\ Fleeting(d)' /\ (Gone(d)' => Gone(d))
    BY <1>1, <1>2, <1>3, <2>1, NotAbout DEF Story
  <2> QED
    BY <1>1, <2>1, <2>2, ComingStays DEF Story
<1>4. CASE Reload
  <2>1. \A b \in Bots : ctx'[b] = ctx[b] \/ ctx'[b] = "cancelled"
    BY <1>1, <1>4 DEF Reload
  <2> QED
    BY <1>3, <1>4, <2>1 DEF Reload
<1>5. CASE StartFails
  BY <1>3, <1>5 DEF StartFails
<1>6. CASE StopReturns
  <2>1. /\ loop[current].at = "off" /\ current' = 0 /\ UNCHANGED <<ctx, loop>>
        /\ reload = "stopping"
    BY <1>6 DEF StopReturns
  <2>2. current \in Bots /\ current \notin subs
    BY <2>1 DEF Lifecycle, Controlled, Alone, Trusted
  <2>3. queue[current] = <<>>
    BY <2>2 DEF Lifecycle, Alone, Trusted
  <2>4. Coming' = Coming
    BY <1>1, <2>1, <2>2, <2>3 DEF Coming
  <2>5. ~OnTheWay(d) /\ ~OnTheWay(d)'
    BY <2>1 DEF OnTheWay
  <2>6. Gone(d)' => Gone(d)
    BY <1>1, <1>2, <2>1, <2>5 DEF Gone
  <2>7. Runs(d)' /\ Untold(d)' /\ Fleeting(d)'
    BY <2>1 DEF Runs, Untold, Fleeting
  <2>8. Arms(d)'
    BY <1>1, <2>1 DEF Story, Arms
  <2> QED
    BY <1>1, <2>4, <2>6, <2>7, <2>8, ComingStays DEF Story
<1>7. CASE StopTimesOut
  BY <1>7 DEF StopTimesOut, Trusted
<1>8. CASE StartBot
  <2>1. PICK b \in Bots \ Born :
          /\ ctx' = [ctx EXCEPT ![b] = "live"] /\ loop' = [loop EXCEPT ![b] = Idle]
          /\ current' = b
    BY <1>8 DEF StartBot
  <2>2. current = 0 /\ b # 0 /\ ctx[b] = "none"
    BY <1>1, <1>8, <2>1 DEF StartBot, Lifecycle, Controlled, Born
  <2>3. \A c \in Bots : ctx[c] # "live"
    BY <1>1, <2>2 DEF Lifecycle, Controlled
  <2>4. heard'[b][d] = "nothing" /\ pending'[b][d] = 0
    BY <1>1, <2>2 DEF Lifecycle, Fresh
  <2>5. \A i \in DOMAIN timers : timers[i].bot \in Bots /\ timers[i].bot # b
    BY <2>2, TimersAreTyped, TimerIsTyped DEF IInv, BotsAreBorn
  <2>6. queue[b] = <<>>
    BY <1>1, <2>2 DEF Lifecycle, Alone, Trusted
  <2>7. Coming' = Coming
    BY <1>1, <2>1, <2>2, <2>6 DEF Coming
  <2>8. loop'[b].at = "idle"
    BY <1>1, <2>1 DEF Idle
  <2>9. ~OnTheWay(d) /\ ~OnTheWay(d)'
    BY <2>1, <2>2, <2>8 DEF OnTheWay
  <2>10. Gone(d)' => Gone(d)
    BY <1>1, <1>2, <2>1, <2>4, <2>9 DEF Gone
  <2>11. Runs(d)'
    BY <1>1, <2>1, <2>4, <2>5 DEF Runs
  <2>12. Arms(d)'
    <3>1. \A i \in DOMAIN timers : ctx'[timers[i].bot] # "live"
      BY <1>1, <2>1, <2>3, <2>5
    <3> QED
      BY <1>1, <3>1 DEF Arms
  <2>13. Untold(d)' /\ Fleeting(d)'
    BY <2>1, <2>4 DEF Untold, Fleeting
  <2> QED
    BY <1>1, <2>7, <2>10, <2>11, <2>12, <2>13, ComingStays DEF Story
<1> QED
  BY <1>4, <1>5, <1>6, <1>7, <1>8

LEMMA StoriesHold == ASSUME Init PROVE Stories
<1> SUFFICES ASSUME NEW d \in Devs PROVE Story(d)
  BY DEF Stories
<1>1. timers = <<>> /\ current = 0 /\ told[d] = "nothing"
  BY DEF Init
<1>2. DOMAIN timers = {}
  BY <1>1
<1>3. Runs(d) /\ Arms(d) /\ Untold(d) /\ Fleeting(d)
  BY <1>1, <1>2 DEF Runs, Arms, Untold, Fleeting
<1>4. ~Gone(d)
  BY <1>1, <1>2 DEF Gone, TimerRuns
<1>5. Alternate(d)
  <2>1. Len(Coming) = 0
    BY <1>1, EmptySeq DEF Coming
  <2>2. \A i \in 0..0 : ~Departs(d, i)
    BY <1>4 DEF Departs
  <2> QED
    BY <2>1, <2>2 DEF Alternate
<1> QED
  BY <1>3, <1>5 DEF Story

LEMMA NextTellsStories == ASSUME IInv, Lifecycle, Stories, [Next]_vars PROVE Stories'
<1> SUFFICES ASSUME NEW d \in Devs, Trusted(d)' PROVE Story(d)'
  BY DEF Stories
<1>1. Trusted(d) /\ Story(d)
  BY TrustIsLost DEF Stories
<1>2. CASE UNCHANGED vars
  <2>1. UNCHANGED <<current, told, present, queue, pending, timers, heard, ctx, loop>>
    BY <1>2 DEF vars, world, control, chat, maps
  <2>2. SameTimers(d) /\ Coming' = Coming /\ (OnTheWay(d)' <=> OnTheWay(d))
    BY <2>1 DEF SameTimers, Coming, OnTheWay
  <2>3. Runs(d)' /\ Arms(d)' /\ Untold(d)' /\ Fleeting(d)' /\ (Gone(d)' => Gone(d))
    BY <1>1, <2>1, <2>2, NotAbout DEF Story
  <2> QED
    BY <1>1, <2>1, <2>2, <2>3, ComingStays DEF Story
<1>3. CASE World
  BY <1>1, <1>3, WorldTellsStory
<1>4. ASSUME NEW b \in Bots, LoopStep(b) PROVE Story(d)'
  BY <1>1, <1>4, LoopTellsStory
<1>5. ASSUME NEW i \in DOMAIN timers, TimerRun(i) PROVE Story(d)'
  BY <1>1, <1>5, TimerTellsStory
<1>6. CASE Reload \/ StopReturns \/ StopTimesOut \/ StartBot \/ StartFails
  BY <1>1, <1>6, ControlTellsStory
<1> QED
  BY <1>2, <1>3, <1>4, <1>5, <1>6 DEF Next

(* "Offline" is not the last word about a modem that came back, for any     *)
(* number of modems, bots and events, and channels of any capacity: the     *)
(* exceptions that NoStaleOffline lists are all there are.                  *)
THEOREM OfflineIsNotTheLastWord == Spec => []NoStaleOffline
<1>1. Init => Stories
  BY StoriesHold
<1>2. IInv /\ Lifecycle /\ Stories /\ [Next]_vars => Stories'
  BY NextTellsStories
<1>3. IInv /\ Lifecycle /\ Stories => NoStaleOffline
  <2> SUFFICES ASSUME IInv, Lifecycle, Stories, NEW d \in Devs, current # 0,
                      told[d] = "offline", heard[current][d] = "added",
                      d \notin raced \cup missed, faults = 0, ~overdue
               PROVE  Handles(current, d)
    BY DEF NoStaleOffline
  <2>1. current \in Bots
    BY DEF IInv, TypeOK
  <2>2. OnTheWay(d)
    BY DEF Stories, Trusted, Story, Fleeting
  <2> QED
    BY <2>1, <2>2 DEF OnTheWay, Handles, Lifecycle, Reported
<1> QED
  BY <1>1, <1>2, <1>3, Invariance, BotsFollowOneAnother, PTL DEF Spec

=============================================================================
