----------------------------- MODULE SmsPipeline -----------------------------
(***************************************************************************)
(* The way of a text message from ModemManager (MM) to the subscribers of  *)
(* the runner:                                                             *)
(*                                                                         *)
(*   MM objects --D-Bus signals--> MMProvider --events--> Runner           *)
(*        ^                        (mmprovider.go)        (runner.go)      *)
(*        |                                                 |   |          *)
(*        +---- DELETE /api/sms/{id} (sms.go) -----> sms table  fanout     *)
(*                                                                         *)
(* The provider's dispatcher and the runner are two goroutines; an HTTP    *)
(* request is a third; MM is another process.  The daemon can crash at any *)
(* step and start again with nothing but the database; the modem can leave *)
(* and return, and then every stored message appears at a new path; MM     *)
(* itself can restart, and then its path counters begin again.             *)
(*                                                                         *)
(* One modem is modelled, whose SIM may be another one each time it        *)
(* appears.  MM and the D-Bus daemon are the environment.                  *)
(***************************************************************************)
EXTENDS SmsStore, Sequences

CONSTANTS
    Msgs,           \* the text messages
    Outbound,       \* those sent by the user; the others are received
    Peer, Body, Stamp,  \* what a complete message carries (functions on Msgs)
    MaxModems,      \* bound: modem object paths likewise
    MaxMMRestarts,  \* bound: restarts of MM
    MaxCrashes,     \* bound: crashes of the daemon
    MaxBusFaults,   \* bound: D-Bus calls that fail though the object exists
    MaxDbFaults,    \* bound: transactions that fail
    MaxDeletes,     \* bound: DELETE /api/sms requests
    EventCap        \* capacity of the provider's event channel

ModemPaths == 1..MaxModems

ASSUME MsgsAssumption ==
    /\ Outbound \subseteq Msgs
    /\ None \notin Msgs
    /\ Peer  \in [Msgs -> Peers]
    /\ Body  \in [Msgs -> Bodies \cup {None}]
    /\ Stamp \in [Msgs -> Stamps \cup {None}]

ASSUME BoundsAssumption ==
    /\ MaxModems \in Nat
    /\ MaxMMRestarts \in Nat /\ MaxCrashes \in Nat
    /\ MaxBusFaults \in Nat /\ MaxDbFaults \in Nat /\ MaxDeletes \in Nat
    /\ EventCap \in Nat \ {0}

VARIABLES
    \* ModemManager
    modem,       \* path of the modem object, 0 when there is none
    card,        \* SIM in the modem, None when there is none
    nextModem, nextPath,    \* the last paths handed out
    at,          \* the message last exported at a path
    exported,    \* the paths that have an SMS object now
    phase,       \* of a message: "unsent", "partial", "complete", "gone"
    old,         \* messages whose SMSC timestamp is over two minutes ago
    \* MMProvider
    app,         \* "down", "matching", "listing", "reading", "running"
    known,       \* the modem path in byPath, 0 when there is none
    matched,     \* modem paths whose Messaging signals are subscribed to
    subs,        \* smsSubs
    seen,        \* smsSeen
    toRead,      \* what Messaging.List returned, not yet read
    sigs,        \* sigCh
    \* Runner and database
    events,      \* the provider's event channel
    pending,     \* the message whose event is between commit and fanout
    modemRow,    \* the modem has a row in modems
    simBound,    \* the SIM bound to that row, None when there is none
    sms, lastId, \* the table, and sqlite_sequence
    \* DELETE /api/sms/{id}
    deleting,    \* how far the request is, its id and the row it has read
    \* bounds
    mmRestarts, crashes, busFaults, dbFaults, deletes,
    \* history: for the properties only
    notified,    \* how often a message was fanned out as new
    erased       \* messages whose stored copy the user deleted

mmVars     == <<modem, card, nextModem, nextPath, at, exported, phase, old>>
provVars   == <<app, known, matched, subs, seen, toRead>>
idVars     == <<modemRow, simBound>>
dbVars     == <<sms, lastId>>
boundVars  == <<mmRestarts, crashes, busFaults, dbFaults, deletes>>
historyVars == <<notified, erased>>
runVars    == <<pending, modemRow, simBound, sms, lastId>>

vars == <<mmVars, provVars, sigs, events, pending, idVars, dbVars, deleting,
          boundVars, historyVars>>

-----------------------------------------------------------------------------
Dir(m) == IF m \in Outbound THEN "outbound" ELSE "inbound"

(* readSMS on the object of m.  Only a complete message carries number,    *)
(* text and timestamp.                                                     *)
Read(m, p) ==
    LET done == phase[m] = "complete"
    IN  [path |-> p, dir |-> Dir(m),
         state |-> IF m \in Outbound
                   THEN IF done THEN "sent" ELSE "sending"
                   ELSE IF done THEN "received" ELSE "receiving",
         peer  |-> IF done THEN Peer[m] ELSE None,
         body  |-> IF done THEN Body[m] ELSE None,
         stamp |-> IF done THEN Stamp[m] ELSE None]

Unseen == [state |-> None, dir |-> None, live |-> FALSE, notified |-> FALSE]

Observation == [state : SmsStates \cup {None}, dir : Directions \cup {None},
                live : BOOLEAN, notified : BOOLEAN]

(* Mutant: a message that was seen incomplete is no news when it completes. *)
IsNewsLiveOnly(prev, rec, m, appearedLive) ==
    /\ Candidate(rec) /\ ~prev.notified
    /\ appearedLive /\ m \notin old

(* classifySMSObservation: is this the moment to announce a new message?   *)
IsNews(prev, rec, m, appearedLive) ==
    LET live == appearedLive \/ prev.live
    IN  /\ Candidate(rec)
        /\ ~prev.notified
        /\ \/ live /\ m \notin old
           \/ ~live /\ prev.dir = "inbound" /\ prev.state \notin {None, "received"}

(* observeSMS *)
Observed(prev, rec, news) ==
    [state |-> rec.state, dir |-> rec.dir, live |-> prev.live,
     notified |-> prev.notified \/ news \/ (Candidate(rec) /\ ~prev.live)]

(* The events the pipeline carries.  msg tells the properties, not the     *)
(* code, which message an SMS event is about.                              *)
SmsEvent(kind, rec, m) == [kind |-> kind, rec |-> rec, msg |-> m, sim |-> None]
ModemEvent(kind, s)    == [kind |-> kind, rec |-> None, msg |-> None, sim |-> s]

Event == [kind : {"SMSReceived", "SMSStateChanged"}, rec : Record,
          msg : Msgs, sim : {None}]
         \cup
         [kind : {"ModemAdded", "ModemRemoved"}, rec : {None}, msg : {None},
          sim : Sims \cup {None}]

(* emit never blocks: a full channel loses the event.                      *)
Emit(e) == events' = IF Len(events) < EventCap THEN Append(events, e)
                     ELSE events

Signal(type, mp, p, s) == [type |-> type, modem |-> mp, path |-> p, sim |-> s]

(* There is no DELETE request.                                             *)
NoRequest == [at |-> "idle"]

(* A signal reaches sigCh only while the daemon has a connection.          *)
Deliver(sig) == sigs' = IF app = "down" THEN sigs ELSE Append(sigs, sig)

-----------------------------------------------------------------------------
Init ==
    /\ modem = 0 /\ card = None /\ nextModem = 0 /\ nextPath = 0
    /\ at = [p \in SmsPaths |-> None] /\ exported = {}
    /\ phase = [m \in Msgs |-> "unsent"] /\ old = {}
    /\ app = "down" /\ known = 0 /\ matched = {} /\ subs = {}
    /\ seen = [p \in SmsPaths |-> Unseen] /\ toRead = {}
    /\ sigs = <<>> /\ events = <<>> /\ pending = None
    /\ modemRow = FALSE /\ simBound = None
    /\ sms = EmptyTable /\ lastId = 0 /\ deleting = NoRequest
    /\ mmRestarts = 0 /\ crashes = 0 /\ busFaults = 0 /\ dbFaults = 0
    /\ deletes = 0
    /\ notified = [m \in Msgs |-> 0] /\ erased = {}

-----------------------------------------------------------------------------
(* ModemManager.                                                           *)

(* A modem is plugged in, or comes back after a reset or a SIM switch.     *)
ModemAppears(s) ==
    /\ modem = 0 /\ nextModem < MaxModems
    /\ modem' = nextModem + 1 /\ nextModem' = nextModem + 1
    /\ card' = s
    /\ Deliver(Signal("InterfacesAdded", modem', 0, s))
    /\ UNCHANGED <<nextPath, at, exported, phase, old, provVars, events,
                   runVars, deleting, boundVars, historyVars>>

(* It leaves, and its SMS objects with it; the messages stay in storage.   *)
ModemLeaves ==
    /\ modem # 0
    /\ modem' = 0 /\ exported' = {}
    /\ Deliver(Signal("InterfacesRemoved", modem, 0, None))
    /\ UNCHANGED <<card, nextModem, nextPath, at, phase, old, provVars, events,
                   runVars, deleting, boundVars, historyVars>>

(* MM restarts: objects vanish, announced or not, and paths count from the *)
(* beginning again.                                                        *)
MMRestart(announced) ==
    /\ mmRestarts < MaxMMRestarts
    /\ mmRestarts' = mmRestarts + 1
    /\ modem' = 0 /\ exported' = {} /\ nextModem' = 0 /\ nextPath' = 0
    /\ IF announced /\ modem # 0
       THEN Deliver(Signal("InterfacesRemoved", modem, 0, None))
       ELSE UNCHANGED sigs
    /\ UNCHANGED <<card, at, phase, old, provVars, events, runVars, deleting,
                   crashes, busFaults, dbFaults, deletes, historyVars>>

(* MM exports m at a fresh path: a message that arrives or is created now  *)
(* (in state ph), or one found in storage after the modem came back.       *)
Export(m, ph) ==
    /\ modem # 0 /\ nextPath < MaxPaths
    /\ nextPath' = nextPath + 1
    /\ at' = [at EXCEPT ![nextPath'] = m]
    /\ exported' = exported \cup {nextPath'}
    /\ phase' = [phase EXCEPT ![m] = ph]
    /\ IF modem \in matched
       THEN Deliver(Signal("Added", modem, nextPath', None))
       ELSE UNCHANGED sigs
    /\ UNCHANGED <<modem, card, nextModem, old, provVars, events, runVars,
                   deleting, boundVars, historyVars>>

Arrive(m) == /\ phase[m] = "unsent"
             /\ \E ph \in {"partial", "complete"} : Export(m, ph)

IsExported(m) == \E p \in exported : at[p] = m

(* The parts of a stored message may be read back one at a time.           *)
Reexport(m) == /\ phase[m] \in {"partial", "complete"} /\ ~IsExported(m)
               /\ \E ph \in {"partial", phase[m]} : Export(m, ph)

(* The last part arrives, or the network takes the outbound message.       *)
Complete(m) ==
    /\ phase[m] = "partial" /\ modem # 0
    /\ phase' = [phase EXCEPT ![m] = "complete"]
    /\ \E p \in SmsPaths :
          /\ p \in exported /\ at[p] = m
          /\ IF p \in subs THEN Deliver(Signal("PropertiesChanged", modem, p, None))
             ELSE UNCHANGED sigs
    /\ UNCHANGED <<modem, card, nextModem, nextPath, at, exported, old, provVars,
                   events, runVars, deleting, boundVars, historyVars>>

(* Two minutes pass since the SMSC stamped m.                              *)
Age(m) ==
    /\ Stamp[m] # None /\ m \notin old
    /\ old' = old \cup {m}
    /\ UNCHANGED <<modem, card, nextModem, nextPath, at, exported, phase, provVars,
                   sigs, events, runVars, deleting, boundVars, historyVars>>

-----------------------------------------------------------------------------
(* MMProvider: Start and initialReconcile, then handleSignal in a loop.    *)
(* All of it runs in one goroutine.                                        *)

BusOk    == UNCHANGED busFaults
BusFails == busFaults < MaxBusFaults /\ busFaults' = busFaults + 1

(* A call to the object at p: it succeeds only if the object exists, and   *)
(* may fail all the same.                                                  *)
CallOk(p)    == p \in exported /\ BusOk
CallFails(p) == IF p \in exported THEN BusFails ELSE BusOk

(* What follows a successful read: classify against prev, remember, emit.  *)
Observe(p, prev, appearedLive) ==
    LET m    == at[p]
        rec  == Read(m, p)
        news == IsNews(prev, rec, m, appearedLive)
    IN  /\ seen' = [seen EXCEPT ![p] = Observed(prev, rec, news)]
        /\ Emit(SmsEvent(IF news THEN "SMSReceived" ELSE "SMSStateChanged", rec, m))

(* onSmsAppearedForModem for a path not subscribed to yet.  If it cannot   *)
(* be subscribed to it is not read either.                                 *)
FirstSight(p, live) ==
    /\ p \notin subs
    /\ \/ /\ subs' = subs \cup {p}
          /\ \/ CallOk(p) /\ Observe(p, [Unseen EXCEPT !.live = live], live)
             \/ /\ CallFails(p)
                /\ seen' = IF live THEN [seen EXCEPT ![p].live = TRUE] ELSE seen
                /\ UNCHANGED events
       \/ BusFails /\ UNCHANGED <<subs, seen, events>>

(* onSmsAppearedForModem for a path subscribed to: a live one is marked    *)
(* live and read again.  The kind is chosen on the marked observation,     *)
(* which also is what a failed read leaves behind.                         *)
SeenAgain(p, live) ==
    /\ p \in subs
    /\ UNCHANGED subs
    /\ IF live
       THEN LET prev == [seen[p] EXCEPT !.live = TRUE]
            IN  \/ CallOk(p) /\ Observe(p, prev, TRUE)
                \/ /\ CallFails(p)
                   /\ seen' = [seen EXCEPT ![p] = prev]
                   /\ UNCHANGED events
       ELSE BusOk /\ UNCHANGED <<seen, events>>

SmsAppeared(p, live) == FirstSight(p, live) \/ SeenAgain(p, live)

NothingSeen == [p \in SmsPaths |-> Unseen]

(* onModemAdded.  SMS objects already on the modem are not listed; an      *)
(* entry left under another path loses its subscriptions.  The rules of    *)
(* the old path stay with the bus: RemoveMatchSignal is given all of an    *)
(* entry's options at once, which matches none of the rules.               *)
ModemAdded(mp, s) ==
    /\ known' = mp
    /\ \/ BusOk /\ matched' = matched \cup {mp}
       \/ BusFails /\ UNCHANGED matched
    /\ IF known \notin {0, mp}
       THEN subs' = {} /\ seen' = NothingSeen
       ELSE UNCHANGED <<subs, seen>>
    /\ Emit(ModemEvent("ModemAdded", s))

(* Start: connect, subscribe to the object manager's signals.              *)
Start ==
    /\ app = "down"
    /\ app' = "matching"
    /\ UNCHANGED <<mmVars, known, matched, subs, seen, toRead, sigs, events,
                   runVars, deleting, boundVars, historyVars>>

(* initialReconcile, first half: GetManagedObjects.  If it fails there is  *)
(* no reconcile.                                                           *)
GetManagedObjects ==
    /\ app = "matching"
    /\ \/ /\ app' = "listing"
          /\ IF modem # 0 THEN ModemAdded(modem, card)
             ELSE BusOk /\ UNCHANGED <<known, matched, subs, seen, events>>
       \/ /\ BusFails /\ app' = "running"
          /\ UNCHANGED <<known, matched, subs, seen, events>>
    /\ UNCHANGED <<mmVars, toRead, sigs, runVars, deleting, mmRestarts,
                   crashes, dbFaults, deletes, historyVars>>

(* Second half: Messaging.List on the modem just found, if it is there.    *)
ListSms ==
    /\ app = "listing"
    /\ app' = "reading"
    /\ IF known # 0 /\ known = modem
       THEN (BusOk /\ toRead' = exported) \/ (BusFails /\ toRead' = {})
       ELSE BusOk /\ toRead' = {}
    /\ UNCHANGED <<mmVars, known, matched, subs, seen, sigs, events, runVars,
                   deleting, mmRestarts, crashes, dbFaults, deletes, historyVars>>

(* and every listed message is read as history, not as live.               *)
ReadListed(p) ==
    /\ app = "reading" /\ p \in toRead
    /\ toRead' = toRead \ {p}
    /\ SmsAppeared(p, FALSE)
    /\ UNCHANGED <<mmVars, app, known, matched, sigs, runVars, deleting,
                   mmRestarts, crashes, dbFaults, deletes, historyVars>>

EndReconcile ==
    /\ app = "reading" /\ toRead = {}
    /\ app' = "running"
    /\ UNCHANGED <<mmVars, known, matched, subs, seen, toRead, sigs, events,
                   runVars, deleting, boundVars, historyVars>>

(* Takes the next signal, if it is of the type.                            *)
TakeSignal(type) == /\ app = "running" /\ sigs # <<>> /\ Head(sigs).type = type
               /\ sigs' = Tail(sigs)
               /\ UNCHANGED <<mmVars, app, toRead, runVars, deleting, mmRestarts,
                              crashes, dbFaults, deletes, historyVars>>

OnInterfacesAdded ==
    /\ TakeSignal("InterfacesAdded")
    /\ ModemAdded(Head(sigs).modem, Head(sigs).sim)

OnInterfacesRemoved ==
    /\ TakeSignal("InterfacesRemoved")
    /\ IF known = Head(sigs).modem
       THEN /\ known' = 0 /\ subs' = {} /\ seen' = NothingSeen
            /\ Emit(ModemEvent("ModemRemoved", None))
       ELSE UNCHANGED <<known, subs, seen, events>>
    /\ UNCHANGED <<matched, busFaults>>

(* Messaging.Added on a modem the provider knows.                          *)
OnMessagingAdded ==
    /\ TakeSignal("Added")
    /\ IF known = Head(sigs).modem
       THEN SmsAppeared(Head(sigs).path, TRUE)
       ELSE UNCHANGED <<subs, seen, events, busFaults>>
    /\ UNCHANGED <<known, matched>>

(* onSmsRemoved *)
OnMessagingDeleted ==
    /\ TakeSignal("Deleted")
    /\ subs' = subs \ {Head(sigs).path}
    /\ seen' = [seen EXCEPT ![Head(sigs).path] = Unseen]
    /\ UNCHANGED <<known, matched, events, busFaults>>

(* onSmsPropsChanged: the message is read again, whatever has changed.     *)
OnSmsPropsChanged ==
    /\ TakeSignal("PropertiesChanged")
    /\ LET p == Head(sigs).path
       IN  \/ p \in subs /\ CallOk(p) /\ Observe(p, seen[p], FALSE)
           \/ p \in subs /\ CallFails(p) /\ UNCHANGED <<seen, events>>
           \/ p \notin subs /\ UNCHANGED <<seen, events, busFaults>>
    /\ UNCHANGED <<known, matched, subs>>

HandleSignal == \/ OnInterfacesAdded \/ OnInterfacesRemoved
                \/ OnMessagingAdded \/ OnMessagingDeleted
                \/ OnSmsPropsChanged

-----------------------------------------------------------------------------
(* Runner.handle, one event at a time, in the runner's goroutine.          *)

TakeEvent(kind) == /\ pending = None /\ events # <<>> /\ Head(events).kind = kind
                   /\ events' = Tail(events)
                   /\ UNCHANGED <<mmVars, provVars, sigs, deleting, mmRestarts,
                                  crashes, busFaults, deletes, historyVars>>

(* EventModemAdded: UpsertModem, then UpsertSim, or UnbindModem if there   *)
(* is no SIM.                                                              *)
OnModemAdded ==
    /\ TakeEvent("ModemAdded")
    /\ modemRow' = TRUE /\ simBound' = Head(events).sim
    /\ UNCHANGED <<pending, dbVars, dbFaults>>

(* EventModemRemoved: the row stays, absent and without its SIM.           *)
OnModemRemoved ==
    /\ TakeEvent("ModemRemoved")
    /\ simBound' = None
    /\ UNCHANGED <<pending, modemRow, dbVars, dbFaults>>

(* insertSMS on the table and the identities of this moment.               *)
Insertion(rec) == Inserted(sms, lastId + 1, rec, simBound, modemRow)

NextId(rec) == lastId' = IF NeedsNewRow(sms, rec, simBound, modemRow)
                         THEN lastId + 1 ELSE lastId

DbFails == dbFaults < MaxDbFaults /\ dbFaults' = dbFaults + 1

(* EventSMSReceived: InsertSMS decides in its transaction whether the      *)
(* event may fan out.  If it fails the event is dropped.                   *)
OnSmsReceived ==
    /\ TakeEvent("SMSReceived")
    /\ LET e == Head(events)
       IN  \/ /\ sms' = Insertion(e.rec) /\ NextId(e.rec)
              /\ pending' = IF MayNotify(sms, e.rec, simBound, modemRow)
                            THEN e.msg ELSE None
              /\ UNCHANGED dbFaults
           \/ DbFails /\ UNCHANGED <<pending, dbVars>>
    /\ UNCHANGED idVars

(* Mutant: only the state column is written.                               *)
StateOnly(rec) == StateUpdated(sms, rec.path, rec.state)

(* UpsertSMS, then UpdateSMSState.                                         *)
Upserted(rec) == StateUpdated(Insertion(rec), rec.path, rec.state)

(* EventSMSStateChanged: UpdateSMSState runs also when UpsertSMS fails.    *)
OnSmsStateChanged ==
    /\ TakeEvent("SMSStateChanged")
    /\ LET rec == Head(events).rec
       IN  \/ /\ sms' = Upserted(rec)
              /\ NextId(rec)
              /\ UNCHANGED dbFaults
           \/ /\ DbFails
              /\ sms' \in {sms, StateUpdated(sms, rec.path, rec.state)}
              /\ UNCHANGED lastId
    /\ UNCHANGED <<pending, idVars>>

(* fanout of a new message to the subscribers.                             *)
Fanout ==
    /\ pending # None
    /\ notified' = [notified EXCEPT ![pending] = @ + 1]
    /\ pending' = None
    /\ UNCHANGED <<mmVars, provVars, sigs, events, idVars, dbVars, deleting,
                   boundVars, erased>>

HandleEvent == \/ OnModemAdded \/ OnModemRemoved
               \/ OnSmsReceived \/ OnSmsStateChanged
               \/ Fanout

-----------------------------------------------------------------------------
(* DELETE /api/sms/{id} reads the row, deletes the message on the modem if *)
(* it can be, and then the row.  Other steps may come between.             *)

(* The row shows m: the text it holds, if it holds one, is that of m.      *)
Shows(row, m) == /\ row.dir = Dir(m)
                 /\ row.peer = Peer[m] /\ row.body = Body[m]
                 /\ Stamp[m] # None => row.stamp = Stamp[m]

(* GetSMSByID, and GetModemByID if the row has a modem.                    *)
ReadRow(i) ==
    /\ app # "down" /\ deleting = NoRequest /\ deletes < MaxDeletes
    /\ deletes' = deletes + 1
    /\ deleting' = [at |-> IF sms[i].modem THEN "modem" ELSE "table",
                    id |-> i, row |-> sms[i]]
    /\ UNCHANGED <<mmVars, provVars, sigs, events, runVars, mmRestarts, crashes,
                   busFaults, dbFaults, historyVars>>

(* Mutant: the row id is taken for the index of the SMS object.            *)
RowIdAsIndex == deleting.id

(* The path of the object, which the row has as ext_id.                    *)
ExtId == deleting.row.path

(* MMProvider.DeleteSMS; its error is thrown away.                         *)
DeleteOnModem ==
    /\ deleting.at = "modem"
    /\ deleting' = [deleting EXCEPT !.at = "table"]
    /\ LET p == ExtId
       IN  IF known # 0 /\ known = modem
           THEN \/ /\ CallOk(p)
                   /\ phase' = [phase EXCEPT ![at[p]] = "gone"]
                   /\ exported' = exported \ {p}
                   /\ IF modem \in matched
                      THEN Deliver(Signal("Deleted", modem, p, None))
                      ELSE UNCHANGED sigs
                \/ CallFails(p) /\ UNCHANGED <<phase, exported, sigs>>
           ELSE UNCHANGED <<phase, exported, sigs, busFaults>>
    /\ UNCHANGED <<modem, card, nextModem, nextPath, at, old, provVars, events,
                   runVars, mmRestarts, crashes, dbFaults, deletes, historyVars>>

(* DeleteSMSByID, which fails or finds the row, if it is still there.      *)
DeleteRow ==
    /\ deleting.at = "table"
    /\ deleting' = NoRequest
    /\ \/ /\ deleting.id \in DOMAIN sms
          /\ sms' = WithoutRow(sms, deleting.id)
          /\ erased' = erased \cup {m \in Msgs : Shows(sms[deleting.id], m)}
          /\ UNCHANGED dbFaults
       \/ deleting.id \notin DOMAIN sms /\ UNCHANGED <<sms, erased, dbFaults>>
       \/ DbFails /\ UNCHANGED <<sms, erased>>
    /\ UNCHANGED <<mmVars, provVars, sigs, events, pending, idVars, lastId,
                   mmRestarts, crashes, busFaults, deletes, notified>>

(* The daemon dies.  Only the database is left.                            *)
Crash ==
    /\ app # "down" /\ crashes < MaxCrashes
    /\ crashes' = crashes + 1
    /\ app' = "down" /\ known' = 0 /\ matched' = {} /\ subs' = {}
    /\ seen' = NothingSeen /\ toRead' = {}
    /\ sigs' = <<>> /\ events' = <<>> /\ pending' = None /\ deleting' = NoRequest
    /\ UNCHANGED <<mmVars, idVars, dbVars, mmRestarts, busFaults, dbFaults,
                   deletes, historyVars>>

-----------------------------------------------------------------------------
Environment ==
    \/ \E s \in Sims \cup {None} : ModemAppears(s)
    \/ ModemLeaves
    \/ \E announced \in BOOLEAN : MMRestart(announced)
    \/ \E m \in Msgs : Arrive(m) \/ Reexport(m) \/ Complete(m) \/ Age(m)

Provider == \/ Start \/ GetManagedObjects \/ ListSms
            \/ \E p \in SmsPaths : ReadListed(p)
            \/ EndReconcile \/ HandleSignal

Request == (\E i \in DOMAIN sms : ReadRow(i)) \/ DeleteOnModem \/ DeleteRow

Next == Environment \/ Provider \/ HandleEvent \/ Request \/ Crash

Spec == Init /\ [][Next]_vars

(* The goroutines of the daemon keep running: a signal or an event that    *)
(* waits is taken some day.  Nothing is asked of MM, users and crashes.    *)
FairSpec == Spec /\ WF_vars(Provider) /\ WF_vars(HandleEvent)

-----------------------------------------------------------------------------
(* Properties.                                                             *)

(* A message whose identity the content columns carry: it has a text and a *)
(* timestamp, and no undated message has the same sender and text (an      *)
(* undated one takes any row with its text for its own).                   *)
Tracked(m) ==
    /\ m \notin Outbound /\ Body[m] # None /\ Stamp[m] # None
    /\ \A n \in Msgs \ Outbound :
          Peer[n] = Peer[m] /\ Body[n] = Body[m] => Stamp[n] # None

Holds(row, m) == row.state = "received" /\ Shows(row, m)

InHistory(m) == \E i \in DOMAIN sms : Holds(sms[i], m)
Handled(m)   == \E i \in DOMAIN sms : Holds(sms[i], m) /\ sms[i].pushed

MMTypeOK ==
    /\ modem \in ModemPaths \cup {0} /\ card \in Sims \cup {None}
    /\ nextModem \in 0..MaxModems /\ nextPath \in 0..MaxPaths
    /\ at \in [SmsPaths -> Msgs \cup {None}] /\ exported \subseteq SmsPaths
    /\ \A p \in exported : at[p] \in Msgs
    /\ phase \in [Msgs -> {"unsent", "partial", "complete", "gone"}]
    /\ old \subseteq Msgs

SignalType ==
    [type : {"InterfacesAdded"}, modem : ModemPaths, path : {0},
     sim : Sims \cup {None}]
    \cup
    [type : {"InterfacesRemoved"}, modem : ModemPaths, path : {0}, sim : {None}]
    \cup
    [type : {"Added", "Deleted", "PropertiesChanged"}, modem : ModemPaths,
     path : SmsPaths, sim : {None}]

ProviderTypeOK ==
    /\ app \in {"down", "matching", "listing", "reading", "running"}
    /\ known \in ModemPaths \cup {0} /\ matched \subseteq ModemPaths
    /\ subs \subseteq SmsPaths /\ toRead \subseteq SmsPaths
    /\ seen \in [SmsPaths -> Observation]

ChannelsTypeOK ==
    /\ sigs \in Seq(SignalType)
    /\ events \in Seq(Event) /\ Len(events) <= EventCap

DbTypeOK ==
    /\ pending \in Msgs \cup {None}
    /\ modemRow \in BOOLEAN /\ simBound \in Sims \cup {None}
    /\ Table(sms) /\ lastId \in Nat /\ DOMAIN sms \subseteq 1..lastId
    /\ deleting \in {NoRequest} \cup [at : {"modem", "table"}, id : Nat, row : Row]

CountersTypeOK ==
    /\ mmRestarts \in 0..MaxMMRestarts /\ crashes \in 0..MaxCrashes
    /\ busFaults \in 0..MaxBusFaults /\ dbFaults \in 0..MaxDbFaults
    /\ deletes \in 0..MaxDeletes
    /\ notified \in [Msgs -> Nat] /\ erased \subseteq Msgs

TypeOK == /\ MMTypeOK /\ ProviderTypeOK /\ ChannelsTypeOK
          /\ DbTypeOK /\ CountersTypeOK

(* source_key is UNIQUE: no transaction is aborted by that constraint,     *)
(* even when MM has handed out a path twice (store.go:669-682).            *)
SourceKeysUnique ==
    \A i, j \in DOMAIN sms : i # j => sms[i].path # sms[j].path

(* The history shows a message once, however its paths have drifted: the   *)
(* merge in insertSMS leaves neither a second copy nor the provisional row *)
(* of the new path (store.go:470-490).                                     *)
ShownOnce ==
    mmRestarts = 0 /\ dbFaults = 0 =>
        \A i, j \in DOMAIN sms : \A m \in Msgs :
            /\ i # j /\ Tracked(m) /\ Holds(sms[i], m)
            => ~ /\ sms[j].state = "received"
                 /\ Holds(sms[j], m) \/ at[sms[j].path] = m

(* A message is announced at most once, across re-enumerations, restarts   *)
(* of the daemon, reads repeated and events lost (runner.go:234, "avoid    *)
(* that Telegram/WS receive repeated new-message notifications").          *)
NotifiedAtMostOnce ==
    mmRestarts = 0 =>
        \A m \in Msgs : Tracked(m) /\ m \notin erased => notified[m] <= 1

(* What was announced can be read: the history has it, marked pushed.      *)
NotifiedIsInHistory ==
    mmRestarts = 0 =>
        \A m \in Msgs :
            Tracked(m) /\ m \notin erased /\ (notified[m] > 0 \/ pending = m)
                => Handled(m)

(* The history forgets a received message only when the user deletes it    *)
(* (docs/USAGE.md:63): no event of another message overwrites or deletes   *)
(* its row, and its state never goes back.                                 *)
HistoryIsKept ==
    [][\A m \in Msgs :
          mmRestarts' = 0 /\ Tracked(m) /\ InHistory(m) /\ m \notin erased'
          => InHistory(m)']_vars

(* The two messages cannot be told apart.                                  *)
Alike(m, n) == /\ Dir(m) = Dir(n) /\ Peer[m] = Peer[n]
               /\ Body[m] = Body[n] /\ Stamp[m] = Stamp[n]

(* The row that the request has read shows m, or, without a text as yet,   *)
(* is the row of a path at which there is m.                               *)
IsAsked(m) == IF deleting.row.body = None THEN Alike(m, at[deleting.row.path])
              ELSE Shows(deleting.row, m)

(* A request deletes the message that the row showed when it was read, and *)
(* no other, on the modem as in the table, whatever became of the row, the *)
(* message and its path between the three steps (sms.go:184-201).          *)
DeletesTheMessageShown ==
    [][\A m \in Msgs :
          /\ mmRestarts' = 0
          /\ \/ phase[m] # "gone" /\ phase'[m] = "gone"
             \/ /\ deleting.at = "table" /\ Tracked(m)
                /\ deleting.id \in DOMAIN sms \ DOMAIN sms'
                /\ Holds(sms[deleting.id], m)
          => IsAsked(m)]_vars

(* The same when MM may restart.                                           *)
AlwaysDeletesTheMessageShown ==
    [][\A m \in Msgs : phase[m] # "gone" /\ phase'[m] = "gone" => IsAsked(m)]_vars

(* HistoryIsKept without the proviso that MM has not restarted.            *)
HistoryIsAlwaysKept ==
    [][\A m \in Msgs :
          Tracked(m) /\ InHistory(m) /\ m \notin erased' => InHistory(m)']_vars

(* The pipeline seen from its users.                                       *)
StatusOf(m) ==
    IF m \in erased THEN "erased"
    ELSE IF notified[m] > 0 THEN "told"
    ELSE IF pending = m THEN "claimed"
    ELSE IF Handled(m) THEN "quiet"
    ELSE "unseen"

TrackedMsgs == {m \in Msgs : Tracked(m)}

Inbox == INSTANCE SmsInbox WITH
            Msgs <- TrackedMsgs,
            status <- [m \in TrackedMsgs |-> StatusOf(m)]

(* The pipeline implements SmsInbox, as long as MM does not restart.       *)
ImplementsInbox == Inbox!Spec

-----------------------------------------------------------------------------
(* Liveness, under FairSpec.                                               *)

(* The provider, running, has a signal in its queue about an inbound       *)
(* message that is complete, still on the modem and not dealt with.        *)
Announced(p) == \E i \in DOMAIN sigs :
                    /\ sigs[i].path = p
                    /\ \/ sigs[i].type = "Added" /\ sigs[i].modem = known
                       \/ sigs[i].type = "PropertiesChanged" /\ p \in subs

Waiting(m) ==
    /\ app = "running" /\ m \notin Outbound /\ phase[m] = "complete"
    /\ notified[m] = 0 /\ pending # m /\ ~Handled(m)
    /\ \E p \in exported : at[p] = m /\ ~seen[p].notified /\ Announced(p)

(* A message that reaches a running provider is announced, unless it goes  *)
(* away with its modem or gets too old on the way, and provided no call    *)
(* fails and no channel overflows (docs/USAGE.md:61).                      *)
NewMessageIsAnnounced ==
    \A m \in Msgs :
        Waiting(m) ~> notified[m] > 0 \/ m \in old \/ ~IsExported(m)
                        \/ app = "down"

(* A complete message that is on the modem when the daemon starts gets     *)
(* into the history (mmprovider.go:339, runner.go:265).                    *)
ListedMessageIsFiled ==
    \A m \in Msgs :
        /\ app = "listing" /\ known # 0 /\ known = modem
        /\ phase[m] = "complete" /\ IsExported(m)
        ~> InHistory(m) \/ ~IsExported(m) \/ app = "down"
=============================================================================
