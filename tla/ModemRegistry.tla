---------------------------- MODULE ModemRegistry ----------------------------
(***************************************************************************)
(* Which modules are there, and which SIM is in which: from the objects of *)
(* ModemManager (MM) through the provider's map to the rows the user sees. *)
(*                                                                         *)
(*   MM objects --signals--> MMProvider.modems --events--> Runner          *)
(*                           (mmprovider.go)               (runner.go)     *)
(*                                |                          |             *)
(*                                +--- sweep after 5 s ----> modems, sims, *)
(*                                DELETE /modems, /sims ---> bindings      *)
(*                                                                         *)
(* The provider's dispatcher, the runner and HTTP requests run at the same *)
(* time; the daemon may crash and start again with the database alone; MM  *)
(* may restart, and then its objects have other paths.  A module comes     *)
(* back under another DeviceIdentifier when it changes its port or its     *)
(* firmware, but no two modules share one.                                 *)
(***************************************************************************)
EXTENDS ModemStore, Sequences, FiniteSets

CONSTANTS
    IdsOf,          \* the identifiers each module may report
    FirstSlot,      \* the SIMs in the modules to begin with
    Shy,            \* modules whose IMEI MM may fail to read
    Locked,         \* SIMs whose ICCID cannot be read (PIN)
    MaxPaths,       \* bound: modem object paths between restarts of MM
    MaxPlugs,       \* bound: modules plugged in
    MaxSwaps,       \* bound: SIMs put in or taken out
    MaxReports,     \* bound: signal reports
    MaxMMRestarts, MaxCrashes, MaxBusFaults, MaxDeletes,    \* bounds likewise
    MaxMoves,       \* bound: all of these together, by weight (Room)
    EventCap        \* capacity of the provider's event channel

Paths == 1..MaxPaths

ASSUME IdsAssumption ==
    /\ IdsOf \in [Modules -> SUBSET Ids]
    /\ \A m, n \in Modules : m # n => IdsOf[m] \cap IdsOf[n] = {}
    /\ FirstSlot \in [Modules -> Sims \cup {None}]
    /\ Shy \subseteq Modules /\ Locked \subseteq Sims

ASSUME BoundsAssumption ==
    /\ MaxPaths \in Nat /\ MaxPlugs \in Nat /\ MaxSwaps \in Nat
    /\ MaxReports \in Nat /\ MaxMMRestarts \in Nat /\ MaxCrashes \in Nat
    /\ MaxBusFaults \in Nat /\ MaxDeletes \in Nat /\ MaxMoves \in Nat
    /\ EventCap \in Nat \ {0}

VARIABLES
    \* ModemManager and the modules
    object,     \* the modem object at each path, None if there is none
    nextPath,   \* the last path handed out
    slot,       \* the SIM in each module, None if there is none
    \* MMProvider
    app,        \* "down", "matching", "listing", "running"
    entries,    \* p.modems, by identifier
    byPath,     \* identifiers by path
    matched,    \* paths whose PropertiesChanged are subscribed to
    toAdd,      \* objects of GetManagedObjects not yet added
    adding,     \* the modem onModemAdded has read the SIM of
    sigs,       \* sigCh
    \* Runner
    events,     \* the provider's event channel
    task,       \* what the runner is in the middle of
    modemIDs, simIDs,   \* the caches, 0 for no entry
    sweep,      \* of stale rows: "due", "skipped", "done"
    \* database
    modems, lastModem, sims, lastSim, bound,
    \* bounds
    plugs, swaps, reports, mmRestarts, crashes, busFaults, deletes,
    \* history: for the properties only
    unsure,     \* identifiers of modules an event of which was dropped, or a
                \* statement for which failed, since the start
    scars       \* rows a crash left offline with a SIM

mmVars    == <<object, nextPath, slot>>
provVars  == <<app, entries, byPath, matched, toAdd, adding>>
cacheVars == <<modemIDs, simIDs>>
dbVars    == <<modems, lastModem, sims, lastSim, bound>>
runVars   == <<task, cacheVars, sweep, dbVars>>
boundVars == <<plugs, swaps, reports, mmRestarts, crashes, busFaults, deletes>>

historyVars == <<unsure, scars>>

vars == <<mmVars, provVars, sigs, events, historyVars, runVars, boundVars>>

-----------------------------------------------------------------------------
Object == [module : Modules, dev : Ids, imei : Modules \cup {None}]

(* What the provider keeps of a modem.                                     *)
Entry == [path : Paths, imei : Modules \cup {None}, sim : Sims \cup {None}]

(* What onModemAdded has in hand once it has read the SIM.                 *)
Reading == [path : Paths, object : Object, entry : Entry]

ASSUME NoneIsNoRecord == None \notin Entry \cup Reading

(* A signal.  Only an announcement names the object; the object of others  *)
(* tells the properties whose they are.                                    *)
Signal(type, p, o, s) == [type |-> type, path |-> p, object |-> o, sim |-> s]

(* An event.  module tells the properties, not the code, whose it is.      *)
Event(kind, d, e, m) == [kind |-> kind, dev |-> d, imei |-> e.imei,
                         sim |-> e.sim, module |-> m]

NoEntry == [imei |-> None, sim |-> None]

Idle == [at |-> "idle"]

(* The identifiers of the module that reports d.                           *)
Siblings(d) == UNION {IdsOf[m] : m \in {n \in Modules : d \in IdsOf[n]}}

(* A statement failed, which is logged and no more.                        *)
Refuse(d) == unsure' = unsure \cup Siblings(d) /\ UNCHANGED scars

(* emit, once for each of es: what finds the channel full is lost.         *)
Emit(es) ==
    LET room == EventCap - Len(events)
        n    == IF Len(es) <= room THEN Len(es) ELSE room
    IN  /\ events' = events \o SubSeq(es, 1, n)
        /\ unsure' = unsure \cup UNION {Siblings(es[i].dev) : i \in n+1..Len(es)}
        /\ UNCHANGED scars

(* A signal reaches sigCh only while the daemon has a connection.          *)
Deliver(sig) == sigs' = IF app = "down" THEN sigs ELSE Append(sigs, sig)

(* The signals of a modem object itself must be subscribed to.             *)
Notify(p, sig) == IF p \in matched THEN Deliver(sig) ELSE UNCHANGED sigs

Listed == {d \in Ids : entries[d] # None}

Init ==
    /\ object = [p \in Paths |-> None] /\ nextPath = 0
    /\ slot = FirstSlot
    /\ app = "down" /\ entries = [d \in Ids |-> None]
    /\ byPath = [p \in Paths |-> None] /\ matched = {}
    /\ toAdd = {} /\ adding = None /\ sigs = <<>>
    /\ events = <<>> /\ task = Idle
    /\ modemIDs = [d \in Ids |-> 0] /\ simIDs = [d \in Ids |-> 0]
    /\ sweep = "due"
    /\ modems = EmptyTable /\ lastModem = 0 /\ sims = EmptyTable /\ lastSim = 0
    /\ bound = EmptyTable
    /\ plugs = 0 /\ swaps = 0 /\ reports = 0 /\ mmRestarts = 0 /\ crashes = 0
    /\ busFaults = 0 /\ deletes = 0
    /\ unsure = {} /\ scars = {}

-----------------------------------------------------------------------------
(* ModemManager and the hands that move modules and SIMs.                  *)

(* The bounds leave room for n more moves of the environment; a crash, a   *)
(* restart of MM and a fault of the bus count for two.                     *)
Room(n) == plugs + swaps + reports + deletes
              + 2 * (mmRestarts + crashes + busFaults) + n <= MaxMoves

Exported(m) == \E p \in Paths : object[p] # None /\ object[p].module = m

(* A module is plugged in, resets, or is found by an MM that restarted.    *)
Plug(m, d, imei) ==
    /\ ~Exported(m) /\ nextPath < MaxPaths /\ plugs < MaxPlugs /\ Room(1)
    /\ nextPath' = nextPath + 1 /\ plugs' = plugs + 1
    /\ LET o == [module |-> m, dev |-> d, imei |-> imei]
       IN  /\ object' = [object EXCEPT ![nextPath'] = o]
           /\ Deliver(Signal("InterfacesAdded", nextPath', o, slot[m]))
    /\ UNCHANGED <<slot, provVars, events, historyVars, runVars, swaps, reports,
                   mmRestarts, crashes, busFaults, deletes>>

Unplug(p) ==
    /\ object[p] # None
    /\ object' = [object EXCEPT ![p] = None]
    /\ Deliver(Signal("InterfacesRemoved", p, None, None))
    /\ UNCHANGED <<nextPath, slot, provVars, events, historyVars, runVars, boundVars>>

(* A SIM is put into a module, or taken out (s = None).                    *)
SwapSim(m, s) ==
    /\ swaps < MaxSwaps /\ Room(1) /\ swaps' = swaps + 1
    /\ IF s = None THEN slot[m] # None
       ELSE slot[m] = None /\ \A n \in Modules : slot[n] # s
    /\ slot' = [slot EXCEPT ![m] = s]
    /\ \/ \E p \in Paths : /\ object[p] # None /\ object[p].module = m
                           /\ Notify(p, Signal("Modem", p, object[p], s))
       \/ ~Exported(m) /\ UNCHANGED sigs
    /\ UNCHANGED <<object, nextPath, provVars, events, historyVars, runVars, plugs,
                   reports, mmRestarts, crashes, busFaults, deletes>>

(* MM restarts: its objects vanish unannounced, and paths begin again.     *)
MMRestart ==
    /\ mmRestarts < MaxMMRestarts /\ Room(2) /\ mmRestarts' = mmRestarts + 1
    /\ object' = [p \in Paths |-> None] /\ nextPath' = 0
    /\ UNCHANGED <<slot, provVars, sigs, events, historyVars, runVars, plugs, swaps,
                   reports, crashes, busFaults, deletes>>

(* The signal interface reports.                                           *)
Report(p) ==
    /\ reports < MaxReports /\ Room(1) /\ reports' = reports + 1
    /\ object[p] # None /\ p \in matched
    /\ Deliver(Signal("Signal", p, object[p], None))
    /\ UNCHANGED <<mmVars, provVars, events, historyVars, runVars, plugs, swaps,
                   mmRestarts, crashes, busFaults, deletes>>

-----------------------------------------------------------------------------
(* MMProvider: one goroutine.                                              *)

Start ==
    /\ app = "down" /\ app' = "matching"
    /\ UNCHANGED <<mmVars, entries, byPath, matched, toAdd, adding, sigs, events,
                   historyVars, runVars, boundVars>>

(* readSim, through the object of the SIM: gone with the modem or the card.*)
SimReadable(p, o, s) == object[p] = o /\ slot[o.module] = s

BusOk    == UNCHANGED busFaults
BusFails == busFaults < MaxBusFaults /\ Room(2) /\ busFaults' = busFaults + 1

(* initialReconcile: the modems are added in the order of a Go map, or none*)
(* is when the call fails.                                                 *)
GetManagedObjects ==
    /\ app = "matching" /\ app' = "listing"
    /\ \/ /\ BusOk
          /\ toAdd' = {Signal("InterfacesAdded", p, object[p], slot[object[p].module]) :
                          p \in {q \in Paths : object[q] # None}}
       \/ BusFails /\ UNCHANGED toAdd
    /\ UNCHANGED <<mmVars, entries, byPath, matched, adding, sigs, events, historyVars,
                   runVars, plugs, swaps, reports, mmRestarts, crashes, deletes>>

(* onModemAdded, up to the reading of the SIM the announcement named.      *)
ReadModem(sig) ==
    LET o == sig.object
        Read(s) == [path |-> sig.path, object |-> o,
                    entry |-> [path |-> sig.path, imei |-> o.imei, sim |-> s]]
        readable == sig.sim # None /\ SimReadable(sig.path, o, sig.sim)
    IN  \/ adding' = Read(IF readable THEN sig.sim ELSE None) /\ BusOk
        \/ readable /\ adding' = Read(None) /\ BusFails

ReadListed ==
    /\ app = "listing" /\ adding = None
    /\ \E sig \in toAdd : toAdd' = toAdd \ {sig} /\ ReadModem(sig)
    /\ UNCHANGED <<mmVars, app, entries, byPath, matched, sigs, events, historyVars,
                   runVars, plugs, swaps, reports, mmRestarts, crashes,
                   deletes>>

ReadAnnounced ==
    /\ app = "running" /\ adding = None
    /\ sigs # <<>> /\ Head(sigs).type = "InterfacesAdded"
    /\ sigs' = Tail(sigs) /\ ReadModem(Head(sigs))
    /\ UNCHANGED <<mmVars, app, entries, byPath, matched, toAdd, events, historyVars,
                   runVars, plugs, swaps, reports, mmRestarts, crashes,
                   deletes>>

(* Mutant: a path that leads somewhere is taken for known.                 *)
KnownRouteStays(d, p) ==
    IF byPath[p] = None THEN [byPath EXCEPT ![p] = d] ELSE byPath

(* The route of a path the modem had before is dropped, whoever it leads   *)
(* to by now.                                                              *)
Routed(d, p) ==
    [q \in Paths |->
        IF q = p THEN d
        ELSE IF entries[d] # None /\ entries[d].path = q THEN None
        ELSE byPath[q]]

(* onModemAdded, from there on.  removeModemMatches hands godbus all of an *)
(* entry's options at once, which matches no rule: paths stay subscribed.  *)
EnterModem ==
    /\ adding # None /\ adding' = None
    /\ LET d == adding.object.dev
           e == adding.entry
       IN  /\ entries' = [entries EXCEPT ![d] = e]
           /\ byPath' = Routed(d, e.path)
           /\ \/ matched' = matched \cup {e.path} /\ BusOk
              \/ UNCHANGED matched /\ BusFails
           /\ Emit(<<Event("ModemAdded", d, e, adding.object.module)>>)
    /\ UNCHANGED <<mmVars, app, toAdd, sigs, runVars, plugs, swaps, reports,
                   mmRestarts, crashes, deletes>>

Listen ==
    /\ app = "listing" /\ toAdd = {} /\ adding = None
    /\ app' = "running"
    /\ UNCHANGED <<mmVars, entries, byPath, matched, toAdd, adding, sigs, events,
                   historyVars, runVars, boundVars>>

(* The next signal, when the dispatcher is free for it.                    *)
Next1(type) ==
    /\ app = "running" /\ adding = None
    /\ sigs # <<>> /\ Head(sigs).type = type
    /\ sigs' = Tail(sigs)

(* onModemRemoved *)
OnModemRemoved ==
    /\ Next1("InterfacesRemoved")
    /\ LET p == Head(sigs).path
           d == byPath[p]
       IN  IF d = None THEN UNCHANGED <<entries, byPath, events, historyVars>>
           ELSE /\ entries' = [entries EXCEPT ![d] = None]
                /\ byPath' = [byPath EXCEPT ![p] = None]
                /\ Emit(<<Event("ModemRemoved", d, NoEntry, None)>>)
    /\ UNCHANGED <<mmVars, app, matched, toAdd, adding, runVars, boundVars>>

(* onPropertiesChanged of the Modem interface with a new "Sim"; a failure  *)
(* "sim-missing" does what the empty path does.                            *)
OnModemChanged ==
    /\ Next1("Modem")
    /\ LET p == Head(sigs).path
           s == Head(sigs).sim
           d == byPath[p]
           e == entries[d]
           Hold(t) == entries' = [entries EXCEPT ![d].sim = t]
           Update(t) == Event("ModemUpdated", d, [e EXCEPT !.sim = t], None)
           readable == object[p] # None /\ SimReadable(p, object[p], s)
       IN  IF d = None \/ e = None THEN UNCHANGED <<entries, events, historyVars, busFaults>>
           ELSE \/ /\ s = None \/ (readable /\ s \in Locked)
                   /\ Hold(None) /\ Emit(<<Update(None)>>) /\ BusOk
                \/ /\ s # None /\ readable /\ s \notin Locked
                   /\ Hold(s) /\ BusOk
                   /\ Emit(<<Event("SimUpdated", d, [e EXCEPT !.sim = s], None),
                             Update(s)>>)
                \/ /\ s # None
                   /\ IF readable THEN BusFails ELSE BusOk
                   /\ Emit(<<Update(e.sim)>>) /\ UNCHANGED entries
    /\ UNCHANGED <<mmVars, app, byPath, matched, toAdd, adding, runVars, plugs,
                   swaps, reports, mmRestarts, crashes, deletes>>

(* onPropertiesChanged of the Signal interface.                            *)
OnSignal ==
    /\ Next1("Signal")
    /\ LET d == byPath[Head(sigs).path]
       IN  IF d = None \/ entries[d] = None THEN UNCHANGED <<events, historyVars>>
           ELSE Emit(<<Event("SignalSampled", d, entries[d],
                             Head(sigs).object.module)>>)
    /\ UNCHANGED <<mmVars, provVars, runVars, boundVars>>

-----------------------------------------------------------------------------
(* Runner.handle: one goroutine; HTTP requests get at the database between *)
(* two of its statements.                                                  *)

Take(kinds) ==
    /\ app # "down" /\ task = Idle
    /\ events # <<>> /\ Head(events).kind \in kinds
    /\ events' = Tail(events)

(* UnbindModem *)
Unbind(i) == bound' = Without(bound, {i})

(* UpsertSim up to the row; a SIM without ICCID has none.  The binding     *)
(* follows.                                                                *)
UpsertSim(d, i, s) ==
    IF s \in Locked THEN UNCHANGED <<task, sims, lastSim>>
    ELSE /\ sims' = SimUpserted(sims, lastSim, s)
         /\ lastSim' = IF WithIccid(sims, s) = {} THEN lastSim + 1 ELSE lastSim
         /\ task' = [at |-> "bind", dev |-> d, row |-> i, sim |-> s]

(* Mutant: the SIM that was taken out stays bound.                         *)
StaysBound(d, i) == simIDs' = [simIDs EXCEPT ![d] = 0] /\ UNCHANGED bound

(* Mutant: the SIM that was taken out stays in the cache.                  *)
StaysCached(d, i) == Unbind(i) /\ UNCHANGED simIDs

(* The event names no SIM.                                                 *)
TakeSimOut(d, i) == Unbind(i) /\ simIDs' = [simIDs EXCEPT ![d] = 0]

(* EventModemAdded, EventModemUpdated.  When the row is refused nothing    *)
(* else is done.  UpsertModem and the statement after it are one step: a   *)
(* request in between finds the row present, and refuses to delete it.     *)
HandleModem ==
    /\ Take({"ModemAdded", "ModemUpdated"})
    /\ LET ev == Head(events)
           i  == UpsertedId(modems, lastModem, ev.dev, ev.imei)
       IN  IF UpsertFails(modems, ev.dev, ev.imei)
           THEN /\ Refuse(ev.dev)
                /\ UNCHANGED <<task, cacheVars, modems, lastModem, sims, lastSim, bound>>
           ELSE /\ modems' = Upserted(modems, lastModem, ev.dev, ev.imei)
                /\ lastModem' = IF i > lastModem THEN i ELSE lastModem
                /\ modemIDs' = [modemIDs EXCEPT ![ev.dev] = i]
                /\ UNCHANGED historyVars
                /\ IF ev.sim = None
                   THEN TakeSimOut(ev.dev, i) /\ UNCHANGED <<task, sims, lastSim>>
                   ELSE UpsertSim(ev.dev, i, ev.sim) /\ UNCHANGED <<bound, simIDs>>
    /\ UNCHANGED <<mmVars, provVars, sigs, sweep, boundVars>>

(* getModemID: the cached id, or else that of the row with the identifier. *)
ModemID(d) == IF modemIDs[d] # 0 THEN modemIDs[d] ELSE ModemIDByDevice(modems, d)

(* getSimID *)
SimID(d, i) == IF simIDs[d] # 0 THEN simIDs[d] ELSE SimIDByModem(bound, i)

(* EventSimUpdated *)
HandleSim ==
    /\ Take({"SimUpdated"})
    /\ LET ev == Head(events)
       IN  /\ modemIDs' = [modemIDs EXCEPT ![ev.dev] = ModemID(ev.dev)]
           /\ UpsertSim(ev.dev, ModemID(ev.dev), ev.sim)
    /\ UNCHANGED <<mmVars, provVars, sigs, historyVars, simIDs, sweep, modems, lastModem,
                   bound, boundVars>>

(* UpsertSim, the end: read the id of the row back, bind it, cache it.     *)
Bind ==
    /\ task.at = "bind" /\ task' = Idle
    /\ LET i == task.row
           j == SimIDByIccid(sims, task.sim)
       IN  IF j # 0 /\ (i = 0 \/ CanBind(modems, sims, i, j))
           THEN /\ bound' = IF i = 0 THEN bound ELSE WithRow(bound, i, j)
                /\ simIDs' = [simIDs EXCEPT ![task.dev] = j]
                /\ UNCHANGED historyVars
           ELSE Refuse(task.dev) /\ UNCHANGED <<bound, simIDs>>
    /\ UNCHANGED <<mmVars, provVars, sigs, events, modemIDs, sweep, modems,
                   lastModem, sims, lastSim, boundVars>>

(* EventModemRemoved: MarkModemAbsent ...                                  *)
HandleRemoved ==
    /\ Take({"ModemRemoved"})
    /\ LET d == Head(events).dev
       IN  /\ modems' = MarkedAbsent(modems, {d})
           /\ task' = [at |-> "forget", dev |-> d]
    /\ UNCHANGED <<mmVars, provVars, sigs, historyVars, cacheVars, sweep, lastModem, sims,
                   lastSim, bound, boundVars>>

(* ... then, in a transaction of its own, UnbindModem; and forgetModem.    *)
ForgetModem ==
    /\ task.at = "forget" /\ task' = Idle
    /\ Unbind(ModemID(task.dev))
    /\ modemIDs' = [modemIDs EXCEPT ![task.dev] = 0]
    /\ simIDs' = [simIDs EXCEPT ![task.dev] = 0]
    /\ UNCHANGED <<mmVars, provVars, sigs, events, historyVars, sweep, modems, lastModem,
                   sims, lastSim, boundVars>>

(* The row InsertSignalSample is given.  Its ids are foreign keys: one     *)
(* from the cache whose row is gone makes it fail.                         *)
SampleRow(ev) == LET i == ModemID(ev.dev) IN [modem |-> i, sim |-> SimID(ev.dev, i)]

CanFile(x) == x.modem \in DOMAIN modems /\ x.sim \in DOMAIN sims \cup {0}

(* EventSignalSampled.  (The events of messages take the same ids.)        *)
HandleSample ==
    /\ Take({"SignalSampled"})
    /\ LET d == Head(events).dev
           x == SampleRow(Head(events))
       IN  /\ modemIDs' = [modemIDs EXCEPT ![d] = x.modem]
           /\ simIDs' = [simIDs EXCEPT ![d] = x.sim]
           /\ IF x.modem = 0 \/ CanFile(x) THEN UNCHANGED historyVars
              ELSE Refuse(d)
    /\ UNCHANGED <<mmVars, provVars, sigs, task, sweep, modems,
                   lastModem, sims, lastSim, bound, boundVars>>

(* sweepStaleModems, once, 5 s after the start: take the identifiers the   *)
(* provider lists ...                                                      *)
SweepLooks ==
    /\ app # "down" /\ task = Idle /\ sweep = "due"
    /\ IF Listed = {} THEN sweep' = "skipped" /\ UNCHANGED task
       ELSE sweep' = "done" /\ task' = [at |-> "sweep", seen |-> Listed]
    /\ UNCHANGED <<mmVars, provVars, sigs, events, historyVars, cacheVars, dbVars,
                   boundVars>>

(* Mutant: rows that are present keep their SIM.                           *)
MarkStaleOnly ==
    /\ task.at = "sweep" /\ task' = Idle
    /\ modems' = MarkedAbsent(modems, Ids \ task.seen)
    /\ UNCHANGED <<mmVars, provVars, sigs, events, historyVars, cacheVars, sweep,
                   lastModem, sims, lastSim, bound, boundVars>>

(* ... and then mark the rows of all others absent: one transaction.       *)
MarkStaleModemsAbsent ==
    /\ task.at = "sweep" /\ task' = Idle
    /\ modems' = MarkedAbsent(modems, Ids \ task.seen)
    /\ bound' = Without(bound, {i \in DOMAIN modems : /\ modems[i].present
                                                      /\ modems[i].dev \notin task.seen})
    /\ UNCHANGED <<mmVars, provVars, sigs, events, historyVars, cacheVars, sweep,
                   lastModem, sims, lastSim, boundVars>>

-----------------------------------------------------------------------------
(* HTTP.                                                                   *)

(* DELETE /modems/{device_id}: DeleteOfflineModem; the binding goes with   *)
(* the row.                                                                *)
DeleteOfflineModem(i) ==
    /\ app # "down" /\ deletes < MaxDeletes /\ Room(1) /\ deletes' = deletes + 1
    /\ i \in DOMAIN modems /\ ~modems[i].present
    /\ modems' = Without(modems, {i}) /\ Unbind(i)
    /\ UNCHANGED <<mmVars, provVars, sigs, events, historyVars, task, cacheVars, sweep,
                   lastModem, sims, lastSim, plugs, swaps,
                   reports, mmRestarts, crashes, busFaults>>

(* DELETE /sims/{id}: DeleteUnusedSIM.                                     *)
DeleteUnusedSIM(j) ==
    /\ app # "down" /\ deletes < MaxDeletes /\ Room(1) /\ deletes' = deletes + 1
    /\ j \in DOMAIN sims /\ Unbound(bound, j)
    /\ sims' = Without(sims, {j})
    /\ UNCHANGED <<mmVars, provVars, sigs, events, historyVars, task, cacheVars, sweep,
                   modems, lastModem, lastSim, bound, plugs, swaps,
                   reports, mmRestarts, crashes, busFaults>>

-----------------------------------------------------------------------------
(* The daemon dies, and keeps its database.                                *)
Crash ==
    /\ app # "down" /\ crashes < MaxCrashes /\ Room(2) /\ crashes' = crashes + 1
    /\ app' = "down" /\ entries' = [d \in Ids |-> None]
    /\ byPath' = [p \in Paths |-> None] /\ matched' = {}
    /\ toAdd' = {} /\ adding' = None /\ sigs' = <<>> /\ events' = <<>>
    /\ task' = Idle /\ sweep' = "due" /\ unsure' = {}
    /\ modemIDs' = [d \in Ids |-> 0] /\ simIDs' = [d \in Ids |-> 0]
    /\ scars' = scars \cup {i \in DOMAIN bound : ~modems[i].present}
    /\ UNCHANGED <<mmVars, dbVars, plugs, swaps, reports, mmRestarts,
                   busFaults, deletes>>

Environment ==
    \/ \E m \in Modules : \E d \in IdsOf[m] :
          Plug(m, d, m) \/ (m \in Shy /\ Plug(m, d, None))
    \/ \E p \in Paths : Unplug(p) \/ Report(p)
    \/ \E m \in Modules, s \in Sims \cup {None} : SwapSim(m, s)
    \/ MMRestart \/ Crash

Provider ==
    \/ Start \/ GetManagedObjects \/ ReadListed \/ ReadAnnounced \/ EnterModem
    \/ Listen \/ OnModemRemoved \/ OnModemChanged \/ OnSignal

Runner ==
    \/ HandleModem \/ HandleSim \/ Bind \/ HandleRemoved \/ ForgetModem
    \/ HandleSample \/ SweepLooks \/ MarkStaleModemsAbsent

Http == \/ \E i \in DOMAIN modems : DeleteOfflineModem(i)
        \/ \E j \in DOMAIN sims : DeleteUnusedSIM(j)

Next == Environment \/ Provider \/ Runner \/ Http

Spec == Init /\ [][Next]_vars

-----------------------------------------------------------------------------
(* Types.                                                                  *)

Announcement ==
    [type : {"InterfacesAdded"}, path : Paths, object : Object, sim : Sims \cup {None}]

SignalType ==
    Announcement
    \cup
    [type : {"InterfacesRemoved"}, path : Paths, object : {None}, sim : {None}]
    \cup
    [type : {"Modem"}, path : Paths, object : Object, sim : Sims \cup {None}]
    \cup
    [type : {"Signal"}, path : Paths, object : Object, sim : {None}]

EventType ==
    [kind : {"ModemAdded", "ModemUpdated", "ModemRemoved", "SignalSampled"},
     dev : Ids, imei : Modules \cup {None}, sim : Sims \cup {None},
     module : Modules \cup {None}]
    \cup
    [kind : {"SimUpdated"}, dev : Ids, imei : Modules \cup {None}, sim : Sims,
     module : {None}]

TaskType == {Idle} \cup [at : {"bind"}, dev : Ids, row : Nat, sim : Sims]
                  \cup [at : {"forget"}, dev : Ids]
                  \cup [at : {"sweep"}, seen : SUBSET Ids]

MMTypeOK ==
    /\ object \in [Paths -> Object \cup {None}] /\ nextPath \in 0..MaxPaths
    /\ slot \in [Modules -> Sims \cup {None}]

ProviderTypeOK ==
    /\ app \in {"down", "matching", "listing", "running"}
    /\ entries \in [Ids -> Entry \cup {None}]
    /\ byPath \in [Paths -> Ids \cup {None}] /\ matched \subseteq Paths
    /\ toAdd \subseteq Announcement
    /\ adding \in Reading \cup {None}
    /\ sigs \in Seq(SignalType)
    /\ events \in Seq(EventType) /\ Len(events) <= EventCap

RunnerTypeOK ==
    /\ task \in TaskType /\ sweep \in {"due", "skipped", "done"}
    /\ modemIDs \in [Ids -> 0..lastModem] /\ simIDs \in [Ids -> 0..lastSim]
    /\ unsure \subseteq Ids /\ scars \subseteq Nat

(* The foreign keys of modem_sim_bindings.                                 *)
BindingsOK ==
    /\ Table(bound, 1..lastSim) /\ DOMAIN bound \subseteq DOMAIN modems
    /\ \A i \in DOMAIN bound : bound[i] \in DOMAIN sims

DbTypeOK ==
    /\ lastModem \in Nat /\ lastSim \in Nat
    /\ Table(modems, ModemRow) /\ DOMAIN modems \subseteq 1..lastModem
    /\ Table(sims, Sims) /\ DOMAIN sims \subseteq 1..lastSim
    /\ BindingsOK

CountersTypeOK ==
    /\ plugs \in 0..MaxPlugs /\ swaps \in 0..MaxSwaps
    /\ reports \in 0..MaxReports /\ mmRestarts \in 0..MaxMMRestarts
    /\ crashes \in 0..MaxCrashes /\ busFaults \in 0..MaxBusFaults
    /\ deletes \in 0..MaxDeletes

TypeOK == /\ MMTypeOK /\ ProviderTypeOK /\ RunnerTypeOK
          /\ DbTypeOK /\ CountersTypeOK

-----------------------------------------------------------------------------
(* Everything that has happened has been dealt with.                       *)
Settled ==
    /\ app = "running" /\ adding = None /\ sigs = <<>>
    /\ events = <<>> /\ task = Idle

(* MM has the modem the provider lists as d.                               *)
Live(d) == /\ entries[d] # None /\ object[entries[d].path] # None
           /\ object[entries[d].path].dev = d

(* Once settled, a modem that is there has a row that is online and names  *)
(* the SIM the provider sees in it, or none (runner.go:163-189).           *)
ListedIsOnline ==
    Settled =>
        \A d \in Ids : Live(d) /\ d \notin unsure =>
            \E i \in WithDevice(modems, d) :
                /\ modems[i].present
                /\ entries[d].sim = None => i \notin DOMAIN bound
                /\ entries[d].sim \in Sims \ Locked =>
                        i \in DOMAIN bound /\ sims[bound[i]] = entries[d].sim

(* Once settled and swept, a row whose modem the provider does not list is *)
(* offline and has no SIM, whatever an earlier run of the daemon or the    *)
(* other identifiers of the module left behind (runner.go:79-82, 196-207). *)
(* The sweep looks at rows that are present only: a SIM left bound to an   *)
(* offline row by a crash inside the removal stays.                        *)
UnlistedIsOffline ==
    Settled /\ sweep = "done" =>
        \A i \in DOMAIN modems :
            entries[modems[i].dev] = None /\ modems[i].dev \notin unsure =>
                ~modems[i].present /\ (i \in DOMAIN bound => i \in scars)

(* The runner is about to file a sample.                                   *)
Filing == /\ task = Idle /\ events # <<>> /\ Head(events).kind = "SignalSampled"
          /\ CanFile(SampleRow(Head(events)))

(* It goes under a row of the module that measured it.                     *)
FiledUnderItsModem ==
    Filing => LET ev == Head(events)
                  i  == SampleRow(ev).modem
              IN  /\ modems[i].dev \in IdsOf[ev.module]
                  /\ modems[i].imei \in {ev.module, None}

(* It goes under the SIM the provider saw in that module.                  *)
FiledUnderItsSim ==
    Filing => LET ev == Head(events)
                  j  == SampleRow(ev).sim
              IN  j # 0 /\ ev.dev \notin unsure /\ ev.sim \notin Locked
                      => sims[j] = ev.sim

(* What a module reports is filed under the row of that module and of the  *)
(* SIM the provider saw in it, however identifiers, paths, rows and cached *)
(* ids have changed since (runner.go:222-234, 338-369).                    *)
FiledWhereMeasured == FiledUnderItsModem /\ FiledUnderItsSim

(* The two maps of the provider agree: a path leads to a modem that is     *)
(* listed at that path, so no modem has two (mmprovider.go:511-530, 600-617).*)
RoutesAreKnown ==
    \A p \in Paths : byPath[p] # None =>
        entries[byPath[p]] # None /\ entries[byPath[p]].path = p

(* When the provider has nothing left to read, a path leads to the modem   *)
(* that is at it: a report or message from it is never taken for another   *)
(* modem's, whatever was removed, announced or renumbered while it listed. *)
RoutesLeadHome ==
    app = "running" /\ adding = None /\ sigs = <<>> =>
        \A p \in Paths : byPath[p] # None /\ object[p] # None =>
            object[p].dev = byPath[p]

(* And it does lead there: a modem that is listed and there is heard,      *)
(* whatever path MM gives it after a restart (mmprovider.go:517-529).      *)
ListedIsHeard ==
    app = "running" /\ adding = None /\ sigs = <<>> =>
        \A d \in Ids : Live(d) => byPath[entries[d].path] = d
=============================================================================
