------------------------- MODULE ModemRegistryProofs -------------------------
(* The registry of modems, for any number of modules, SIMs, paths, faults  *)
(* and deletes, in five parts, each inductive on top of those before.  Its *)
(* variables keep their types and its tables their foreign keys, and the   *)
(* two maps of the provider agree (IInv); every signal that waits, and so  *)
(* every path, leads to the modem it is from (Phases, Homeward); no        *)
(* object, entry, event, row or cached id mixes two modules (Unmixed); and *)
(* what was said last of a module is what the provider has of it, and what *)
(* the runner comes to have (Informed).  From the last, what the tables    *)
(* show once all is settled, and where samples are filed.                  *)
EXTENDS ModemRegistry, TLAPS

-----------------------------------------------------------------------------
(* The tables.                                                             *)

(* MarkModemAbsent and MarkStaleModemsAbsent change no key.                *)
LEMMA MarkedAbsentTable ==
    ASSUME NEW t, Table(t, ModemRow), NEW D
    PROVE  /\ Table(MarkedAbsent(t, D), ModemRow)
           /\ DOMAIN MarkedAbsent(t, D) = DOMAIN t
  <1>1. \A i \in DOMAIN t : /\ t[i] \in ModemRow
                            /\ [t[i] EXCEPT !.present = FALSE] \in ModemRow
    BY DEF Table, ModemRow
  <1> QED  BY <1>1 DEF Table, MarkedAbsent

(* The ids that are looked up are ids of rows, or 0.                       *)
LEMMA LookedUp ==
    ASSUME NEW last \in Nat
    PROVE  /\ \A t : \A d : DOMAIN t \subseteq 1..last => ModemIDByDevice(t, d) \in 0..last
           /\ \A t : \A s : DOMAIN t \subseteq 1..last => SimIDByIccid(t, s) \in 0..last
           /\ \A b : \A i : Table(b, 1..last) => SimIDByModem(b, i) \in 0..last
  <1>1. \A t : \A d : DOMAIN t \subseteq 1..last => ModemIDByDevice(t, d) \in 0..last
    BY DEF ModemIDByDevice, WithDevice
  <1>2. \A t : \A s : DOMAIN t \subseteq 1..last => SimIDByIccid(t, s) \in 0..last
    BY DEF SimIDByIccid, WithIccid
  <1>3. \A b : \A i : Table(b, 1..last) => SimIDByModem(b, i) \in 0..last
    BY DEF SimIDByModem, Table
  <1> QED  BY <1>1, <1>2, <1>3

(* UpsertModem updates a row, or inserts the next one.                     *)
LEMMA UpsertedTable ==
    ASSUME NEW t, NEW last \in Nat, Table(t, ModemRow), DOMAIN t \subseteq 1..last,
           NEW d, NEW m, [dev |-> d, imei |-> m, present |-> TRUE] \in ModemRow
    PROVE  /\ UpsertedId(t, last, d, m) \in DOMAIN t \cup {last + 1}
           /\ Table(Upserted(t, last, d, m), ModemRow)
           /\ DOMAIN Upserted(t, last, d, m) = DOMAIN t \cup {UpsertedId(t, last, d, m)}
  <1> DEFINE i == UpsertedId(t, last, d, m)
             r == [dev |-> d, imei |-> m, present |-> TRUE]
  <1>1. Conflict(t, d, m) \subseteq DOMAIN t
    BY DEF Conflict, WithDevice, WithImei
  <1>2. i \in DOMAIN t \cup {last + 1}
    BY <1>1 DEF UpsertedId
  <1>3. i \in Nat \ {0} /\ r \in ModemRow
    BY <1>2
  <1> HIDE DEF i, r
  <1>4. /\ Table(WithRow(t, i, r), ModemRow)
        /\ DOMAIN WithRow(t, i, r) = DOMAIN t \cup {i}
    BY <1>3 DEF Table, WithRow
  <1>5. Upserted(t, last, d, m) = WithRow(t, i, r)
    BY DEF Upserted, i, r
  <1> QED  BY <1>2, <1>4, <1>5 DEF i

(* UpsertSim inserts the row of a SIM that has none.                       *)
LEMMA SimUpsertedTable ==
    ASSUME NEW t, NEW last \in Nat, Table(t, Sims), DOMAIN t \subseteq 1..last,
           NEW s \in Sims
    PROVE  LET new == IF WithIccid(t, s) = {} THEN last + 1 ELSE last IN
           /\ Table(SimUpserted(t, last, s), Sims)
           /\ DOMAIN t \subseteq DOMAIN SimUpserted(t, last, s)
           /\ DOMAIN SimUpserted(t, last, s) \subseteq 1..new
  <1>1. CASE WithIccid(t, s) = {}
    <2> DEFINE i == last + 1
    <2>1. i \in Nat \ {0} /\ DOMAIN t \cup {i} \subseteq 1..i
      OBVIOUS
    <2>2. SimUpserted(t, last, s) = WithRow(t, i, s)
      BY <1>1 DEF SimUpserted
    <2> HIDE DEF i
    <2>3. /\ Table(WithRow(t, i, s), Sims)
          /\ DOMAIN WithRow(t, i, s) = DOMAIN t \cup {i}
      BY <2>1 DEF Table, WithRow
    <2> QED  BY <1>1, <2>1, <2>2, <2>3 DEF i
  <1>2. CASE WithIccid(t, s) # {}
    BY <1>2 DEF SimUpserted
  <1> QED  BY <1>1, <1>2

-----------------------------------------------------------------------------
(* Signals and events.                                                     *)

(* The signals of a modem object itself.                                   *)
OfModem == {"Modem", "Signal"}

LEMMA SiblingsAreIds == \A d : Siblings(d) \subseteq Ids
  BY IdsAssumption DEF Siblings

(* emit keeps the channel within its capacity.                             *)
LEMMA EmitType ==
    ASSUME events \in Seq(EventType), Len(events) <= EventCap,
           unsure \subseteq Ids, scars \subseteq Nat,
           NEW es \in Seq(EventType), Emit(es)
    PROVE  /\ events' \in Seq(EventType) /\ Len(events') <= EventCap
           /\ unsure' \subseteq Ids /\ scars' \subseteq Nat
  <1> DEFINE room == EventCap - Len(events)
             n    == IF Len(es) <= room THEN Len(es) ELSE room
  <1>1. room \in Nat /\ n \in 0..Len(es) /\ n <= room
    BY BoundsAssumption
  <1>2. SubSeq(es, 1, n) \in Seq(EventType) /\ Len(SubSeq(es, 1, n)) = n
    BY <1>1
  <1>3. /\ events' = events \o SubSeq(es, 1, n)
        /\ unsure' = unsure \cup UNION {Siblings(es[i].dev) : i \in n+1..Len(es)}
        /\ UNCHANGED scars
    BY DEF Emit
  <1> HIDE DEF n
  <1>4. events' \in Seq(EventType) /\ Len(events') = Len(events) + n
    BY <1>2, <1>3
  <1>5. Len(events') <= EventCap
    BY <1>1, <1>4, BoundsAssumption
  <1>6. UNION {Siblings(es[i].dev) : i \in n+1..Len(es)} \subseteq Ids
    BY SiblingsAreIds
  <1> QED  BY <1>3, <1>4, <1>5, <1>6

(* One event, or two.                                                      *)
LEMMA EmitTypes ==
    ASSUME events \in Seq(EventType), Len(events) <= EventCap,
           unsure \subseteq Ids, scars \subseteq Nat,
           NEW x \in EventType, NEW y \in EventType, Emit(<<x>>) \/ Emit(<<x, y>>)
    PROVE  /\ events' \in Seq(EventType) /\ Len(events') <= EventCap
           /\ unsure' \subseteq Ids /\ scars' \subseteq Nat
  <1>1. <<x>> \in Seq(EventType) /\ <<x, y>> \in Seq(EventType)
    OBVIOUS
  <1>2. CASE Emit(<<x>>)
    <2> DEFINE es == <<x>>
    <2>1. es \in Seq(EventType) /\ Emit(es)
      BY <1>1, <1>2
    <2> HIDE DEF es
    <2> QED  BY <2>1, EmitType
  <1>3. CASE Emit(<<x, y>>)
    <2> DEFINE es == <<x, y>>
    <2>1. es \in Seq(EventType) /\ Emit(es)
      BY <1>1, <1>3
    <2> HIDE DEF es
    <2> QED  BY <2>1, EmitType
  <1> QED  BY <1>2, <1>3

(* A signal delivered is queued behind the others.                         *)
LEMMA DeliverType ==
    ASSUME sigs \in Seq(SignalType), NEW s \in SignalType, Deliver(s)
    PROVE  sigs' \in Seq(SignalType)
  BY DEF Deliver

LEMMA SignalTypes ==
    ASSUME NEW p \in Paths
    PROVE  /\ \A o \in Object, s \in Sims \cup {None} :
                  Signal("InterfacesAdded", p, o, s) \in SignalType
           /\ Signal("InterfacesRemoved", p, None, None) \in SignalType
           /\ \A o \in Object, s \in Sims \cup {None} : Signal("Modem", p, o, s) \in SignalType
           /\ \A o \in Object : Signal("Signal", p, o, None) \in SignalType
  BY DEF Signal, SignalType, Announcement

LEMMA EventTypes ==
    ASSUME NEW d \in Ids, NEW e, e.imei \in Modules \cup {None},
           e.sim \in Sims \cup {None}, NEW m \in Modules \cup {None}
    PROVE  /\ \A k \in {"ModemAdded", "ModemUpdated", "ModemRemoved", "SignalSampled"} :
                  Event(k, d, e, m) \in EventType
           /\ e.sim \in Sims => Event("SimUpdated", d, e, None) \in EventType
  BY DEF Event, EventType

(* Calls that fail stay within their bound.                                *)
LEMMA BusType ==
    ASSUME busFaults \in 0..MaxBusFaults, BusOk \/ BusFails
    PROVE  busFaults' \in 0..MaxBusFaults
  BY BoundsAssumption DEF BusOk, BusFails

-----------------------------------------------------------------------------
(* Steps of MM, of the hands that move modules, and crashes.               *)
LEMMA EnvironmentType ==
    ASSUME TypeOK, Environment
    PROVE  TypeOK'
  <1> USE DEF TypeOK
  <1>1. ASSUME NEW m \in Modules, NEW d \in IdsOf[m], NEW imei \in {m, None},
               Plug(m, d, imei)
        PROVE  TypeOK'
    <2> DEFINE o == [module |-> m, dev |-> d, imei |-> imei]
    <2>1. o \in Object
      BY IdsAssumption DEF Object
    <2> HIDE DEF o
    <2>2. nextPath' = nextPath + 1 /\ nextPath' \in Paths
      BY <1>1, BoundsAssumption DEF Plug, MMTypeOK, Paths
    <2>3. /\ object' = [object EXCEPT ![nextPath'] = o]
          /\ Deliver(Signal("InterfacesAdded", nextPath', o, slot[m]))
      BY <1>1 DEF Plug, o
    <2>4. slot[m] \in Sims \cup {None}
      BY DEF MMTypeOK
    <2>5. Signal("InterfacesAdded", nextPath', o, slot[m]) \in SignalType
      BY <2>1, <2>2, <2>4, SignalTypes
    <2>6. sigs' \in Seq(SignalType)
      BY <2>3, <2>5, DeliverType DEF ProviderTypeOK
    <2>7. MMTypeOK'
      BY <1>1, <2>1, <2>2, <2>3 DEF Plug, MMTypeOK, Paths
    <2>8. CountersTypeOK'
      BY <1>1, BoundsAssumption DEF Plug, CountersTypeOK
    <2> QED  BY <1>1, <2>6, <2>7, <2>8
             DEF Plug, ProviderTypeOK, RunnerTypeOK, DbTypeOK, BindingsOK,
                 provVars, runVars, historyVars, cacheVars, dbVars
  <1>2. ASSUME NEW p \in Paths, Unplug(p) PROVE TypeOK'
    <2>1. sigs' \in Seq(SignalType)
      BY <1>2, SignalTypes, DeliverType DEF Unplug, ProviderTypeOK
    <2> QED  BY <1>2, <2>1
             DEF Unplug, MMTypeOK, ProviderTypeOK, RunnerTypeOK, DbTypeOK, BindingsOK, CountersTypeOK,
                 provVars, runVars, historyVars, cacheVars, dbVars, boundVars
  <1>3. ASSUME NEW m \in Modules, NEW s \in Sims \cup {None}, SwapSim(m, s)
        PROVE  TypeOK'
    <2>1. sigs' \in Seq(SignalType)
      <3>1. ASSUME NEW p \in Paths, object[p] # None,
                   Notify(p, Signal("Modem", p, object[p], s))
            PROVE  sigs' \in Seq(SignalType)
        <4>1. object[p] \in Object
          BY <3>1 DEF MMTypeOK
        <4> QED  BY <3>1, <4>1, SignalTypes, DeliverType DEF Notify, ProviderTypeOK
      <3> QED  BY <1>3, <3>1 DEF SwapSim, ProviderTypeOK
    <2>2. CountersTypeOK'
      BY <1>3, BoundsAssumption DEF SwapSim, CountersTypeOK
    <2> QED  BY <1>3, <2>1, <2>2
             DEF SwapSim, MMTypeOK, ProviderTypeOK, RunnerTypeOK, DbTypeOK, BindingsOK,
                 provVars, runVars, historyVars, cacheVars, dbVars
  <1>4. ASSUME MMRestart PROVE TypeOK'
    <2>1. MMTypeOK' /\ CountersTypeOK'
      BY <1>4, BoundsAssumption DEF MMRestart, MMTypeOK, CountersTypeOK
    <2> QED  BY <1>4, <2>1
             DEF MMRestart, ProviderTypeOK, RunnerTypeOK, DbTypeOK, BindingsOK,
                 provVars, runVars, historyVars, cacheVars, dbVars
  <1>5. ASSUME NEW p \in Paths, Report(p) PROVE TypeOK'
    <2>1. object[p] \in Object
      BY <1>5 DEF Report, MMTypeOK
    <2>2. sigs' \in Seq(SignalType)
      BY <1>5, <2>1, SignalTypes, DeliverType DEF Report, ProviderTypeOK
    <2>3. CountersTypeOK'
      BY <1>5, BoundsAssumption DEF Report, CountersTypeOK
    <2> QED  BY <1>5, <2>2, <2>3
             DEF Report, MMTypeOK, ProviderTypeOK, RunnerTypeOK, DbTypeOK, BindingsOK, mmVars,
                 provVars, runVars, historyVars, cacheVars, dbVars
  <1>6. ASSUME Crash PROVE TypeOK'
    <2>1. CountersTypeOK' /\ MMTypeOK' /\ DbTypeOK'
      BY <1>6, BoundsAssumption
      DEF Crash, CountersTypeOK, MMTypeOK, DbTypeOK, BindingsOK, mmVars, dbVars
    <2>2. ProviderTypeOK'
      BY <1>6, BoundsAssumption DEF Crash, ProviderTypeOK
    <2>3. scars' \subseteq Nat /\ lastModem' \in Nat /\ lastSim' \in Nat
      BY <1>6 DEF Crash, RunnerTypeOK, DbTypeOK, BindingsOK, Table, dbVars
    <2>4. RunnerTypeOK'
      BY <1>6, <2>3 DEF Crash, RunnerTypeOK, TaskType, Idle
    <2> QED  BY <2>1, <2>2, <2>4
  <1> QED  BY <1>1, <1>2, <1>3, <1>4, <1>5, <1>6 DEF Environment
-----------------------------------------------------------------------------
(* Steps of the provider.                                                  *)

(* The head of the queue is a signal, and its type tells what it carries.  *)
LEMMA HeadType ==
    ASSUME sigs \in Seq(SignalType), sigs # <<>>
    PROVE  /\ Tail(sigs) \in Seq(SignalType)
           /\ Head(sigs) \in SignalType /\ Head(sigs).path \in Paths
           /\ Head(sigs).sim \in Sims \cup {None}
           /\ Head(sigs).type = "InterfacesAdded" => Head(sigs) \in Announcement
           /\ Head(sigs).type \in OfModem => Head(sigs).object \in Object
  <1>1. Tail(sigs) \in Seq(SignalType) /\ Head(sigs) \in SignalType
    OBVIOUS
  <1> DEFINE h == Head(sigs)
  <1> HIDE DEF h
  <1>2. ASSUME h \in SignalType
        PROVE  /\ h.path \in Paths /\ h.sim \in Sims \cup {None}
               /\ h.type = "InterfacesAdded" => h \in Announcement
               /\ h.type \in OfModem => h.object \in Object
    BY <1>2 DEF SignalType, Announcement, OfModem
  <1> QED  BY <1>1, <1>2 DEF h

(* The first half of onModemAdded.                                         *)
LEMMA ReadModemType ==
    ASSUME TypeOK, NEW sig \in Announcement, ReadModem(sig)
    PROVE  /\ adding' \in Reading
           /\ busFaults' \in 0..MaxBusFaults
  <1> DEFINE added(s) == [path |-> sig.path, object |-> sig.object,
                          entry |-> [path |-> sig.path, imei |-> sig.object.imei,
                                     sim |-> s]]
  <1>1. \A s \in Sims \cup {None} :
            added(s) \in Reading
    BY DEF Announcement, Object, Entry, Reading
  <1>2. sig.sim \in Sims \cup {None}
    BY DEF Announcement
  <1>3. \E s \in {sig.sim, None} : adding' = added(s)
    BY DEF ReadModem
  <1>4. BusOk \/ BusFails
    BY DEF ReadModem
  <1> HIDE DEF added
  <1> QED  BY <1>1, <1>2, <1>3, <1>4, BusType DEF TypeOK, CountersTypeOK

LEMMA ProviderType ==
    ASSUME TypeOK, Provider
    PROVE  TypeOK'
  <1> USE DEF TypeOK
  <1>1. ASSUME Start \/ Listen PROVE TypeOK'
    BY <1>1 DEF Start, Listen, MMTypeOK, ProviderTypeOK, RunnerTypeOK, DbTypeOK, BindingsOK,
                CountersTypeOK, mmVars, runVars, historyVars, cacheVars, dbVars, boundVars
  <1>2. ASSUME GetManagedObjects PROVE TypeOK'
    <2>1. toAdd' \subseteq Announcement
      <3>1. \A p \in {q \in Paths : object[q] # None} :
                Signal("InterfacesAdded", p, object[p], slot[object[p].module])
                    \in Announcement
        BY DEF MMTypeOK, Signal, Announcement, Object
      <3> QED  BY <1>2, <3>1 DEF GetManagedObjects, ProviderTypeOK
    <2>2. busFaults' \in 0..MaxBusFaults
      BY <1>2, BusType DEF GetManagedObjects, CountersTypeOK
    <2> QED  BY <1>2, <2>1, <2>2
             DEF GetManagedObjects, MMTypeOK, ProviderTypeOK, RunnerTypeOK, DbTypeOK, BindingsOK,
                 CountersTypeOK, mmVars, runVars, historyVars, cacheVars, dbVars
  <1>3. ASSUME ReadListed PROVE TypeOK'
    <2>1. PICK sig \in toAdd : toAdd' = toAdd \ {sig} /\ ReadModem(sig)
      BY <1>3 DEF ReadListed
    <2>2. sig \in Announcement
      BY DEF ProviderTypeOK
    <2>3. /\ adding' \in Reading
          /\ busFaults' \in 0..MaxBusFaults
      BY <2>1, <2>2, ReadModemType
    <2> QED  BY <1>3, <2>1, <2>3
             DEF ReadListed, MMTypeOK, ProviderTypeOK, RunnerTypeOK, DbTypeOK, BindingsOK,
                 CountersTypeOK, mmVars, runVars, historyVars, cacheVars, dbVars
  <1>4. ASSUME ReadAnnounced PROVE TypeOK'
    <2>1. Head(sigs) \in Announcement /\ Tail(sigs) \in Seq(SignalType)
      BY <1>4, HeadType DEF ReadAnnounced, ProviderTypeOK
    <2>2. /\ adding' \in Reading
          /\ busFaults' \in 0..MaxBusFaults
      BY <1>4, <2>1, ReadModemType DEF ReadAnnounced
    <2> QED  BY <1>4, <2>1, <2>2
             DEF ReadAnnounced, MMTypeOK, ProviderTypeOK, RunnerTypeOK, DbTypeOK, BindingsOK,
                 CountersTypeOK, mmVars, runVars, historyVars, cacheVars, dbVars
  <1>5. ASSUME EnterModem PROVE TypeOK'
    <2> DEFINE d == adding.object.dev
               e == adding.entry
               m == adding.object.module
    <2>1. d \in Ids /\ e \in Entry /\ m \in Modules
      BY <1>5 DEF EnterModem, ProviderTypeOK, Object, Reading
    <2>2. /\ entries' = [entries EXCEPT ![d] = e] /\ byPath' = Routed(d, e.path)
          /\ Emit(<<Event("ModemAdded", d, e, m)>>)
          /\ \/ matched' = matched \cup {e.path} /\ BusOk
             \/ UNCHANGED matched /\ BusFails
      BY <1>5 DEF EnterModem
    <2> HIDE DEF d, e, m
    <2>3. e.path \in Paths /\ e.imei \in Modules \cup {None} /\ e.sim \in Sims \cup {None}
      BY <2>1 DEF Entry
    <2> DEFINE x == Event("ModemAdded", d, e, m)
    <2>4. x \in EventType /\ Emit(<<x>>)
      BY <2>1, <2>2, <2>3, EventTypes
    <2> HIDE DEF x
    <2>5. /\ events' \in Seq(EventType) /\ Len(events') <= EventCap
          /\ unsure' \subseteq Ids /\ scars' \subseteq Nat
      BY <2>4, EmitTypes DEF ProviderTypeOK, RunnerTypeOK
    <2>6. byPath' \in [Paths -> Ids \cup {None}]
      BY <2>1, <2>2 DEF Routed, ProviderTypeOK
    <2>7. entries' \in [Ids -> Entry \cup {None}] /\ matched' \subseteq Paths
      BY <2>1, <2>2, <2>3 DEF ProviderTypeOK
    <2>8. busFaults' \in 0..MaxBusFaults
      BY <2>2, BusType DEF CountersTypeOK
    <2> QED  BY <1>5, <2>5, <2>6, <2>7, <2>8
             DEF EnterModem, MMTypeOK, ProviderTypeOK, RunnerTypeOK, DbTypeOK, BindingsOK,
                 CountersTypeOK, mmVars, runVars, cacheVars, dbVars
  <1>6. ASSUME OnModemRemoved PROVE TypeOK'
    <2> DEFINE p == Head(sigs).path
               d == byPath[p]
    <2>1. p \in Paths /\ sigs' \in Seq(SignalType)
      BY <1>6, HeadType DEF OnModemRemoved, Next1, ProviderTypeOK
    <2>2. d \in Ids \cup {None}
      BY <2>1 DEF ProviderTypeOK
    <2>3. IF d = None THEN UNCHANGED <<entries, byPath, events, historyVars>>
          ELSE /\ entries' = [entries EXCEPT ![d] = None]
               /\ byPath' = [byPath EXCEPT ![p] = None]
               /\ Emit(<<Event("ModemRemoved", d, NoEntry, None)>>)
      BY <1>6 DEF OnModemRemoved
    <2> HIDE DEF d, p
    <2> DEFINE x == Event("ModemRemoved", d, NoEntry, None)
    <2>4. d # None => x \in EventType /\ Emit(<<x>>)
      BY <2>2, <2>3 DEF Event, EventType, NoEntry
    <2> HIDE DEF x
    <2>5. /\ events' \in Seq(EventType) /\ Len(events') <= EventCap
          /\ unsure' \subseteq Ids /\ scars' \subseteq Nat
      BY <2>3, <2>4, EmitTypes DEF ProviderTypeOK, RunnerTypeOK, historyVars
    <2>6. byPath' \in [Paths -> Ids \cup {None}] /\ entries' \in [Ids -> Entry \cup {None}]
      BY <2>1, <2>2, <2>3 DEF ProviderTypeOK
    <2> QED  BY <1>6, <2>1, <2>5, <2>6
             DEF OnModemRemoved, MMTypeOK, ProviderTypeOK, RunnerTypeOK, DbTypeOK, BindingsOK,
                 CountersTypeOK, mmVars, runVars, cacheVars, dbVars, boundVars
  <1>7. ASSUME OnModemChanged PROVE TypeOK'
    <2> DEFINE p == Head(sigs).path
               s == Head(sigs).sim
               d == byPath[p]
               e == entries[d]
               Update(t) == Event("ModemUpdated", d, [e EXCEPT !.sim = t], None)
    <2>1. p \in Paths /\ s \in Sims \cup {None} /\ sigs' \in Seq(SignalType)
      BY <1>7, HeadType DEF OnModemChanged, Next1, ProviderTypeOK
    <2>2. CASE d = None \/ e = None
      <3>1. UNCHANGED <<entries, events, historyVars, busFaults>>
        BY <1>7, <2>2 DEF OnModemChanged
      <3> QED  BY <1>7, <2>1, <3>1
               DEF OnModemChanged, MMTypeOK, ProviderTypeOK, RunnerTypeOK, DbTypeOK, BindingsOK,
                   CountersTypeOK, mmVars, runVars, cacheVars, dbVars, historyVars
    <2>3. CASE d # None /\ e # None
      <3>1. d \in Ids /\ e \in Entry
        BY <2>1, <2>3 DEF ProviderTypeOK
      <3> DEFINE Held(t) == entries' = [entries EXCEPT ![d] = [e EXCEPT !.sim = t]]
                 x == Event("SimUpdated", d, [e EXCEPT !.sim = s], None)
      <3>2. \/ Held(None) /\ Emit(<<Update(None)>>) /\ BusOk
            \/ s # None /\ Held(s) /\ Emit(<<x, Update(s)>>) /\ BusOk
            \/ UNCHANGED entries /\ Emit(<<Update(e.sim)>>) /\ (BusOk \/ BusFails)
        BY <1>7, <2>3 DEF OnModemChanged
      <3> HIDE DEF d, e, p, s
      <3>3. /\ e.sim \in Sims \cup {None}
            /\ \A t \in Sims \cup {None} : [e EXCEPT !.sim = t] \in Entry
        BY <3>1 DEF Entry
      <3>4. \A t \in Sims \cup {None} :
                Held(t) => entries' \in [Ids -> Entry \cup {None}]
        BY <3>1, <3>3 DEF ProviderTypeOK
      <3>5. entries' \in [Ids -> Entry \cup {None}]
        BY <2>1, <3>2, <3>4 DEF ProviderTypeOK
      <3>6. \A t \in Sims \cup {None} : Update(t) \in EventType
        BY <3>1 DEF Event, EventType, Entry
      <3>7. s # None => x \in EventType
        BY <2>1, <3>1 DEF Event, EventType, Entry
      <3> HIDE DEF Update, Held, x
      <3>8. \/ \E t \in Sims \cup {None} : Emit(<<Update(t)>>)
            \/ s # None /\ Emit(<<x, Update(s)>>)
        BY <3>2, <3>3
      <3>9. /\ events' \in Seq(EventType) /\ Len(events') <= EventCap
            /\ unsure' \subseteq Ids /\ scars' \subseteq Nat
        <4>1. CASE \E t \in Sims \cup {None} : Emit(<<Update(t)>>)
          <5> PICK t \in Sims \cup {None} : Emit(<<Update(t)>>)
            BY <4>1
          <5> DEFINE y == Update(t)
          <5>1. y \in EventType /\ Emit(<<y>>)
            BY <3>6
          <5> HIDE DEF y
          <5> QED  BY <5>1, EmitTypes DEF ProviderTypeOK, RunnerTypeOK
        <4>2. CASE s # None /\ Emit(<<x, Update(s)>>)
          <5> DEFINE y == Update(s)
          <5>1. x \in EventType /\ y \in EventType /\ Emit(<<x, y>>)
            BY <2>1, <3>6, <3>7, <4>2
          <5> HIDE DEF y
          <5> QED  BY <5>1, EmitTypes DEF ProviderTypeOK, RunnerTypeOK
        <4> QED  BY <3>8, <4>1, <4>2
      <3>10. busFaults' \in 0..MaxBusFaults
        BY <3>2, BusType DEF CountersTypeOK
      <3> QED  BY <1>7, <2>1, <3>5, <3>9, <3>10
               DEF OnModemChanged, MMTypeOK, ProviderTypeOK, RunnerTypeOK, DbTypeOK, BindingsOK,
                   CountersTypeOK, mmVars, runVars, cacheVars, dbVars
    <2> QED  BY <2>2, <2>3
  <1>8. ASSUME OnSignal PROVE TypeOK'
    <2> DEFINE o == Head(sigs).object
               d == byPath[Head(sigs).path]
               e == entries[d]
    <2>1. Head(sigs).path \in Paths /\ o \in Object /\ sigs' \in Seq(SignalType)
      BY <1>8, HeadType DEF OfModem, OnSignal, Next1, ProviderTypeOK
    <2>2. \/ UNCHANGED <<events, historyVars>>
          \/ /\ d # None /\ e # None
             /\ Emit(<<Event("SignalSampled", d, e, o.module)>>)
      BY <1>8 DEF OnSignal
    <2>3. d # None /\ e # None => d \in Ids /\ e \in Entry
      BY <2>1 DEF ProviderTypeOK
    <2> HIDE DEF o, d, e
    <2> DEFINE x == Event("SignalSampled", d, e, o.module)
    <2>4. d # None /\ e # None => x \in EventType
      BY <2>1, <2>3 DEF Event, EventType, Entry, Object
    <2> HIDE DEF x
    <2>5. /\ events' \in Seq(EventType) /\ Len(events') <= EventCap
          /\ unsure' \subseteq Ids /\ scars' \subseteq Nat
      BY <2>2, <2>4, EmitTypes DEF ProviderTypeOK, RunnerTypeOK, historyVars, x
    <2> QED  BY <1>8, <2>1, <2>5
             DEF OnSignal, MMTypeOK, ProviderTypeOK, RunnerTypeOK, DbTypeOK, BindingsOK,
                 CountersTypeOK, mmVars, provVars, runVars, cacheVars, dbVars, boundVars
  <1> QED  BY <1>1, <1>2, <1>3, <1>4, <1>5, <1>6, <1>7, <1>8 DEF Provider
-----------------------------------------------------------------------------
(* Steps of the runner.                                                    *)

(* The event taken, and what is left of the channel.                       *)
LEMMA TakeType ==
    ASSUME TypeOK, NEW kinds, Take(kinds)
    PROVE  /\ events' \in Seq(EventType) /\ Len(events') <= EventCap
           /\ Head(events) \in EventType
           /\ Head(events).dev \in Ids /\ Head(events).imei \in Modules \cup {None}
           /\ Head(events).sim \in Sims \cup {None}
           /\ Head(events).kind = "SimUpdated" => Head(events).sim \in Sims
  <1>1. /\ events \in Seq(EventType) /\ Len(events) <= EventCap
        /\ events # <<>> /\ events' = Tail(events)
    BY DEF Take, TypeOK, ProviderTypeOK
  <1>2. /\ Tail(events) \in Seq(EventType) /\ Len(Tail(events)) = Len(events) - 1
        /\ Head(events) \in EventType /\ Len(events) \in Nat
    BY <1>1
  <1>3. Len(events') <= EventCap
    BY <1>1, <1>2, BoundsAssumption
  <1> DEFINE h == Head(events)
  <1> HIDE DEF h
  <1>4. ASSUME h \in EventType
        PROVE  /\ h.dev \in Ids /\ h.imei \in Modules \cup {None}
               /\ h.sim \in Sims \cup {None}
               /\ h.kind = "SimUpdated" => h.sim \in Sims
    BY <1>4 DEF EventType
  <1> QED  BY <1>1, <1>2, <1>3, <1>4 DEF h

(* The first statement of UpsertSim.                                       *)
LEMMA UpsertSimType ==
    ASSUME TypeOK, NEW d \in Ids, NEW i \in Nat, NEW s \in Sims, UpsertSim(d, i, s)
    PROVE  /\ task' \in TaskType
           /\ lastSim' \in Nat /\ lastSim <= lastSim'
           /\ Table(sims', Sims) /\ DOMAIN sims' \subseteq 1..lastSim'
           /\ DOMAIN sims \subseteq DOMAIN sims'
  <1>1. /\ lastSim \in Nat /\ Table(sims, Sims) /\ DOMAIN sims \subseteq 1..lastSim
        /\ task \in TaskType
    BY DEF TypeOK, DbTypeOK, BindingsOK, RunnerTypeOK
  <1>2. CASE s \in Locked
    BY <1>1, <1>2 DEF UpsertSim
  <1>3. CASE s \notin Locked
    <2>1. [at |-> "bind", dev |-> d, row |-> i, sim |-> s] \in TaskType
      BY DEF TaskType
    <2>2. /\ sims' = SimUpserted(sims, lastSim, s)
          /\ lastSim' = IF WithIccid(sims, s) = {} THEN lastSim + 1 ELSE lastSim
          /\ task' = [at |-> "bind", dev |-> d, row |-> i, sim |-> s]
      BY <1>3 DEF UpsertSim
    <2>3. lastSim' \in Nat /\ lastSim <= lastSim'
      BY <1>1, <2>2
    <2> QED  BY <1>1, <2>1, <2>2, <2>3, SimUpsertedTable
  <1> QED  BY <1>2, <1>3

(* The ids of the caches and of the rows, as the runner looks them up.     *)
LEMMA IdTypes ==
    ASSUME TypeOK, NEW d \in Ids
    PROVE  /\ ModemID(d) \in 0..lastModem
           /\ \A i : SimID(d, i) \in 0..lastSim
  <1>1. /\ lastModem \in Nat /\ lastSim \in Nat
        /\ modemIDs[d] \in 0..lastModem /\ simIDs[d] \in 0..lastSim
        /\ DOMAIN modems \subseteq 1..lastModem /\ Table(bound, 1..lastSim)
    BY DEF TypeOK, DbTypeOK, BindingsOK, RunnerTypeOK
  <1>2. ModemIDByDevice(modems, d) \in 0..lastModem
    BY <1>1, LookedUp
  <1>3. \A i : SimIDByModem(bound, i) \in 0..lastSim
    BY <1>1, LookedUp
  <1> QED  BY <1>1, <1>2, <1>3 DEF ModemID, SimID

(* Bindings may go at any time, and the tables they refer to may grow.     *)
LEMMA BindingsKept ==
    ASSUME BindingsOK, lastSim \in Nat, lastSim' \in Nat, lastSim <= lastSim',
           DOMAIN modems \subseteq DOMAIN modems', DOMAIN sims \subseteq DOMAIN sims',
           NEW S, bound' = Without(bound, S) \/ UNCHANGED bound
    PROVE  BindingsOK'
  <1>1. 1..lastSim \subseteq 1..lastSim'
    OBVIOUS
  <1>2. CASE bound' = Without(bound, S)
    <2>1. /\ DOMAIN bound' = DOMAIN bound \ S
          /\ \A i \in DOMAIN bound \ S : bound'[i] = bound[i]
          /\ Table(bound', 1..lastSim)
      BY <1>2 DEF BindingsOK, Table, Without
    <2>2. Table(bound', 1..lastSim')
      BY <1>1, <2>1 DEF Table
    <2> QED  BY <2>1, <2>2 DEF BindingsOK
  <1>3. CASE UNCHANGED bound
    <2>1. Table(bound', 1..lastSim')
      BY <1>1, <1>3 DEF Table, BindingsOK
    <2> QED  BY <1>3, <2>1 DEF BindingsOK
  <1> QED  BY <1>2, <1>3
LEMMA RunnerType ==
    ASSUME TypeOK, Runner
    PROVE  TypeOK'
  <1> USE DEF TypeOK
  <1>0. /\ lastModem \in Nat /\ lastSim \in Nat /\ BindingsOK
        /\ Idle \in TaskType /\ task \in TaskType
    BY DEF DbTypeOK, RunnerTypeOK, TaskType
  <1>1. ASSUME HandleModem PROVE TypeOK'
    <2> DEFINE d == Head(events).dev
               m == Head(events).imei
               s == Head(events).sim
               i == UpsertedId(modems, lastModem, d, m)
    <2>1. /\ events' \in Seq(EventType) /\ Len(events') <= EventCap
          /\ d \in Ids /\ m \in Modules \cup {None} /\ s \in Sims \cup {None}
      BY <1>1, TakeType DEF HandleModem
    <2>2. CASE UpsertFails(modems, d, m)
      <3>1. /\ UNCHANGED <<task, cacheVars, modems, lastModem, sims, lastSim, bound>>
            /\ Refuse(d)
        BY <1>1, <2>2 DEF HandleModem
      <3>2. unsure' \subseteq Ids /\ scars' \subseteq Nat
        BY <3>1, SiblingsAreIds DEF Refuse, RunnerTypeOK
      <3> QED  BY <1>1, <2>1, <3>1, <3>2
               DEF HandleModem, MMTypeOK, ProviderTypeOK, RunnerTypeOK, DbTypeOK, BindingsOK,
                   CountersTypeOK, mmVars, provVars, cacheVars, boundVars
    <2>3. CASE ~UpsertFails(modems, d, m)
      <3>1. /\ modems' = Upserted(modems, lastModem, d, m)
            /\ lastModem' = IF i > lastModem THEN i ELSE lastModem
            /\ modemIDs' = [modemIDs EXCEPT ![d] = i]
            /\ UNCHANGED historyVars
            /\ \/ /\ TakeSimOut(d, i) /\ UNCHANGED <<task, sims, lastSim>>
               \/ /\ s # None /\ UpsertSim(d, i, s) /\ UNCHANGED <<bound, simIDs>>
        BY <1>1, <2>3 DEF HandleModem
      <3>2. /\ Table(modems, ModemRow) /\ DOMAIN modems \subseteq 1..lastModem
            /\ Table(sims, Sims) /\ DOMAIN sims \subseteq 1..lastSim
        BY DEF DbTypeOK
      <3>0. i = UpsertedId(modems, lastModem, d, m)
        OBVIOUS
      <3> HIDE DEF i, d, m, s
      <3>3. /\ i \in DOMAIN modems \/ i = lastModem + 1
            /\ Table(modems', ModemRow) /\ DOMAIN modems' = DOMAIN modems \cup {i}
        <4>1. /\ [dev |-> d, imei |-> m, present |-> TRUE] \in ModemRow
              /\ lastModem \in Nat
              /\ Table(modems, ModemRow) /\ DOMAIN modems \subseteq 1..lastModem
          BY <1>0, <2>1, <3>2 DEF ModemRow
        <4>2. /\ i \in DOMAIN modems \cup {lastModem + 1}
              /\ Table(Upserted(modems, lastModem, d, m), ModemRow)
              /\ DOMAIN Upserted(modems, lastModem, d, m) = DOMAIN modems \cup {i}
          BY <3>0, <4>1, UpsertedTable
        <4> QED  BY <3>1, <4>2
      <3>4. /\ i \in Nat /\ lastModem' \in Nat /\ lastModem <= lastModem'
            /\ i \in 0..lastModem' /\ DOMAIN modems' \subseteq 1..lastModem'
        BY <1>0, <3>1, <3>2, <3>3
      <3>5. modemIDs' \in [Ids -> 0..lastModem']
        BY <1>0, <2>1, <3>1, <3>4 DEF RunnerTypeOK
      <3>6. /\ task' \in TaskType /\ lastSim' \in Nat /\ lastSim <= lastSim'
            /\ Table(sims', Sims) /\ DOMAIN sims' \subseteq 1..lastSim'
            /\ DOMAIN sims \subseteq DOMAIN sims'
        <4>1. CASE UNCHANGED <<task, sims, lastSim>>
          BY <1>0, <3>2, <4>1
        <4>2. CASE s # None /\ UpsertSim(d, i, s)
          BY <2>1, <3>4, <4>2, UpsertSimType
        <4> QED  BY <3>1, <4>1, <4>2
      <3>7. bound' = Without(bound, {i}) \/ UNCHANGED bound
        BY <3>1 DEF TakeSimOut, Unbind
      <3>8. BindingsOK'
        BY <1>0, <3>3, <3>6, <3>7, BindingsKept
      <3>9. simIDs' \in [Ids -> 0..lastSim']
        BY <1>0, <2>1, <3>1, <3>6 DEF TakeSimOut, RunnerTypeOK
      <3> QED  BY <1>1, <2>1, <3>1, <3>3, <3>4, <3>5, <3>6, <3>8, <3>9
               DEF HandleModem, MMTypeOK, ProviderTypeOK, RunnerTypeOK, DbTypeOK,
                   CountersTypeOK, mmVars, provVars, boundVars, historyVars
    <2> QED  BY <2>2, <2>3
  <1>2. ASSUME HandleSim PROVE TypeOK'
    <2> DEFINE d == Head(events).dev
               s == Head(events).sim
    <2>1. /\ events' \in Seq(EventType) /\ Len(events') <= EventCap /\ d \in Ids
          /\ Head(events).kind = "SimUpdated" => s \in Sims
      BY <1>2, TakeType DEF HandleSim
    <2>2. s \in Sims
      BY <1>2, <2>1 DEF HandleSim, Take
    <2>3. modemIDs' = [modemIDs EXCEPT ![d] = ModemID(d)] /\ UpsertSim(d, ModemID(d), s)
      BY <1>2 DEF HandleSim
    <2> HIDE DEF d, s
    <2>4. ModemID(d) \in 0..lastModem /\ ModemID(d) \in Nat
      BY <1>0, <2>1, IdTypes
    <2>5. /\ task' \in TaskType /\ lastSim' \in Nat /\ lastSim <= lastSim'
          /\ Table(sims', Sims) /\ DOMAIN sims' \subseteq 1..lastSim'
          /\ DOMAIN sims \subseteq DOMAIN sims'
      BY <2>1, <2>2, <2>3, <2>4, UpsertSimType
    <2>6. UNCHANGED <<modems, lastModem, bound, simIDs>>
      BY <1>2 DEF HandleSim
    <2>7. BindingsOK'
      BY <1>0, <2>5, <2>6, BindingsKept
    <2>8. simIDs' \in [Ids -> 0..lastSim'] /\ modemIDs' \in [Ids -> 0..lastModem']
      BY <1>0, <2>1, <2>3, <2>4, <2>5, <2>6 DEF RunnerTypeOK
    <2> QED  BY <1>2, <2>1, <2>5, <2>6, <2>7, <2>8
             DEF HandleSim, MMTypeOK, ProviderTypeOK, RunnerTypeOK, DbTypeOK,
                 CountersTypeOK, mmVars, provVars, boundVars, historyVars
  <1>3. ASSUME Bind PROVE TypeOK'
    <2> DEFINE d == task.dev
               i == task.row
               j == SimIDByIccid(sims, task.sim)
    <2>1. d \in Ids /\ i \in Nat
      BY <1>0, <1>3 DEF Bind, TaskType, Idle
    <2>2. j \in 0..lastSim
      BY <1>0, LookedUp DEF DbTypeOK
    <2>3. /\ task' = Idle
          /\ \/ /\ j # 0
                /\ i = 0 \/ CanBind(modems, sims, i, j)
                /\ bound' = IF i = 0 THEN bound ELSE WithRow(bound, i, j)
                /\ simIDs' = [simIDs EXCEPT ![d] = j]
                /\ UNCHANGED historyVars
             \/ Refuse(d) /\ UNCHANGED <<bound, simIDs>>
      BY <1>3 DEF Bind
    <2> HIDE DEF d, i, j
    <2>4. BindingsOK /\ UNCHANGED <<modems, lastModem, sims, lastSim>>
      BY <1>0, <1>3 DEF Bind
    <2>5. BindingsOK'
      <3>1. CASE UNCHANGED bound
        BY <2>4, <3>1 DEF BindingsOK
      <3>2. CASE i # 0 /\ CanBind(modems, sims, i, j) /\ bound' = WithRow(bound, i, j)
                 /\ j # 0
        <4>1. i \in DOMAIN modems /\ i \in Nat \ {0} /\ j \in 1..lastSim /\ j \in DOMAIN sims
          BY <1>0, <2>1, <2>2, <3>2 DEF CanBind
        <4> DEFINE R == 1..lastSim
        <4>2. Table(bound, R) /\ j \in R
          BY <2>4, <4>1 DEF BindingsOK
        <4> HIDE DEF R
        <4>3. /\ Table(bound', R) /\ DOMAIN bound' = DOMAIN bound \cup {i}
              /\ \A k \in DOMAIN bound \cup {i} : bound'[k] = IF k = i THEN j ELSE bound[k]
          BY <3>2, <4>1, <4>2 DEF Table, WithRow
        <4>4. Table(bound', 1..lastSim)
          BY <4>3 DEF R
        <4>5. /\ DOMAIN bound' \subseteq DOMAIN modems
              /\ \A k \in DOMAIN bound' : bound'[k] \in DOMAIN sims
          BY <2>4, <4>1, <4>3 DEF BindingsOK
        <4> QED  BY <2>4, <4>4, <4>5 DEF BindingsOK, Table
      <3> QED  BY <2>3, <3>1, <3>2
    <2>6. simIDs' \in [Ids -> 0..lastSim]
      BY <2>1, <2>2, <2>3 DEF RunnerTypeOK
    <2>7. unsure' \subseteq Ids /\ scars' \subseteq Nat
      BY <2>3, SiblingsAreIds DEF Refuse, historyVars, RunnerTypeOK
    <2> QED  BY <1>0, <1>3, <2>3, <2>4, <2>5, <2>6, <2>7
             DEF Bind, MMTypeOK, ProviderTypeOK, RunnerTypeOK, DbTypeOK,
                 CountersTypeOK, mmVars, provVars, boundVars
  <1>4. ASSUME HandleRemoved PROVE TypeOK'
    <2> DEFINE d == Head(events).dev
    <2>1. /\ events' \in Seq(EventType) /\ Len(events') <= EventCap /\ d \in Ids
      BY <1>4, TakeType DEF HandleRemoved
    <2>2. /\ modems' = MarkedAbsent(modems, {d}) /\ task' = [at |-> "forget", dev |-> d]
      BY <1>4 DEF HandleRemoved
    <2> HIDE DEF d
    <2>3. task' \in TaskType
      BY <2>1, <2>2 DEF TaskType
    <2>4. Table(modems', ModemRow) /\ DOMAIN modems' = DOMAIN modems
      BY <2>2, MarkedAbsentTable DEF DbTypeOK
    <2> QED  BY <1>4, <2>1, <2>3, <2>4
             DEF HandleRemoved, MMTypeOK, ProviderTypeOK, RunnerTypeOK, DbTypeOK,
                 BindingsOK, CountersTypeOK, mmVars, provVars, cacheVars, boundVars,
                 historyVars
  <1>5. ASSUME ForgetModem PROVE TypeOK'
    <2>1. UNCHANGED <<modems, lastModem, sims, lastSim>>
      BY <1>5 DEF ForgetModem
    <2>2. BindingsOK'
      BY <1>0, <1>5, <2>1, BindingsKept DEF ForgetModem, Unbind
    <2>3. task.dev \in Ids
      BY <1>0, <1>5 DEF ForgetModem, TaskType, Idle
    <2>4. modemIDs' \in [Ids -> 0..lastModem] /\ simIDs' \in [Ids -> 0..lastSim]
      BY <1>0, <1>5, <2>3 DEF ForgetModem, RunnerTypeOK
    <2> QED  BY <1>0, <1>5, <2>1, <2>2, <2>4
             DEF ForgetModem, MMTypeOK, ProviderTypeOK, RunnerTypeOK, DbTypeOK,
                 CountersTypeOK, mmVars, provVars, boundVars, historyVars
  <1>6. ASSUME HandleSample PROVE TypeOK'
    <2> DEFINE d == Head(events).dev
               x == SampleRow(Head(events))
    <2>1. events' \in Seq(EventType) /\ Len(events') <= EventCap /\ d \in Ids
      BY <1>6, TakeType DEF HandleSample
    <2>2. /\ modemIDs' = [modemIDs EXCEPT ![d] = x.modem]
          /\ simIDs' = [simIDs EXCEPT ![d] = x.sim]
          /\ UNCHANGED historyVars \/ Refuse(d)
      BY <1>6 DEF HandleSample
    <2>3. x.modem \in 0..lastModem /\ x.sim \in 0..lastSim
      BY <2>1, IdTypes DEF SampleRow
    <2> HIDE DEF d, x
    <2>4. modemIDs' \in [Ids -> 0..lastModem] /\ simIDs' \in [Ids -> 0..lastSim]
      BY <2>1, <2>2, <2>3 DEF RunnerTypeOK
    <2>5. unsure' \subseteq Ids /\ scars' \subseteq Nat
      BY <2>2, SiblingsAreIds DEF Refuse, historyVars, RunnerTypeOK
    <2> QED  BY <1>6, <2>1, <2>4, <2>5
             DEF HandleSample, MMTypeOK, ProviderTypeOK, RunnerTypeOK, DbTypeOK,
                 BindingsOK, CountersTypeOK, mmVars, provVars, boundVars
  <1>7. ASSUME SweepLooks PROVE TypeOK'
    <2>1. task' \in TaskType /\ sweep' \in {"due", "skipped", "done"}
      BY <1>0, <1>7 DEF SweepLooks, TaskType, Listed
    <2> QED  BY <1>7, <2>1
             DEF SweepLooks, MMTypeOK, ProviderTypeOK, RunnerTypeOK, DbTypeOK,
                 BindingsOK, CountersTypeOK, mmVars, provVars, cacheVars, dbVars,
                 boundVars, historyVars
  <1>8. ASSUME MarkStaleModemsAbsent PROVE TypeOK'
    <2>1. Table(modems', ModemRow) /\ DOMAIN modems' = DOMAIN modems
      BY <1>8, MarkedAbsentTable DEF MarkStaleModemsAbsent, DbTypeOK
    <2>2. UNCHANGED <<lastModem, sims, lastSim>>
      BY <1>8 DEF MarkStaleModemsAbsent
    <2>3. \E S : bound' = Without(bound, S)
      BY <1>8 DEF MarkStaleModemsAbsent
    <2>4. BindingsOK'
      BY <1>0, <2>1, <2>2, <2>3, BindingsKept
    <2> QED  BY <1>0, <1>8, <2>1, <2>2, <2>4
             DEF MarkStaleModemsAbsent, MMTypeOK, ProviderTypeOK, RunnerTypeOK, DbTypeOK,
                 CountersTypeOK, mmVars, provVars, cacheVars, boundVars, historyVars
  <1> QED  BY <1>1, <1>2, <1>3, <1>4, <1>5, <1>6, <1>7, <1>8 DEF Runner

-----------------------------------------------------------------------------
(* Steps of HTTP requests.                                                 *)
LEMMA HttpType ==
    ASSUME TypeOK, Http
    PROVE  TypeOK'
  <1> USE DEF TypeOK
  <1>1. ASSUME NEW i \in DOMAIN modems, DeleteOfflineModem(i) PROVE TypeOK'
    <2>1. /\ modems' = Without(modems, {i}) /\ bound' = Without(bound, {i})
          /\ UNCHANGED <<lastModem, sims, lastSim>>
      BY <1>1 DEF DeleteOfflineModem, Unbind
    <2>2. DbTypeOK'
      BY <2>1 DEF DbTypeOK, BindingsOK, Without, Table
    <2>3. CountersTypeOK'
      BY <1>1, BoundsAssumption DEF DeleteOfflineModem, CountersTypeOK
    <2> QED  BY <1>1, <2>1, <2>2, <2>3
             DEF DeleteOfflineModem, MMTypeOK, ProviderTypeOK, RunnerTypeOK,
                 mmVars, provVars, cacheVars, historyVars
  <1>2. ASSUME NEW j \in DOMAIN sims, DeleteUnusedSIM(j) PROVE TypeOK'
    <2>1. /\ sims' = Without(sims, {j}) /\ Unbound(bound, j)
          /\ UNCHANGED <<modems, lastModem, lastSim, bound>>
      BY <1>2 DEF DeleteUnusedSIM
    <2>2. DbTypeOK'
      BY <2>1 DEF DbTypeOK, BindingsOK, Without, Table, Unbound
    <2>3. CountersTypeOK'
      BY <1>2, BoundsAssumption DEF DeleteUnusedSIM, CountersTypeOK
    <2> QED  BY <1>2, <2>1, <2>2, <2>3
             DEF DeleteUnusedSIM, MMTypeOK, ProviderTypeOK, RunnerTypeOK,
                 mmVars, provVars, cacheVars, historyVars
  <1> QED  BY <1>1, <1>2 DEF Http

-----------------------------------------------------------------------------
(* The inductive invariant.                                                *)
IInv == TypeOK /\ RoutesAreKnown

LEMMA InitIInv == Init => IInv
  <1> SUFFICES ASSUME Init PROVE IInv
    OBVIOUS
  <1> USE DEF Init
  <1>1. MMTypeOK /\ CountersTypeOK
    BY IdsAssumption, BoundsAssumption DEF MMTypeOK, CountersTypeOK
  <1>2. ProviderTypeOK
    BY BoundsAssumption DEF ProviderTypeOK
  <1>3. RunnerTypeOK
    BY DEF RunnerTypeOK, TaskType, Idle
  <1>4. DbTypeOK
    BY DEF DbTypeOK, BindingsOK, Table, EmptyTable
  <1>5. RoutesAreKnown
    BY DEF RoutesAreKnown
  <1> QED  BY <1>1, <1>2, <1>3, <1>4, <1>5 DEF IInv, TypeOK

(* Only the provider and a crash change its two maps.                      *)
LEMMA RoutesKept ==
    ASSUME TypeOK, RoutesAreKnown, [Next]_vars
    PROVE  RoutesAreKnown'
  <1> USE DEF TypeOK, ProviderTypeOK
  <1>1. CASE UNCHANGED <<entries, byPath>>
    BY <1>1 DEF RoutesAreKnown
  <1>2. CASE Crash
    BY <1>2 DEF Crash, RoutesAreKnown
  <1>3. CASE EnterModem
    <2> DEFINE d == adding.object.dev
               e == adding.entry
    <2>1. d \in Ids /\ e \in Entry
      BY <1>3 DEF EnterModem, Object, Reading
    <2>2. entries' = [entries EXCEPT ![d] = e] /\ byPath' = Routed(d, e.path)
      BY <1>3 DEF EnterModem
    <2> HIDE DEF d, e
    <2>3. e # None
      BY <2>1, NoneIsNoRecord
    <2>4. ASSUME NEW p \in Paths, byPath'[p] # None
          PROVE  entries'[byPath'[p]] # None /\ entries'[byPath'[p]].path = p
      <3>1. CASE p = e.path
        <4>1. byPath'[p] = d /\ entries'[d] = e
          BY <2>1, <2>2, <3>1 DEF Routed
        <4> QED  BY <2>3, <3>1, <4>1
      <3>2. CASE p # e.path
        <4>1. byPath'[p] = byPath[p] /\ ~(entries[d] # None /\ entries[d].path = p)
          BY <2>2, <2>4, <3>2 DEF Routed
        <4>2. byPath[p] # d /\ byPath[p] \in Ids
          BY <2>4, <4>1 DEF RoutesAreKnown
        <4> QED  BY <2>1, <2>2, <2>4, <4>1, <4>2 DEF RoutesAreKnown
      <3> QED  BY <3>1, <3>2
    <2> QED  BY <2>4 DEF RoutesAreKnown
  <1>4. CASE OnModemRemoved
    <2> DEFINE p == Head(sigs).path
               d == byPath[p]
    <2>1. p \in Paths
      BY <1>4, HeadType DEF OnModemRemoved, Next1
    <2>2. \/ UNCHANGED <<entries, byPath>>
          \/ /\ d # None /\ entries' = [entries EXCEPT ![d] = None]
             /\ byPath' = [byPath EXCEPT ![p] = None]
      BY <1>4 DEF OnModemRemoved
    <2> HIDE DEF p
    <2> QED  BY <1>1, <2>1, <2>2 DEF RoutesAreKnown
  <1>5. CASE OnModemChanged
    <2> DEFINE p == Head(sigs).path
               d == byPath[p]
               e == entries[d]
    <2>1. p \in Paths
      BY <1>5, HeadType DEF OnModemChanged, Next1
    <2>2. UNCHANGED byPath
      BY <1>5 DEF OnModemChanged
    <2>3. \/ UNCHANGED entries
          \/ /\ d # None /\ e # None
             /\ \E s \in Sims \cup {None} :
                   entries' = [entries EXCEPT ![d] = [e EXCEPT !.sim = s]]
      BY <1>5, HeadType DEF OnModemChanged, Next1
    <2>4. ASSUME d # None, e # None,
                 NEW s \in Sims \cup {None}, entries' = [entries EXCEPT ![d] = [e EXCEPT !.sim = s]]
          PROVE  RoutesAreKnown'
      <3>1. d \in Ids /\ e \in Entry /\ entries[d] = e
        BY <2>1, <2>4
      <3> HIDE DEF d, e, p
      <3>2. [e EXCEPT !.sim = s] # None /\ [e EXCEPT !.sim = s].path = e.path
        <4>1. [e EXCEPT !.sim = s] \in Entry /\ [e EXCEPT !.sim = s].path = e.path
          BY <2>4, <3>1 DEF Entry
        <4> QED  BY <4>1, NoneIsNoRecord
      <3> QED  BY <2>2, <2>4, <3>1, <3>2 DEF RoutesAreKnown
    <2> QED  BY <1>1, <2>2, <2>3, <2>4
  <1>6. CASE Environment /\ ~Crash
    BY <1>1, <1>6 DEF Environment, Plug, Unplug, SwapSim, MMRestart, Report, provVars
  <1>7. CASE Start \/ GetManagedObjects \/ ReadListed \/ ReadAnnounced \/ Listen \/ OnSignal
    BY <1>1, <1>7 DEF Start, GetManagedObjects, ReadListed, ReadAnnounced, Listen,
                      OnSignal, provVars
  <1>8. CASE Runner \/ Http
    BY <1>1, <1>8 DEF Runner, HandleModem, HandleSim, Bind, HandleRemoved, ForgetModem,
         HandleSample, SweepLooks, MarkStaleModemsAbsent, Http, DeleteOfflineModem,
         DeleteUnusedSIM, provVars
  <1>9. CASE UNCHANGED vars
    BY <1>1, <1>9 DEF vars, provVars
  <1> QED  BY <1>2, <1>3, <1>4, <1>5, <1>6, <1>7, <1>8, <1>9 DEF Next, Provider

LEMMA NextIInv == IInv /\ [Next]_vars => IInv'
  <1> SUFFICES ASSUME TypeOK, RoutesAreKnown, [Next]_vars PROVE TypeOK' /\ RoutesAreKnown'
    BY DEF IInv
  <1>1. CASE UNCHANGED vars
    <2> USE <1>1 DEF TypeOK, vars, mmVars, provVars, historyVars, runVars, cacheVars,
                     dbVars, boundVars
    <2>1. MMTypeOK' /\ CountersTypeOK'
      BY DEF MMTypeOK, CountersTypeOK
    <2>2. ProviderTypeOK'
      BY DEF ProviderTypeOK
    <2>3. RunnerTypeOK'
      BY DEF RunnerTypeOK, TaskType
    <2>4. DbTypeOK'
      BY DEF DbTypeOK, BindingsOK
    <2> QED  BY <2>1, <2>2, <2>3, <2>4, RoutesKept
  <1>2. CASE Next
    BY <1>2, EnvironmentType, ProviderType, RunnerType, HttpType, RoutesKept DEF Next
  <1> QED  BY <1>1, <1>2

(* The variables keep their types: the channel its capacity, the caches    *)
(* ids that were handed out, the bindings their foreign keys.              *)
THEOREM TypeCorrect == Spec => []TypeOK
  <1>1. IInv => TypeOK
    BY DEF IInv
  <1> QED  BY InitIInv, NextIInv, <1>1, PTL DEF Spec

(* The two maps of the provider agree, whatever comes and goes in whatever *)
(* order: each path leads to a modem listed at that path.                  *)
THEOREM RoutesAlwaysKnown == Spec => []RoutesAreKnown
  <1>1. IInv => RoutesAreKnown
    BY DEF IInv
  <1> QED  BY InitIInv, NextIInv, <1>1, PTL DEF Spec

-----------------------------------------------------------------------------
(* Where the signals lead.  A signal is looked up by its path when its     *)
(* turn comes, and paths are used again once MM has restarted: what was    *)
(* announced at the path before it, by an earlier signal, in the list of   *)
(* objects or in the modem being added, must be the object it is from.     *)

Announced(p, k) == sigs[k].type = "InterfacesAdded" /\ sigs[k].path = p

\* The path is, or is about to be, led to o by what comes before the signals.
Route(p, o) ==
    /\ \A x \in toAdd : x.path = p => x.object = o
    /\ (\A x \in toAdd : x.path # p) =>
          /\ adding # None /\ adding.path = p => adding.object = o
          /\ adding = None \/ adding.path # p => byPath[p] \in {None, o.dev}

\* What is announced at the path p before place i of the queue ends with o.
Leads(p, o, i) ==
    /\ \A k \in 1..i-1 : Announced(p, k) =>
          \E l \in k..i-1 : Announced(p, l) /\ sigs[l].object = o
    /\ (\A k \in 1..i-1 : ~Announced(p, k)) => Route(p, o)

\* What the provider has not done yet while it starts.
Phases ==
    /\ app \in {"down", "matching"} =>
          /\ toAdd = {} /\ adding = None /\ matched = {}
          /\ \A p \in Paths : byPath[p] = None
          /\ \A k \in DOMAIN sigs : sigs[k].type \notin OfModem
    /\ app = "down" => sigs = <<>>
    /\ app = "running" => toAdd = {}
    /\ adding # None => adding.entry.path = adding.path

Homeward == app # "down" =>
    /\ \A p \in Paths : object[p] # None => Leads(p, object[p], Len(sigs) + 1)
    /\ \A i \in DOMAIN sigs :
          sigs[i].type \in OfModem => Leads(sigs[i].path, sigs[i].object, i)

(* A queue that grows leads where it led.                                  *)
LEMMA LeadsOn ==
    ASSUME TypeOK, UNCHANGED <<toAdd, adding, byPath>>,
           NEW x \in SignalType, sigs' = Append(sigs, x),
           NEW p, NEW o, NEW i \in 1..Len(sigs)+1, Leads(p, o, i)
    PROVE  Leads(p, o, i)'
  <1>1. \A k \in 1..i-1 : sigs'[k] = sigs[k]
    BY DEF TypeOK, ProviderTypeOK
  <1> QED  BY <1>1 DEF Leads, Announced, Route

(* So does one whose head, which is done with, announced nothing here.     *)
LEMMA LeadsLess ==
    ASSUME TypeOK, sigs # <<>>, sigs' = Tail(sigs),
           NEW p, NEW o, NEW i \in 2..Len(sigs)+1, ~Announced(p, 1),
           Route(p, o) => Route(p, o)', Leads(p, o, i)
    PROVE  Leads(p, o, i-1)'
  <1>1. \A k \in 1..i-2 : k+1 \in 1..i-1 /\ sigs'[k] = sigs[k+1]
    BY DEF TypeOK, ProviderTypeOK
  <1>2. \A k \in 1..i-2 : Announced(p, k)' <=> Announced(p, k+1)
    BY <1>1 DEF Announced
  <1>3. ASSUME NEW k \in 1..i-2, Announced(p, k)'
        PROVE  \E l \in k..i-2 : Announced(p, l)' /\ sigs'[l].object = o
    <2>1. PICK l \in k+1..i-1 : Announced(p, l) /\ sigs[l].object = o
      BY <1>1, <1>2, <1>3 DEF Leads
    <2>2. l-1 \in k..i-2 /\ l-1 \in 1..i-2 /\ (l-1)+1 = l
      OBVIOUS
    <2> QED  BY <1>1, <1>2, <2>1, <2>2
  <1>4. ASSUME \A k \in 1..i-2 : ~Announced(p, k)' PROVE Route(p, o)'
    <2>1. ASSUME NEW k \in 1..i-1 PROVE ~Announced(p, k)
      <3>1. CASE k = 1
        BY <3>1
      <3>2. CASE k # 1
        <4>1. k-1 \in 1..i-2 /\ (k-1)+1 = k
          BY <3>2
        <4> QED  BY <1>2, <1>4, <4>1
      <3> QED  BY <3>1, <3>2
    <2> QED  BY <2>1 DEF Leads
  <1>5. (i-1)-1 = i-2
    OBVIOUS
  <1> QED  BY <1>3, <1>4, <1>5 DEF Leads

(* The head announced the modem that is being added now.                   *)
LEMMA LeadsRead ==
    ASSUME TypeOK, sigs # <<>>, sigs' = Tail(sigs), sigs[1].type = "InterfacesAdded",
           toAdd' = {}, adding' # None,
           adding'.path = sigs[1].path, adding'.object = sigs[1].object,
           toAdd = {}, adding = None, UNCHANGED byPath,
           NEW p, NEW o, NEW i \in 2..Len(sigs)+1, Leads(p, o, i)
    PROVE  Leads(p, o, i-1)'
  <1>1. CASE ~Announced(p, 1)
    <2>1. Route(p, o) => Route(p, o)'
      BY <1>1 DEF Route, Announced
    <2> QED  BY <1>1, <2>1, LeadsLess
  <1>2. CASE Announced(p, 1)
    <2>1. \A k \in 1..i-2 : k+1 \in 1..i-1 /\ sigs'[k] = sigs[k+1]
      BY DEF TypeOK, ProviderTypeOK
    <2>2. \A k \in 1..i-2 : Announced(p, k)' <=> Announced(p, k+1)
      BY <2>1 DEF Announced
    <2>3. ASSUME NEW k \in 1..i-2, Announced(p, k)'
          PROVE  \E l \in k..i-2 : Announced(p, l)' /\ sigs'[l].object = o
      <3>1. PICK l \in k+1..i-1 : Announced(p, l) /\ sigs[l].object = o
        BY <2>1, <2>2, <2>3 DEF Leads
      <3>2. l-1 \in k..i-2 /\ l-1 \in 1..i-2 /\ (l-1)+1 = l
        OBVIOUS
      <3> QED  BY <2>1, <2>2, <3>1, <3>2
    <2>4. ASSUME \A k \in 1..i-2 : ~Announced(p, k)' PROVE Route(p, o)'
      <3>1. PICK l \in 1..i-1 : Announced(p, l) /\ sigs[l].object = o
        BY <1>2 DEF Leads
      <3>2. l = 1
        <4> SUFFICES ASSUME l # 1 PROVE FALSE
          OBVIOUS
        <4>1. l-1 \in 1..i-2 /\ (l-1)+1 = l
          OBVIOUS
        <4> QED  BY <2>2, <2>4, <3>1, <4>1
      <3> QED  BY <1>2, <3>1, <3>2 DEF Route, Announced
    <2>5. (i-1)-1 = i-2
      OBVIOUS
    <2> QED  BY <2>3, <2>4, <2>5 DEF Leads
  <1> QED  BY <1>1, <1>2

(* The queue stays and the route is not worse.                             *)
LEMMA LeadsStill ==
    ASSUME UNCHANGED sigs, NEW p, NEW o, NEW i, Route(p, o) => Route(p, o)', Leads(p, o, i)
    PROVE  Leads(p, o, i)'
  BY DEF Leads, Announced

(* What the steps of the provider do to the route of a path.               *)
LEMMA RouteListed ==
    ASSUME TypeOK, ReadListed, NEW p, NEW o, Route(p, o)
    PROVE  Route(p, o)'
  <1>1. PICK x \in toAdd : toAdd' = toAdd \ {x} /\ ReadModem(x)
    BY DEF ReadListed
  <1>2. adding = None /\ UNCHANGED byPath
    BY DEF ReadListed
  <1>3. adding' # None /\ adding'.path = x.path /\ adding'.object = x.object
    BY <1>1, ReadModemType, NoneIsNoRecord DEF ReadModem, TypeOK, ProviderTypeOK
  <1>4. ASSUME NEW y \in toAdd', y.path = p PROVE y.object = o
    BY <1>1, <1>4 DEF Route
  <1>5. CASE x.path = p
    BY <1>1, <1>3, <1>4, <1>5 DEF Route
  <1>6. CASE x.path # p
    <2>1. ASSUME \A y \in toAdd' : y.path # p PROVE byPath'[p] \in {None, o.dev}
      BY <1>1, <1>2, <1>6, <2>1 DEF Route
    <2> QED  BY <1>3, <1>4, <1>6, <2>1 DEF Route
  <1> QED  BY <1>5, <1>6

LEMMA RouteEntered ==
    ASSUME TypeOK, Phases, EnterModem, NEW p \in Paths, NEW o, Route(p, o)
    PROVE  Route(p, o)'
  <1> DEFINE d == adding.object.dev
             e == adding.entry
  <1>1. /\ adding # None /\ adding' = None /\ UNCHANGED toAdd
        /\ byPath' = Routed(d, e.path)
    BY DEF EnterModem
  <1>2. adding.entry.path = adding.path
    BY <1>1 DEF Phases
  <1>3. CASE adding.path = p
    <2>1. byPath'[p] = d
      BY <1>1, <1>2, <1>3 DEF Routed
    <2> QED  BY <1>1, <1>3, <2>1 DEF Route
  <1>4. CASE adding.path # p
    <2>1. byPath'[p] \in {None, byPath[p]}
      BY <1>1, <1>2, <1>4 DEF Routed
    <2> QED  BY <1>1, <1>4, <2>1 DEF Route
  <1> QED  BY <1>3, <1>4

LEMMA RouteRemoved ==
    ASSUME TypeOK, OnModemRemoved, NEW p \in Paths, NEW o, Route(p, o)
    PROVE  Route(p, o)'
  <1>1. UNCHANGED <<toAdd, adding>> /\ byPath'[p] \in {None, byPath[p]}
    BY HeadType DEF OnModemRemoved, TypeOK, ProviderTypeOK
  <1> QED  BY <1>1 DEF Route

-----------------------------------------------------------------------------
(* The steps keep what is said of the signals.                             *)

Quiet == \/ Runner \/ Http \/ UNCHANGED vars

LEMMA QuietLeaves ==
    ASSUME Quiet
    PROVE  UNCHANGED <<object, app, entries, byPath, matched, toAdd, adding, sigs>>
  BY DEF Quiet, Runner, HandleModem, HandleSim, Bind, HandleRemoved, ForgetModem,
         HandleSample, SweepLooks, MarkStaleModemsAbsent, Http, DeleteOfflineModem,
         DeleteUnusedSIM, provVars, mmVars, vars

LEMMA PhasesKept ==
    ASSUME TypeOK, Phases, [Next]_vars
    PROVE  Phases'
  <1> USE DEF TypeOK, ProviderTypeOK
  <1>1. CASE Quiet
    BY <1>1, QuietLeaves DEF Phases
  <1>2. ASSUME NEW x, x.type \notin OfModem \/ matched # {}, Deliver(x),
               UNCHANGED <<app, byPath, matched, toAdd, adding>>
        PROVE  Phases'
    <2>1. CASE app = "down"
      BY <1>2, <2>1 DEF Phases, Deliver
    <2>2. CASE app # "down"
      <3>1. sigs' = Append(sigs, x)
        BY <1>2, <2>2 DEF Deliver
      <3>2. app = "matching" => \A k \in DOMAIN sigs' : sigs'[k].type \notin OfModem
        BY <1>2, <3>1 DEF Phases
      <3> QED  BY <1>2, <2>2, <3>2 DEF Phases
    <2> QED  BY <2>1, <2>2
  <1>3. ASSUME NEW m \in Modules, NEW d, NEW imei, Plug(m, d, imei) PROVE Phases'
    BY <1>2, <1>3 DEF OfModem, Plug, provVars, Signal
  <1>4. ASSUME NEW p \in Paths, Unplug(p) PROVE Phases'
    BY <1>2, <1>4 DEF OfModem, Unplug, provVars, Signal
  <1>5. ASSUME NEW p \in Paths, Report(p) PROVE Phases'
    BY <1>2, <1>5 DEF Report, provVars
  <1>6. ASSUME NEW m \in Modules, NEW s, SwapSim(m, s) PROVE Phases'
    <2>1. UNCHANGED provVars
      BY <1>6 DEF SwapSim
    <2>2. CASE UNCHANGED sigs
      BY <2>1, <2>2 DEF Phases, provVars
    <2>3. CASE ~UNCHANGED sigs
      BY <1>2, <1>6, <2>1, <2>3 DEF SwapSim, Notify, provVars, Signal
    <2> QED  BY <2>2, <2>3
  <1>7. CASE MMRestart
    BY <1>7 DEF MMRestart, Phases, provVars
  <1>8. CASE Crash
    BY <1>8 DEF Crash, Phases
  <1>9. CASE Start
    BY <1>9 DEF Start, Phases
  <1>10. CASE GetManagedObjects
    BY <1>10 DEF GetManagedObjects, Phases
  <1>11. CASE ReadListed
    <2>1. PICK x \in toAdd : ReadModem(x)
      BY <1>11 DEF ReadListed
    <2> QED  BY <1>11, <2>1 DEF ReadListed, ReadModem, Phases
  <1>12. CASE ReadAnnounced
    BY <1>12 DEF ReadAnnounced, ReadModem, Phases
  <1>13. CASE EnterModem
    <2>1. app \notin {"down", "matching"} /\ adding' = None /\ UNCHANGED <<app, toAdd, sigs>>
      BY <1>13 DEF EnterModem, Phases
    <2> QED  BY <2>1 DEF Phases
  <1>14. CASE Listen
    BY <1>14 DEF Listen, Phases
  <1>15. CASE OnModemRemoved \/ OnModemChanged \/ OnSignal
    BY <1>15 DEF OnModemRemoved, OnModemChanged, OnSignal, Next1, Phases, provVars
  <1> QED
    BY <1>1, <1>3, <1>4, <1>5, <1>6, <1>7, <1>8, <1>9, <1>10, <1>11, <1>12, <1>13,
       <1>14, <1>15 DEF Next, Environment, Provider, Quiet

(* What an added signal says holds, and the rest is not disturbed.         *)
LEMMA HomewardGrows ==
    ASSUME TypeOK, Homeward, app # "down", UNCHANGED <<app, toAdd, adding, byPath>>,
           NEW x \in SignalType, sigs' = Append(sigs, x),
           \A p \in Paths : object'[p] # None =>
               \/ object'[p] = object[p] /\ (x.type = "InterfacesAdded" => x.path # p)
               \/ x.type = "InterfacesAdded" /\ x.path = p /\ x.object = object'[p],
           x.type \in OfModem => x.path \in Paths /\ x.object = object[x.path]
                                /\ x.object # None
    PROVE  Homeward'
  <1>1. Len(sigs') = Len(sigs) + 1 /\ sigs'[Len(sigs) + 1] = x /\ Len(sigs) \in Nat
        /\ \A k \in 1..Len(sigs) : sigs'[k] = sigs[k]
    BY DEF TypeOK, ProviderTypeOK
  <1>2. ASSUME NEW p, NEW o, NEW i \in 1..Len(sigs)+1, Leads(p, o, i) PROVE Leads(p, o, i)'
    BY <1>2, LeadsOn
  <1>3. ASSUME NEW p \in Paths, object'[p] # None
        PROVE  Leads(p, object[p], Len(sigs) + 1)'
    <2>1. CASE object'[p] = object[p] /\ (x.type = "InterfacesAdded" => x.path # p)
      <3> DEFINE o == object[p]
                 n == Len(sigs) + 1
      <3>1. PICK q : q = object[p]
        OBVIOUS
      <3>2. Leads(p, q, Len(sigs) + 1)
        BY <1>3, <2>1, <3>1 DEF Homeward
      <3>3. Leads(p, q, Len(sigs) + 1)'
        <4>1. PICK j : j = Len(sigs) + 1
          OBVIOUS
        <4>0. j \in 1..Len(sigs)+1 /\ j \in Nat /\ Len(sigs') + 1 = j + 1
              /\ (j + 1) - 1 = j /\ Leads(p, q, j)
          BY <1>1, <3>2, <4>1
        <4>2. Leads(p, q, j)'
          BY <1>2, <4>0
        <4>3. ~Announced(p, j)'
          BY <1>1, <2>1, <4>1 DEF Announced
        <4>4. \A k \in 1..j : k \in 1..j-1 \/ k = j
          BY <4>0
        <4>5. ASSUME NEW k \in 1..j, Announced(p, k)'
              PROVE  \E l \in k..j : Announced(p, l)' /\ sigs'[l].object = q
          <5>1. k \in 1..j-1
            BY <4>3, <4>4, <4>5
          <5>2. PICK l \in k..j-1 : Announced(p, l)' /\ sigs'[l].object = q
            BY <4>2, <4>5, <5>1 DEF Leads
          <5>3. l \in k..j
            BY <4>0, <5>1
          <5> QED  BY <5>2, <5>3
        <4>6. ASSUME \A k \in 1..j : ~Announced(p, k)' PROVE Route(p, q)'
          BY <4>0, <4>2, <4>6 DEF Leads
        <4>7. Leads(p, q, j + 1)'
          BY <4>0, <4>5, <4>6 DEF Leads
        <4> QED  BY <4>0, <4>7
      <3> QED  BY <2>1, <3>1, <3>3
    <2>2. CASE x.type = "InterfacesAdded" /\ x.path = p /\ x.object = object'[p]
      <3>1. PICK q, n : q = object'[p] /\ n = Len(sigs) + 1
        OBVIOUS
      <3>2. Announced(p, n)' /\ sigs'[n].object = q
        BY <1>1, <2>2, <3>1 DEF Announced
      <3>3. n \in Nat /\ n >= 1 /\ (n + 1) - 1 = n /\ Len(sigs') + 1 = n + 1
        BY <1>1, <3>1
      <3>4. \A k \in 1..n : n \in k..n
        BY <3>3
      <3>5. n \in 1..n
        BY <3>3
      <3>6. Leads(p, q, n + 1)'
        BY <3>2, <3>3, <3>4, <3>5 DEF Leads
      <3> QED  BY <3>1, <3>3, <3>6
    <2> QED  BY <1>3, <2>1, <2>2
  <1>4. ASSUME NEW i \in DOMAIN sigs', sigs'[i].type \in OfModem
        PROVE  Leads(sigs[i].path, sigs[i].object, i)'
    <2>1. CASE i \in 1..Len(sigs)
      <3>1. PICK p, o : p = sigs[i].path /\ o = sigs[i].object
        OBVIOUS
      <3>2. Leads(p, o, i)
        BY <1>1, <1>4, <2>1, <3>1 DEF Homeward, TypeOK, ProviderTypeOK
      <3>3. Leads(p, o, i)' /\ sigs'[i] = sigs[i]
        BY <1>1, <1>2, <2>1, <3>2
      <3> QED  BY <3>1, <3>3
    <2>2. CASE i = Len(sigs) + 1
      <3>1. PICK p, o : p = x.path /\ o = x.object
        OBVIOUS
      <3>2. Leads(p, o, i)
        BY <1>1, <1>4, <2>2, <3>1 DEF Homeward
      <3>3. Leads(p, o, i)' /\ sigs'[i] = x
        BY <1>1, <1>2, <2>2, <3>2
      <3> QED  BY <3>1, <3>3
    <2>3. DOMAIN sigs' = 1..Len(sigs)+1
      BY DEF TypeOK, ProviderTypeOK
    <2> QED  BY <1>1, <2>1, <2>2, <2>3
  <1> QED  BY <1>3, <1>4 DEF Homeward

(* The queue stays.                                                        *)
LEMMA HomewardStays ==
    ASSUME TypeOK, Homeward, app # "down", UNCHANGED sigs,
           \A p \in Paths : object'[p] # None => object'[p] = object[p],
           \A p \in Paths : \A o : Route(p, o) => Route(p, o)'
    PROVE  Homeward'
  <1>1. ASSUME NEW p \in Paths, NEW o, NEW i, Leads(p, o, i) PROVE Leads(p, o, i)'
    BY <1>1, LeadsStill
  <1>2. ASSUME NEW p \in Paths, object'[p] # None PROVE Leads(p, object[p], Len(sigs) + 1)'
    <2>1. PICK q, n : q = object[p] /\ n = Len(sigs) + 1
      OBVIOUS
    <2>2. Leads(p, q, n)
      BY <1>2, <2>1 DEF Homeward
    <2>3. Leads(p, q, n)'
      BY <1>1, <2>2
    <2> QED  BY <1>2, <2>1, <2>3
  <1>3. ASSUME NEW i \in DOMAIN sigs', sigs'[i].type \in OfModem
        PROVE  Leads(sigs[i].path, sigs[i].object, i)'
    <2>1. PICK p, o : p = sigs[i].path /\ o = sigs[i].object
      OBVIOUS
    <2>2. Leads(p, o, i) /\ p \in Paths
      BY <1>3, <2>1 DEF Homeward, TypeOK, ProviderTypeOK, SignalType, Announcement
    <2>3. Leads(p, o, i)'
      BY <1>1, <2>2
    <2> QED  BY <2>1, <2>3
  <1> QED  BY <1>2, <1>3 DEF Homeward

(* The head of the queue is done with.                                     *)
LEMMA HomewardShrinks ==
    ASSUME TypeOK, Homeward, app # "down", sigs # <<>>, sigs' = Tail(sigs), UNCHANGED object,
           \A p \in Paths : \A o : \A i \in 2..Len(sigs)+1 : Leads(p, o, i) => Leads(p, o, i-1)'
    PROVE  Homeward'
  <1>0. /\ Len(sigs') = Len(sigs) - 1 /\ Len(sigs) \in Nat /\ Len(sigs) >= 1
        /\ \A i \in 1..Len(sigs)-1 : i+1 \in DOMAIN sigs /\ sigs'[i] = sigs[i+1]
    BY DEF TypeOK, ProviderTypeOK
  <1>2. ASSUME NEW p \in Paths, object'[p] # None PROVE Leads(p, object[p], Len(sigs) + 1)'
    <2>1. PICK q, n : q = object[p] /\ n = Len(sigs) + 1
      OBVIOUS
    <2>2. Leads(p, q, n)
      BY <1>2, <2>1 DEF Homeward
    <2>3. n \in 2..Len(sigs)+1 /\ n - 1 = Len(sigs') + 1
      BY <1>0, <2>1
    <2>4. Leads(p, q, n-1)'
      BY <2>2, <2>3
    <2> QED  BY <1>2, <2>1, <2>3, <2>4
  <1>3. ASSUME NEW i \in DOMAIN sigs', sigs'[i].type \in OfModem
        PROVE  Leads(sigs[i].path, sigs[i].object, i)'
    <2>1. PICK p, o, j : p = sigs'[i].path /\ o = sigs'[i].object /\ j = i + 1
      OBVIOUS
    <2>2. i \in 1..Len(sigs)-1 /\ j \in DOMAIN sigs /\ sigs'[i] = sigs[j]
      BY <1>0, <1>3, <2>1 DEF TypeOK, ProviderTypeOK
    <2>3. j \in 2..Len(sigs)+1 /\ j - 1 = i
      BY <1>0, <2>1, <2>2
    <2>4. Leads(p, o, j) /\ p \in Paths
      BY <1>3, <2>1, <2>2 DEF Homeward, TypeOK, ProviderTypeOK, SignalType, Announcement
    <2>5. Leads(p, o, j-1)'
      BY <2>3, <2>4
    <2> QED  BY <2>1, <2>3, <2>5
  <1> QED  BY <1>2, <1>3 DEF Homeward

LEMMA HomewardAround ==
    ASSUME TypeOK, Homeward, Environment
    PROVE  Homeward'
  <1>1. CASE app = "down"
    <2>1. app' = "down"
      BY <1>1 DEF Environment, Plug, Unplug, SwapSim, MMRestart, Report, Crash, provVars
    <2> QED  BY <2>1 DEF Homeward
  <1>2. CASE Crash
    BY <1>2 DEF Crash, Homeward
  <1>3. ASSUME app # "down", NEW m \in Modules, NEW d \in IdsOf[m], NEW imei \in {m, None},
               Plug(m, d, imei)
        PROVE  Homeward'
    <2> DEFINE o == [module |-> m, dev |-> d, imei |-> imei]
               x == Signal("InterfacesAdded", nextPath', o, slot[m])
    <2>1. o \in Object
      BY IdsAssumption DEF Object
    <2>2. nextPath' \in Paths
      BY <1>3, BoundsAssumption DEF Plug, TypeOK, MMTypeOK, Paths
    <2>3. x \in SignalType
      <3> HIDE DEF o
      <3>1. slot[m] \in Sims \cup {None}
        BY DEF TypeOK, MMTypeOK
      <3> QED  BY <2>1, <2>2, <3>1, SignalTypes
    <2>4. x.type = "InterfacesAdded" /\ x.path = nextPath' /\ x.object = o
      BY DEF Signal
    <2>5. /\ object' = [object EXCEPT ![nextPath'] = o] /\ Deliver(x)
          /\ UNCHANGED <<app, toAdd, adding, byPath>>
      BY <1>3 DEF Plug, provVars
    <2> HIDE DEF o, x
    <2>6. sigs' = Append(sigs, x)
      BY <1>3, <2>5 DEF Deliver
    <2>7. \A p \in Paths : object'[p] # None =>
               \/ object'[p] = object[p] /\ x.path # p
               \/ x.path = p /\ x.object = object'[p]
      BY <2>2, <2>4, <2>5 DEF TypeOK, MMTypeOK
    <2> QED  BY <1>3, <2>3, <2>4, <2>5, <2>6, <2>7, HomewardGrows DEF OfModem
  <1>4. ASSUME app # "down", NEW p \in Paths, Unplug(p) PROVE Homeward'
    <2> DEFINE x == Signal("InterfacesRemoved", p, None, None)
    <2>1. x \in SignalType /\ x.type = "InterfacesRemoved"
      BY SignalTypes DEF Signal
    <2>2. /\ sigs' = Append(sigs, x) /\ UNCHANGED <<app, toAdd, adding, byPath>>
          /\ object' = [object EXCEPT ![p] = None]
      BY <1>4 DEF Unplug, Deliver, provVars
    <2> HIDE DEF x
    <2>3. \A q \in Paths : object'[q] # None => object'[q] = object[q]
      BY <2>2 DEF TypeOK, MMTypeOK
    <2> QED  BY <1>4, <2>1, <2>2, <2>3, HomewardGrows DEF OfModem
  <1>5. ASSUME app # "down", NEW p \in Paths, Report(p) PROVE Homeward'
    <2> DEFINE x == Signal("Signal", p, object[p], None)
    <2>1. object[p] # None /\ object[p] \in Object
      BY <1>5 DEF Report, TypeOK, MMTypeOK
    <2>2. x \in SignalType /\ x.type = "Signal" /\ x.path = p /\ x.object = object[p]
      BY <2>1, SignalTypes DEF Signal
    <2>3. sigs' = Append(sigs, x) /\ UNCHANGED <<object, app, toAdd, adding, byPath>>
      BY <1>5 DEF Report, Deliver, provVars, mmVars
    <2> HIDE DEF x
    <2> QED  BY <1>5, <2>1, <2>2, <2>3, HomewardGrows
  <1>6. ASSUME app # "down", NEW m \in Modules, NEW s \in Sims \cup {None}, SwapSim(m, s)
        PROVE  Homeward'
    <2>1. UNCHANGED <<object, app, toAdd, adding, byPath>>
      BY <1>6 DEF SwapSim, provVars
    <2>2. CASE UNCHANGED sigs
      <3>1. \A p \in Paths : \A o : Route(p, o) => Route(p, o)'
        BY <2>1 DEF Route
      <3> QED  BY <1>6, <2>1, <2>2, <3>1, HomewardStays
    <2>3. CASE ~UNCHANGED sigs
      <3>1. PICK p \in Paths : object[p] # None /\ Notify(p, Signal("Modem", p, object[p], s))
        BY <1>6, <2>3 DEF SwapSim
      <3>2. PICK x : x = Signal("Modem", p, object[p], s)
        OBVIOUS
      <3>0. object[p] \in Object
        BY <3>1 DEF TypeOK, MMTypeOK
      <3>3. x \in SignalType /\ x.type = "Modem" /\ x.path = p /\ x.object = object[p]
        BY <3>0, <3>2, SignalTypes DEF Signal
      <3>4. sigs' = Append(sigs, x)
        BY <1>6, <2>3, <3>1, <3>2 DEF Notify, Deliver
      <3> QED  BY <1>6, <2>1, <3>1, <3>3, <3>4, HomewardGrows
    <2> QED  BY <2>2, <2>3
  <1>7. ASSUME app # "down", MMRestart PROVE Homeward'
    <2>1. UNCHANGED <<app, toAdd, adding, byPath, sigs>> /\ \A p \in Paths : object'[p] = None
      BY <1>7 DEF MMRestart, provVars
    <2>2. \A p \in Paths : \A o : Route(p, o) => Route(p, o)'
      BY <2>1 DEF Route
    <2> QED  BY <1>7, <2>1, <2>2, HomewardStays
  <1> QED  BY <1>1, <1>2, <1>3, <1>4, <1>5, <1>6, <1>7 DEF Environment

LEMMA HomewardProvider ==
    ASSUME TypeOK, Phases, Homeward, Provider
    PROVE  Homeward'
  <1> USE DEF TypeOK, ProviderTypeOK
  <1>1. CASE Start
    <2>1. /\ app = "down" /\ UNCHANGED <<object, byPath, toAdd, adding, sigs>>
          /\ sigs = <<>> /\ toAdd = {} /\ adding = None /\ \A p \in Paths : byPath[p] = None
      BY <1>1 DEF Start, Phases, mmVars
    <2>2. \A p \in Paths : \A o : Route(p, o)'
      BY <2>1 DEF Route
    <2>3. Len(sigs') + 1 = 1 /\ DOMAIN sigs' = {}
      BY <2>1
    <2>4. \A p \in Paths : \A o : Leads(p, o, 1)'
      BY <2>2 DEF Leads
    <2>5. ASSUME NEW p \in Paths PROVE Leads(p, object[p], Len(sigs) + 1)'
      <3>1. PICK q : q = object'[p]
        OBVIOUS
      <3>2. Leads(p, q, 1)'
        BY <2>4
      <3> QED  BY <2>3, <3>1, <3>2
    <2> QED  BY <2>3, <2>5 DEF Homeward
  <1>2. CASE GetManagedObjects
    <2>1. /\ app = "matching" /\ UNCHANGED <<object, byPath, adding, sigs>>
          /\ adding = None /\ \A p \in Paths : byPath[p] = None
          /\ \A k \in DOMAIN sigs : sigs[k].type \notin OfModem
      BY <1>2 DEF GetManagedObjects, Phases, mmVars
    <2>2. \/ toAdd' = {}
          \/ toAdd' = {Signal("InterfacesAdded", p, object[p], slot[object[p].module]) :
                          p \in {q \in Paths : object[q] # None}}
      BY <1>2 DEF GetManagedObjects, Phases
    <2>3. \A x \in toAdd' : x.object = object[x.path]
      BY <2>2 DEF Signal
    <2>4. ASSUME NEW p \in Paths, object'[p] # None
          PROVE  Leads(p, object[p], Len(sigs) + 1)'
      <3>1. PICK q, n : q = object[p] /\ n = Len(sigs) + 1
        OBVIOUS
      <3>2. Leads(p, q, n)
        BY <2>1, <2>4, <3>1 DEF Homeward
      <3>3. Route(p, q)'
        BY <2>1, <2>3, <3>1 DEF Route
      <3>4. Leads(p, q, n)'
        BY <2>1, <3>2, <3>3 DEF Leads, Announced
      <3> QED  BY <2>1, <3>1, <3>4
    <2> QED  BY <2>1, <2>4 DEF Homeward
  <1>3. CASE ReadListed
    <2>1. app # "down" /\ UNCHANGED <<object, sigs>>
      BY <1>3 DEF ReadListed, mmVars
    <2>2. \A p \in Paths : \A o : Route(p, o) => Route(p, o)'
      BY <1>3, RouteListed
    <2> QED  BY <2>1, <2>2, HomewardStays
  <1>4. CASE EnterModem
    <2>1. app # "down" /\ UNCHANGED <<object, sigs>>
      BY <1>4 DEF EnterModem, Phases, mmVars
    <2>2. \A p \in Paths : \A o : Route(p, o) => Route(p, o)'
      BY <1>4, RouteEntered
    <2> QED  BY <2>1, <2>2, HomewardStays
  <1>5. CASE Listen
    <2>1. app # "down" /\ UNCHANGED <<object, sigs, toAdd, adding, byPath>>
      BY <1>5 DEF Listen, mmVars
    <2>2. \A p \in Paths : \A o : Route(p, o) => Route(p, o)'
      BY <2>1 DEF Route
    <2> QED  BY <2>1, <2>2, HomewardStays
  <1>6. CASE ReadAnnounced
    <2>1. /\ app = "running" /\ adding = None /\ toAdd = {} /\ toAdd' = {}
          /\ sigs # <<>> /\ Head(sigs).type = "InterfacesAdded" /\ sigs' = Tail(sigs)
          /\ ReadModem(Head(sigs)) /\ UNCHANGED <<object, byPath>>
      BY <1>6 DEF ReadAnnounced, Phases, mmVars
    <2>2. Head(sigs) = sigs[1] /\ Head(sigs) \in Announcement
      BY <2>1, HeadType
    <2>3. adding' # None /\ adding'.path = sigs[1].path /\ adding'.object = sigs[1].object
      BY <2>1, <2>2, ReadModemType, NoneIsNoRecord DEF ReadModem
    <2>4. \A p \in Paths : \A o : \A i \in 2..Len(sigs)+1 : Leads(p, o, i) => Leads(p, o, i-1)'
      BY <2>1, <2>2, <2>3, LeadsRead
    <2> QED  BY <2>1, <2>4, HomewardShrinks
  <1>7. ASSUME \E type \in {"InterfacesRemoved", "Modem", "Signal"} : Next1(type),
               UNCHANGED object, \A p \in Paths : \A o : Route(p, o) => Route(p, o)'
        PROVE  Homeward'
    <2>1. /\ app # "down" /\ sigs # <<>> /\ Head(sigs).type # "InterfacesAdded"
          /\ sigs' = Tail(sigs)
      BY <1>7 DEF Next1
    <2>2. \A p : ~Announced(p, 1)
      BY <2>1 DEF Announced
    <2>3. \A p \in Paths : \A o : \A i \in 2..Len(sigs)+1 : Leads(p, o, i) => Leads(p, o, i-1)'
      BY <1>7, <2>1, <2>2, LeadsLess
    <2> QED  BY <1>7, <2>1, <2>3, HomewardShrinks
  <1>8. CASE OnModemRemoved
    <2>1. \A p \in Paths : \A o : Route(p, o) => Route(p, o)'
      BY <1>8, RouteRemoved
    <2> QED  BY <1>7, <1>8, <2>1 DEF OnModemRemoved, mmVars
  <1>9. CASE OnModemChanged \/ OnSignal
    <2>1. UNCHANGED <<object, toAdd, adding, byPath>>
      BY <1>9 DEF OnModemChanged, OnSignal, mmVars, provVars
    <2>2. \A p \in Paths : \A o : Route(p, o) => Route(p, o)'
      BY <2>1 DEF Route
    <2> QED  BY <1>7, <1>9, <2>1, <2>2 DEF OnModemChanged, OnSignal
  <1> QED
    BY <1>1, <1>2, <1>3, <1>4, <1>5, <1>6, <1>8, <1>9 DEF Provider

LEMMA HomewardKept ==
    ASSUME TypeOK, Phases, Homeward, [Next]_vars
    PROVE  Homeward'
  <1>1. CASE Quiet
    <2>1. UNCHANGED <<object, app, byPath, toAdd, adding, sigs>>
      BY <1>1, QuietLeaves
    <2> QED  BY <2>1 DEF Homeward, Leads, Announced, Route
  <1> QED  BY <1>1, HomewardAround, HomewardProvider DEF Next, Quiet

(* The signals that wait, and those to come, are looked up under the modem *)
(* they are from.                                                          *)
THEOREM SignalsFindTheirModem == Spec => [](Phases /\ Homeward)
  <1>1. Init => Phases /\ Homeward
    BY DEF Init, Phases, Homeward
  <1>2. IInv /\ Phases /\ Homeward /\ [Next]_vars => (Phases /\ Homeward)'
    BY PhasesKept, HomewardKept DEF IInv
  <1>3. Spec => []IInv
    BY InitIInv, NextIInv, PTL DEF Spec
  <1> QED  BY <1>1, <1>2, <1>3, PTL DEF Spec

(* When the provider has nothing left to read, no path leads to a modem    *)
(* that is not at it, however often MM was restarted and numbered its      *)
(* modems anew.                                                            *)
THEOREM PathsLeadHome == Spec => []RoutesLeadHome
  <1>1. ASSUME TypeOK, Phases, Homeward, app = "running", adding = None, sigs = <<>>,
               NEW p \in Paths, byPath[p] # None, object[p] # None
        PROVE  object[p].dev = byPath[p]
    <2>1. toAdd = {} /\ Len(sigs) + 1 = 1
      BY <1>1 DEF Phases
    <2>2. Leads(p, object[p], 1)
      BY <1>1, <2>1 DEF Homeward
    <2>3. Route(p, object[p])
      BY <2>2 DEF Leads
    <2> QED  BY <1>1, <2>1, <2>3 DEF Route
  <1>2. TypeOK /\ Phases /\ Homeward => RoutesLeadHome
    BY <1>1 DEF RoutesLeadHome
  <1> QED  BY <1>2, TypeCorrect, SignalsFindTheirModem, PTL

-----------------------------------------------------------------------------
(* Whose modem it is.  Objects, entries, events, rows and the ids in the   *)
(* cache each belong to one module, which they name if MM could read the   *)
(* IMEI, and none of them ever changes hands.                              *)

Of(d, imei, m) == d \in IdsOf[m] /\ imei \in {m, None}

Honest(o) == Of(o.dev, o.imei, o.module)

SignalsHonest == \A k \in DOMAIN sigs :
    sigs[k].type \in {"InterfacesAdded"} \cup OfModem => Honest(sigs[k].object)

Honesty ==
    /\ \A p \in Paths : object[p] # None => Honest(object[p])
    /\ SignalsHonest
    /\ \A x \in toAdd : Honest(x.object)
    /\ adding # None => Honest(adding.object) /\ adding.entry.imei = adding.object.imei
    /\ \A d \in Ids : entries[d] # None => \E m \in Modules : Of(d, entries[d].imei, m)

EventOf(ev) ==
    /\ \E m \in Modules : Of(ev.dev, ev.imei, m)
    /\ ev.kind = "SignalSampled" => ev.module \in Modules /\ ev.dev \in IdsOf[ev.module]

EventsOf == \A k \in DOMAIN events : EventOf(events[k])

RowsOf ==
    /\ \A i \in DOMAIN modems : \E m \in Modules : Of(modems[i].dev, modems[i].imei, m)
    /\ \A d \in Ids : modemIDs[d] \in DOMAIN modems =>
          \E m \in Modules : d \in IdsOf[m] /\ modems[modemIDs[d]].dev \in IdsOf[m]

(* An identifier is reported by one module.                                *)
LEMMA OneModule ==
    ASSUME NEW m \in Modules, NEW n \in Modules, NEW d, d \in IdsOf[m], d \in IdsOf[n]
    PROVE  m = n
  BY IdsAssumption

(* A queue that grows by an honest signal.                                 *)
LEMMA HonestDelivered ==
    ASSUME TypeOK, SignalsHonest, NEW x, Deliver(x) \/ UNCHANGED sigs,
           x.type \in {"InterfacesAdded"} \cup OfModem => Honest(x.object)
    PROVE  SignalsHonest'
  <1>1. CASE UNCHANGED sigs
    BY <1>1 DEF SignalsHonest
  <1>2. CASE sigs' = Append(sigs, x)
    <2>1. \A k \in DOMAIN sigs' : sigs'[k] = x \/ (k \in DOMAIN sigs /\ sigs'[k] = sigs[k])
      BY <1>2 DEF TypeOK, ProviderTypeOK
    <2> QED  BY <2>1 DEF SignalsHonest
  <1> QED  BY <1>1, <1>2 DEF Deliver

LEMMA HonestTaken ==
    ASSUME TypeOK, SignalsHonest, sigs # <<>>, sigs' = Tail(sigs)
    PROVE  /\ SignalsHonest'
           /\ Head(sigs).type \in {"InterfacesAdded"} \cup OfModem => Honest(Head(sigs).object)
  <1>1. \A k \in DOMAIN sigs' : k+1 \in DOMAIN sigs /\ sigs'[k] = sigs[k+1]
    BY DEF TypeOK, ProviderTypeOK
  <1>2. 1 \in DOMAIN sigs /\ Head(sigs) = sigs[1]
    BY DEF TypeOK, ProviderTypeOK
  <1> QED  BY <1>1, <1>2 DEF SignalsHonest

(* The events of emit are added at the end, as far as there is room.       *)
LEMMA EmitAdds ==
    ASSUME events \in Seq(EventType), Len(events) <= EventCap,
           NEW es \in Seq(EventType), Emit(es),
           EventsOf, \A j \in DOMAIN es : EventOf(es[j])
    PROVE  EventsOf'
  <1> DEFINE room == EventCap - Len(events)
             n    == IF Len(es) <= room THEN Len(es) ELSE room
  <1>1. n \in 0..Len(es)
    BY BoundsAssumption
  <1>2. events' = events \o SubSeq(es, 1, n)
    BY DEF Emit
  <1> HIDE DEF n
  <1>3. \A k \in DOMAIN events' :
            \/ k \in DOMAIN events /\ events'[k] = events[k]
            \/ k - Len(events) \in DOMAIN es /\ events'[k] = es[k - Len(events)]
    BY <1>1, <1>2
  <1>4. ASSUME NEW k \in DOMAIN events' PROVE EventOf(events'[k])
    BY <1>3 DEF EventsOf
  <1>5. \A ev : EventOf(ev)' <=> EventOf(ev)
    BY DEF EventOf
  <1> QED  BY <1>4, <1>5 DEF EventsOf

LEMMA EmitsOf ==
    ASSUME TypeOK, EventsOf, NEW x \in EventType, NEW y \in EventType,
           EventOf(x), EventOf(y), Emit(<<x>>) \/ Emit(<<x, y>>)
    PROVE  EventsOf'
  <1>1. <<x>> \in Seq(EventType) /\ <<x, y>> \in Seq(EventType)
    OBVIOUS
  <1>2. CASE Emit(<<x>>)
    <2> DEFINE es == <<x>>
    <2>1. es \in Seq(EventType) /\ Emit(es) /\ \A j \in DOMAIN es : es[j] = x
      BY <1>1, <1>2
    <2> HIDE DEF es
    <2> QED  BY <2>1, EmitAdds DEF TypeOK, ProviderTypeOK
  <1>3. CASE Emit(<<x, y>>)
    <2> DEFINE es == <<x, y>>
    <2>1. es \in Seq(EventType) /\ Emit(es) /\ \A j \in DOMAIN es : es[j] \in {x, y}
      BY <1>1, <1>3
    <2> HIDE DEF es
    <2> QED  BY <2>1, EmitAdds DEF TypeOK, ProviderTypeOK
  <1> QED  BY <1>2, <1>3

LEMMA HonestAround ==
    ASSUME TypeOK, Honesty, Environment
    PROVE  Honesty'
  <1>1. ASSUME NEW m \in Modules, NEW d \in IdsOf[m], NEW imei \in {m, None},
               Plug(m, d, imei)
        PROVE  Honesty'
    <2> DEFINE o == [module |-> m, dev |-> d, imei |-> imei]
               x == Signal("InterfacesAdded", nextPath', o, slot[m])
    <2>1. Honest(o) /\ x.object = o
      BY DEF Honest, Of, Signal
    <2>2. object' = [object EXCEPT ![nextPath'] = o] /\ Deliver(x)
          /\ UNCHANGED <<toAdd, adding, entries>>
      BY <1>1 DEF Plug, provVars
    <2> HIDE DEF o, x
    <2>3. SignalsHonest'
      BY <2>1, <2>2, HonestDelivered DEF Honesty
    <2>4. \A p \in Paths : object'[p] # None => Honest(object'[p])
      BY <2>1, <2>2 DEF Honesty, TypeOK, MMTypeOK
    <2> QED  BY <2>2, <2>3, <2>4 DEF Honesty
  <1>2. ASSUME UNCHANGED <<object, toAdd, adding, entries>>, SignalsHonest' PROVE Honesty'
    BY <1>2 DEF Honesty
  <1>3. ASSUME NEW p \in Paths, Unplug(p) PROVE Honesty'
    <2> DEFINE x == Signal("InterfacesRemoved", p, None, None)
    <2>1. x.type = "InterfacesRemoved" /\ Deliver(x)
      BY <1>3 DEF Signal, Unplug
    <2> HIDE DEF x
    <2>2. SignalsHonest'
      BY <2>1, HonestDelivered DEF OfModem, Honesty
    <2>3. \A q \in Paths : object'[q] # None => object'[q] = object[q]
      BY <1>3 DEF Unplug, TypeOK, MMTypeOK
    <2> QED  BY <1>3, <2>2, <2>3 DEF Honesty, Unplug, provVars
  <1>4. ASSUME NEW p \in Paths, Report(p) PROVE Honesty'
    <2> DEFINE x == Signal("Signal", p, object[p], None)
    <2>1. Honest(x.object) /\ Deliver(x) /\ UNCHANGED <<object, toAdd, adding, entries>>
      BY <1>4 DEF Signal, Report, Honesty, mmVars, provVars
    <2> HIDE DEF x
    <2> QED  BY <1>2, <2>1, HonestDelivered DEF Honesty
  <1>5. ASSUME NEW m \in Modules, NEW s, SwapSim(m, s) PROVE Honesty'
    <2>1. UNCHANGED <<object, toAdd, adding, entries>>
      BY <1>5 DEF SwapSim, provVars
    <2>2. CASE UNCHANGED sigs
      BY <1>2, <2>1, <2>2 DEF Honesty, SignalsHonest
    <2>3. CASE ~UNCHANGED sigs
      <3>1. PICK p \in Paths : object[p] # None /\ Deliver(Signal("Modem", p, object[p], s))
        BY <1>5, <2>3 DEF SwapSim, Notify
      <3>2. PICK x : x = Signal("Modem", p, object[p], s)
        OBVIOUS
      <3>3. Honest(x.object) /\ Deliver(x)
        BY <3>1, <3>2 DEF Signal, Honesty
      <3> QED  BY <1>2, <2>1, <3>3, HonestDelivered DEF Honesty
    <2> QED  BY <2>2, <2>3
  <1>6. CASE MMRestart
    BY <1>6 DEF MMRestart, Honesty, SignalsHonest, provVars
  <1>7. CASE Crash
    BY <1>7 DEF Crash, Honesty, SignalsHonest, mmVars
  <1> QED  BY <1>1, <1>3, <1>4, <1>5, <1>6, <1>7 DEF Environment

LEMMA HonestProvider ==
    ASSUME TypeOK, Honesty, Provider
    PROVE  Honesty'
  <1> USE DEF TypeOK, ProviderTypeOK
  <1>1. CASE Start \/ Listen
    BY <1>1 DEF Start, Listen, Honesty, SignalsHonest, mmVars
  <1>2. CASE GetManagedObjects
    <2>1. \A x \in toAdd' : x \in toAdd \/ \E p \in Paths : object[p] # None /\ x.object = object[p]
      BY <1>2 DEF GetManagedObjects, Signal
    <2> QED  BY <1>2, <2>1 DEF GetManagedObjects, Honesty, SignalsHonest, mmVars
  <1>3. ASSUME NEW x, ReadModem(x), Honest(x.object), adding = None,
               UNCHANGED <<object, entries>>, toAdd' \subseteq toAdd, SignalsHonest'
        PROVE  Honesty'
    <2>1. Honest(adding'.object) /\ adding'.entry.imei = adding'.object.imei
      BY <1>3 DEF ReadModem
    <2> QED  BY <1>3, <2>1 DEF Honesty
  <1>4. CASE ReadListed
    <2>1. PICK x \in toAdd : toAdd' = toAdd \ {x} /\ ReadModem(x)
      BY <1>4 DEF ReadListed
    <2>2. Honest(x.object)
      BY DEF Honesty
    <2>3. UNCHANGED <<object, entries, sigs>> /\ adding = None
      BY <1>4 DEF ReadListed, mmVars
    <2>4. SignalsHonest'
      BY <2>3 DEF Honesty, SignalsHonest
    <2> QED  BY <1>3, <2>1, <2>2, <2>3, <2>4
  <1>5. CASE ReadAnnounced
    <2>1. PICK x : x = Head(sigs)
      OBVIOUS
    <2>2. /\ UNCHANGED <<object, entries, toAdd>> /\ adding = None
          /\ sigs # <<>> /\ sigs' = Tail(sigs) /\ ReadModem(x) /\ x.type = "InterfacesAdded"
      BY <1>5, <2>1 DEF ReadAnnounced, mmVars
    <2>3. SignalsHonest' /\ Honest(x.object)
      BY <2>1, <2>2, HonestTaken DEF Honesty
    <2> QED  BY <1>3, <2>2, <2>3
  <1>6. CASE EnterModem
    <2> DEFINE d == adding.object.dev
               e == adding.entry
    <2>1. /\ adding # None /\ adding' = None /\ entries' = [entries EXCEPT ![d] = e]
          /\ UNCHANGED <<object, toAdd, sigs>>
      BY <1>6 DEF EnterModem, mmVars
    <2>2. adding.object.module \in Modules /\ Of(d, e.imei, adding.object.module)
      BY <2>1 DEF Honesty, Honest, Reading, Object
    <2> HIDE DEF d, e
    <2>3. ASSUME NEW c \in Ids, entries'[c] # None
          PROVE  \E m \in Modules : Of(c, entries'[c].imei, m)
      BY <2>1, <2>2, <2>3 DEF Honesty
    <2> QED  BY <2>1, <2>3 DEF Honesty, SignalsHonest
  <1>7. ASSUME NEW type, Next1(type), UNCHANGED <<object, toAdd, adding>>,
               \A d \in Ids : entries'[d] # None =>
                   entries[d] # None /\ entries'[d].imei = entries[d].imei
        PROVE  Honesty'
    <2>1. SignalsHonest'
      BY <1>7, HonestTaken DEF Next1, Honesty
    <2> QED  BY <1>7, <2>1 DEF Honesty
  <1>8. CASE OnModemRemoved
    <2>1. \A d \in Ids : entries'[d] # None => entries'[d] = entries[d]
      BY <1>8 DEF OnModemRemoved
    <2> QED  BY <1>7, <1>8, <2>1 DEF OnModemRemoved, mmVars
  <1>9. CASE OnModemChanged
    <2> DEFINE d == byPath[Head(sigs).path]
    <2>1. \/ UNCHANGED entries
          \/ entries[d] # None /\ \E s : entries' = [entries EXCEPT ![d].sim = s]
      BY <1>9 DEF OnModemChanged
    <2> HIDE DEF d
    <2>2. ASSUME NEW s, entries[d] # None, entries' = [entries EXCEPT ![d].sim = s], NEW c \in Ids
          PROVE  entries'[c] # None => entries[c] # None /\ entries'[c].imei = entries[c].imei
      <3>1. CASE c = d
        <4>1. entries[d] \in Entry /\ entries'[c] = [entries[d] EXCEPT !.sim = s]
          BY <2>2, <3>1
        <4> QED  BY <2>2, <3>1, <4>1 DEF Entry
      <3>2. CASE c # d
        BY <2>2, <3>2
      <3> QED  BY <3>1, <3>2
    <2>3. \A c \in Ids : entries'[c] # None =>
              entries[c] # None /\ entries'[c].imei = entries[c].imei
      BY <2>1, <2>2
    <2> QED  BY <1>7, <1>9, <2>3 DEF OnModemChanged, mmVars
  <1>10. CASE OnSignal
    BY <1>7, <1>10 DEF OnSignal, mmVars, provVars
  <1> QED  BY <1>1, <1>2, <1>4, <1>5, <1>6, <1>8, <1>9, <1>10 DEF Provider

LEMMA HonestKept ==
    ASSUME TypeOK, Honesty, [Next]_vars
    PROVE  Honesty'
  <1>1. CASE Quiet
    <2>1. UNCHANGED <<object, entries, toAdd, adding, sigs>>
      BY <1>1, QuietLeaves
    <2> QED  BY <2>1 DEF Honesty, SignalsHonest
  <1> QED  BY <1>1, HonestAround, HonestProvider DEF Next, Quiet

(* The events say the truth about their modem.  That a report is filed     *)
(* under the modem that made it needs that signals find their modem.       *)
LEMMA EventsEmitted ==
    ASSUME TypeOK, RoutesAreKnown, Phases, Homeward, Honesty, EventsOf, Provider
    PROVE  EventsOf'
  <1> USE DEF TypeOK, ProviderTypeOK
  <1>0. ASSUME UNCHANGED events PROVE EventsOf'
    BY <1>0 DEF EventsOf, EventOf
  <1>1. CASE Start \/ GetManagedObjects \/ ReadListed \/ ReadAnnounced \/ Listen
    BY <1>0, <1>1 DEF Start, GetManagedObjects, ReadListed, ReadAnnounced, Listen
  <1>2. ASSUME NEW x \in EventType, EventOf(x), Emit(<<x>>) PROVE EventsOf'
    BY <1>2, EmitsOf
  <1>3. CASE EnterModem
    <2> DEFINE d == adding.object.dev
               e == adding.entry
               m == adding.object.module
               x == Event("ModemAdded", d, e, m)
    <2>1. d \in Ids /\ e \in Entry /\ m \in Modules /\ Of(d, e.imei, m)
      BY <1>3 DEF EnterModem, Object, Reading, Honesty, Honest
    <2>2. Emit(<<x>>)
      BY <1>3 DEF EnterModem
    <2>3. x \in EventType /\ EventOf(x)
      <3> HIDE DEF d, e, m
      <3> QED  BY <2>1 DEF Event, EventType, Entry, EventOf
    <2> HIDE DEF x
    <2> QED  BY <1>2, <2>2, <2>3
  <1>4. CASE OnModemRemoved
    <2> DEFINE p == Head(sigs).path
               d == byPath[p]
               x == Event("ModemRemoved", d, NoEntry, None)
    <2>1. p \in Paths
      BY <1>4, HeadType DEF OnModemRemoved, Next1
    <2>2. CASE d = None
      BY <1>0, <1>4, <2>2 DEF OnModemRemoved
    <2>3. CASE d # None
      <3>1. d \in Ids /\ entries[d] # None
        BY <2>1, <2>3 DEF RoutesAreKnown
      <3>2. PICK m \in Modules : Of(d, entries[d].imei, m)
        BY <3>1 DEF Honesty
      <3>3. Emit(<<x>>)
        BY <1>4, <2>3 DEF OnModemRemoved
      <3>4. x \in EventType /\ EventOf(x)
        <4> HIDE DEF d
        <4> QED  BY <3>1, <3>2 DEF Event, EventType, NoEntry, EventOf, Of
      <3> HIDE DEF x
      <3> QED  BY <1>2, <3>3, <3>4
    <2> QED  BY <2>2, <2>3
  <1>5. CASE OnModemChanged
    <2> DEFINE p == Head(sigs).path
               s == Head(sigs).sim
               d == byPath[p]
               e == entries[d]
               Update(t) == Event("ModemUpdated", d, [e EXCEPT !.sim = t], None)
               x == Event("SimUpdated", d, [e EXCEPT !.sim = s], None)
    <2>1. p \in Paths /\ s \in Sims \cup {None}
      BY <1>5, HeadType DEF OnModemChanged, Next1
    <2>2. CASE d = None \/ e = None
      BY <1>0, <1>5, <2>2 DEF OnModemChanged
    <2>3. CASE d # None /\ e # None
      <3>1. d \in Ids /\ e \in Entry
        BY <2>1, <2>3
      <3>2. PICK m \in Modules : Of(d, e.imei, m)
        BY <2>3, <3>1 DEF Honesty
      <3>3. \/ Emit(<<Update(None)>>) \/ Emit(<<Update(e.sim)>>)
            \/ s # None /\ Emit(<<x, Update(s)>>)
        BY <1>5, <2>3 DEF OnModemChanged
      <3> HIDE DEF d, e, p, s
      <3>4. \A t \in Sims \cup {None} : Update(t) \in EventType /\ EventOf(Update(t))
        BY <3>1, <3>2 DEF Event, EventType, Entry, EventOf
      <3>5. s # None => x \in EventType /\ EventOf(x)
        BY <2>1, <3>1, <3>2 DEF Event, EventType, Entry, EventOf
      <3>6. e.sim \in Sims \cup {None}
        BY <3>1 DEF Entry
      <3> HIDE DEF Update, x
      <3>7. ASSUME NEW t \in Sims \cup {None}, Emit(<<Update(t)>>) PROVE EventsOf'
        <4>1. PICK y : y = Update(t)
          OBVIOUS
        <4>2. y \in EventType /\ EventOf(y) /\ Emit(<<y>>)
          BY <3>4, <3>7, <4>1
        <4> QED  BY <1>2, <4>2
      <3>8. ASSUME s # None, Emit(<<x, Update(s)>>) PROVE EventsOf'
        <4>1. PICK y : y = Update(s)
          OBVIOUS
        <4>2. y \in EventType /\ EventOf(y) /\ Emit(<<x, y>>)
          BY <2>1, <3>4, <3>8, <4>1
        <4> QED  BY <3>5, <3>8, <4>2, EmitsOf
      <3> QED  BY <3>3, <3>6, <3>7, <3>8
    <2> QED  BY <2>2, <2>3
  <1>6. CASE OnSignal
    <2> DEFINE o == Head(sigs).object
               p == Head(sigs).path
               d == byPath[p]
               e == entries[d]
               x == Event("SignalSampled", d, e, o.module)
    <2>1. /\ app = "running" /\ adding = None /\ sigs # <<>>
          /\ Head(sigs).type = "Signal" /\ sigs' = Tail(sigs)
      BY <1>6 DEF OnSignal, Next1
    <2>2. p \in Paths /\ o \in Object /\ Head(sigs) = sigs[1] /\ 1 \in DOMAIN sigs
      BY <2>1, HeadType DEF OfModem
    <2>3. Honest(o)
      BY <2>1, HonestTaken DEF OfModem, Honesty
    <2>4. byPath[p] \in {None, o.dev}
      <3>1. Leads(p, o, 1) /\ toAdd = {}
        BY <2>1, <2>2 DEF OfModem, Homeward, Phases
      <3>2. Route(p, o)
        BY <3>1 DEF Leads
      <3> QED  BY <2>1, <3>1, <3>2 DEF Route
    <2>5. CASE d = None \/ e = None
      BY <1>0, <1>6, <2>5 DEF OnSignal
    <2>6. CASE d # None /\ e # None
      <3>1. d \in Ids /\ e \in Entry /\ d = o.dev
        BY <2>2, <2>4, <2>6
      <3>2. PICK m \in Modules : Of(d, e.imei, m)
        BY <2>6, <3>1 DEF Honesty
      <3>3. Emit(<<x>>)
        BY <1>6, <2>6 DEF OnSignal
      <3> HIDE DEF d, e, o, p
      <3>4. o.module \in Modules /\ d \in IdsOf[o.module]
        BY <2>2, <2>3, <3>1 DEF Object, Honest, Of
      <3>5. x \in EventType /\ EventOf(x)
        BY <3>1, <3>2, <3>4 DEF Event, EventType, Entry, EventOf
      <3> HIDE DEF x
      <3> QED  BY <1>2, <3>3, <3>5
    <2> QED  BY <2>5, <2>6
  <1> QED  BY <1>1, <1>3, <1>4, <1>5, <1>6 DEF Provider

LEMMA EventsKept ==
    ASSUME IInv, Phases, Homeward, Honesty, EventsOf, [Next]_vars
    PROVE  EventsOf'
  <1> USE DEF IInv, TypeOK, ProviderTypeOK
  <1>0. ASSUME UNCHANGED events PROVE EventsOf'
    BY <1>0 DEF EventsOf, EventOf
  <1>1. CASE UNCHANGED vars \/ Http
    BY <1>0, <1>1 DEF vars, Http, DeleteOfflineModem, DeleteUnusedSIM
  <1>2. CASE Environment
    <2>1. UNCHANGED events \/ events' = <<>>
      BY <1>2 DEF Environment, Plug, Unplug, SwapSim, MMRestart, Report, Crash
    <2> QED  BY <1>0, <2>1 DEF EventsOf
  <1>3. CASE Runner
    <2>1. UNCHANGED events \/ (events # <<>> /\ events' = Tail(events))
      BY <1>3 DEF Runner, HandleModem, HandleSim, Bind, HandleRemoved, ForgetModem,
                  HandleSample, SweepLooks, MarkStaleModemsAbsent, Take
    <2>2. CASE events # <<>> /\ events' = Tail(events)
      <3>1. \A k \in DOMAIN events' : k+1 \in DOMAIN events /\ events'[k] = events[k+1]
        BY <2>2
      <3> QED  BY <3>1 DEF EventsOf, EventOf
    <2> QED  BY <1>0, <2>1, <2>2
  <1> QED  BY <1>1, <1>2, <1>3, EventsEmitted DEF Next

(* A statement that rekeys no row, while the cache forgets or not.         *)
LEMMA RowsLeft ==
    ASSUME IInv, IInv', RowsOf,
           DOMAIN modems' \subseteq DOMAIN modems,
           \A i \in DOMAIN modems' : modems'[i].dev = modems[i].dev /\ modems'[i].imei = modems[i].imei,
           \A d \in Ids : modemIDs'[d] \in {modemIDs[d], 0}
    PROVE  RowsOf'
  <1>1. 0 \notin DOMAIN modems'
    BY DEF IInv, TypeOK, DbTypeOK, Table
  <1>2. \A i \in DOMAIN modems' : \E m \in Modules : Of(modems'[i].dev, modems'[i].imei, m)
    BY DEF RowsOf
  <1>3. ASSUME NEW d \in Ids, modemIDs'[d] \in DOMAIN modems'
        PROVE  \E m \in Modules : d \in IdsOf[m] /\ modems'[modemIDs'[d]].dev \in IdsOf[m]
    <2>1. modemIDs'[d] = modemIDs[d]
      BY <1>1, <1>3
    <2> QED  BY <1>3, <2>1 DEF RowsOf
  <1> QED  BY <1>2, <1>3 DEF RowsOf, Of

(* The id getModemID returns is that of a row of the same module.          *)
LEMMA FoundRow ==
    ASSUME IInv, RowsOf, NEW d \in Ids, NEW n \in Modules, d \in IdsOf[n],
           ModemID(d) \in DOMAIN modems
    PROVE  \E m \in Modules : d \in IdsOf[m] /\ modems[ModemID(d)].dev \in IdsOf[m]
  <1>1. CASE modemIDs[d] # 0
    BY <1>1 DEF ModemID, RowsOf
  <1>2. CASE modemIDs[d] = 0
    <2>1. 0 \notin DOMAIN modems
      BY DEF IInv, TypeOK, DbTypeOK, Table
    <2>2. WithDevice(modems, d) # {} /\ ModemID(d) \in WithDevice(modems, d)
      BY <1>2, <2>1 DEF ModemID, ModemIDByDevice
    <2> QED  BY <2>2 DEF WithDevice
  <1> QED  BY <1>1, <1>2

LEMMA RowsCached ==
    ASSUME IInv, RowsOf, NEW d \in Ids, NEW n \in Modules, d \in IdsOf[n],
           modemIDs' = [modemIDs EXCEPT ![d] = ModemID(d)], UNCHANGED modems
    PROVE  RowsOf'
  <1>1. \A c \in Ids : modemIDs'[c] = IF c = d THEN ModemID(d) ELSE modemIDs[c]
    BY DEF IInv, TypeOK, RunnerTypeOK
  <1>2. ASSUME NEW c \in Ids, modemIDs'[c] \in DOMAIN modems
        PROVE  \E m \in Modules : c \in IdsOf[m] /\ modems[modemIDs'[c]].dev \in IdsOf[m]
    BY <1>1, <1>2, FoundRow DEF RowsOf
  <1> QED  BY <1>2 DEF RowsOf, Of

(* UpsertModem: the row it updates is one of the same module.              *)
LEMMA RowsUpserted ==
    ASSUME IInv, RowsOf, NEW d \in Ids, NEW w \in Modules \cup {None}, NEW m \in Modules,
           Of(d, w, m), modems' = Upserted(modems, lastModem, d, w),
           modemIDs' = [modemIDs EXCEPT ![d] = UpsertedId(modems, lastModem, d, w)]
    PROVE  RowsOf'
  <1> DEFINE r == [dev |-> d, imei |-> w, present |-> TRUE]
  <1> USE DEF IInv, TypeOK, DbTypeOK
  <1>1. PICK i : i = UpsertedId(modems, lastModem, d, w)
    OBVIOUS
  <1>2. modems' = WithRow(modems, i, r)
    BY <1>1 DEF Upserted
  <1>3. r.dev = d /\ r.imei = w
    OBVIOUS
  <1> HIDE DEF r
  <1>4. /\ DOMAIN modems' = DOMAIN modems \cup {i}
        /\ modems'[i] = r
        /\ \A j \in DOMAIN modems : j # i => modems'[j] = modems[j]
    BY <1>2 DEF WithRow
  <1>5. \A c \in Ids : modemIDs'[c] = IF c = d THEN i ELSE modemIDs[c]
    BY <1>1 DEF RunnerTypeOK
  <1>6. \A j \in DOMAIN modems' : \E n \in Modules : Of(modems'[j].dev, modems'[j].imei, n)
    BY <1>3, <1>4 DEF RowsOf
  <1>7. i \in DOMAIN modems => modems[i].dev \in IdsOf[m]
    <2> SUFFICES ASSUME i \in DOMAIN modems PROVE modems[i].dev \in IdsOf[m]
      OBVIOUS
    <2>1. i # lastModem + 1
      OBVIOUS
    <2>2. i \in Conflict(modems, d, w)
      BY <1>1, <2>1 DEF UpsertedId
    <2>3. CASE w = None
      BY <2>2, <2>3 DEF Conflict, WithDevice, Of
    <2>4. CASE w # None
      <3>1. w = m /\ modems[i].imei = m
        BY <2>2, <2>4 DEF Conflict, WithImei, Of
      <3> QED  BY <3>1, NoneIsNothing DEF RowsOf, Of
    <2> QED  BY <2>3, <2>4
  <1>8. ASSUME NEW c \in Ids, modemIDs'[c] \in DOMAIN modems'
        PROVE  \E n \in Modules : c \in IdsOf[n] /\ modems'[modemIDs'[c]].dev \in IdsOf[n]
    <2>1. CASE c = d
      BY <1>3, <1>4, <1>5, <2>1 DEF Of
    <2>2. CASE c # d
      <3>1. modemIDs'[c] = modemIDs[c]
        BY <1>5, <2>2
      <3>2. CASE modemIDs[c] # i
        BY <1>4, <1>8, <3>1, <3>2 DEF RowsOf
      <3>3. CASE modemIDs[c] = i
        <4>1. modemIDs[c] \in 0..lastModem /\ lastModem \in Nat
          BY DEF RunnerTypeOK
        <4>2. i # lastModem + 1
          BY <3>3, <4>1
        <4>3. i \in Conflict(modems, d, w)
          BY <1>1, <4>2 DEF UpsertedId
        <4>4. i \in DOMAIN modems
          BY <4>3 DEF Conflict, WithDevice, WithImei
        <4>5. PICK n \in Modules : c \in IdsOf[n] /\ modems[i].dev \in IdsOf[n]
          BY <3>3, <4>4 DEF RowsOf
        <4>6. n = m
          BY <1>7, <4>4, <4>5, OneModule
        <4> QED  BY <1>3, <1>4, <3>1, <3>3, <4>5, <4>6 DEF Of
      <3> QED  BY <3>2, <3>3
    <2> QED  BY <2>1, <2>2
  <1> QED  BY <1>6, <1>8 DEF RowsOf, Of

LEMMA RowsKept ==
    ASSUME IInv, IInv', EventsOf, RowsOf, [Next]_vars
    PROVE  RowsOf'
  <1> USE DEF IInv, TypeOK
  <1>0. ASSUME UNCHANGED <<modems, modemIDs>> PROVE RowsOf'
    BY <1>0 DEF RowsOf, Of
  <1>1. CASE UNCHANGED vars \/ Provider
    BY <1>0, <1>1 DEF vars, runVars, cacheVars, dbVars, boundVars, Provider, Start,
                     GetManagedObjects, ReadListed, ReadAnnounced, EnterModem, Listen,
                     OnModemRemoved, OnModemChanged, OnSignal
  <1>2. CASE Environment
    <2>1. CASE Crash
      <3>1. modems' = modems /\ \A d \in Ids : modemIDs'[d] = 0
        BY <2>1 DEF Crash, dbVars
      <3> QED  BY <3>1, RowsLeft
    <2>2. CASE ~Crash
      BY <1>0, <1>2, <2>2 DEF Environment, Plug, Unplug, SwapSim, MMRestart, Report,
                             runVars, cacheVars, dbVars
    <2> QED  BY <2>1, <2>2
  <1>3. CASE Http
    <2>1. modemIDs' = modemIDs /\ (modems' = modems \/ \E i : modems' = Without(modems, {i}))
      BY <1>3 DEF Http, DeleteOfflineModem, DeleteUnusedSIM, cacheVars
    <2>2. CASE modems' = modems
      BY <1>0, <2>1, <2>2
    <2>3. ASSUME NEW i, modems' = Without(modems, {i}) PROVE RowsOf'
      <3>1. /\ DOMAIN modems' \subseteq DOMAIN modems
            /\ \A j \in DOMAIN modems' : modems'[j] = modems[j]
        BY <2>3 DEF Without
      <3> QED  BY <2>1, <3>1, RowsLeft
    <2> QED  BY <2>1, <2>2, <2>3
  <1>4. ASSUME NEW D, modems' = MarkedAbsent(modems, D), UNCHANGED modemIDs PROVE RowsOf'
    <2>1. DOMAIN modems' = DOMAIN modems
      BY <1>4 DEF MarkedAbsent
    <2>2. \A j \in DOMAIN modems :
             modems'[j].dev = modems[j].dev /\ modems'[j].imei = modems[j].imei
      <3> TAKE j \in DOMAIN modems
      <3>1. modems[j] \in ModemRow
        BY DEF DbTypeOK, Table
      <3>2. modems'[j] = modems[j] \/ modems'[j] = [modems[j] EXCEPT !.present = FALSE]
        BY <1>4 DEF MarkedAbsent
      <3> QED  BY <3>1, <3>2 DEF ModemRow
    <2> QED  BY <1>4, <2>1, <2>2, RowsLeft
  <1>5. CASE Runner
    <2>0. ASSUME NEW kinds, Take(kinds)
          PROVE  \E e \in EventType : e = Head(events) /\ EventOf(e)
      <3>1. events # <<>> /\ Head(events) = events[1] /\ 1 \in DOMAIN events
        BY <2>0 DEF Take, ProviderTypeOK
      <3> QED  BY <3>1 DEF EventsOf, ProviderTypeOK
    <2>1. CASE HandleModem
      <3>1. PICK e \in EventType : e = Head(events) /\ EventOf(e)
        BY <2>0, <2>1 DEF HandleModem
      <3>2. PICK m \in Modules : Of(e.dev, e.imei, m)
        BY <3>1 DEF EventOf
      <3>3. e.dev \in Ids /\ e.imei \in Modules \cup {None}
        BY <3>1 DEF EventType
      <3>4. CASE UpsertFails(modems, e.dev, e.imei)
        BY <1>0, <2>1, <3>1, <3>4 DEF HandleModem, cacheVars
      <3>5. CASE ~UpsertFails(modems, e.dev, e.imei)
        <4>1. /\ modems' = Upserted(modems, lastModem, e.dev, e.imei)
              /\ modemIDs' = [modemIDs EXCEPT ![e.dev] =
                                 UpsertedId(modems, lastModem, e.dev, e.imei)]
          BY <2>1, <3>1, <3>5 DEF HandleModem
        <4> QED  BY <3>2, <3>3, <4>1, RowsUpserted
      <3> QED  BY <3>4, <3>5
    <2>2. CASE HandleSim \/ HandleSample
      <3>1. PICK e \in EventType : e = Head(events) /\ EventOf(e)
        BY <2>0, <2>2 DEF HandleSim, HandleSample
      <3>2. PICK m \in Modules : Of(e.dev, e.imei, m)
        BY <3>1 DEF EventOf
      <3>3. e.dev \in Ids /\ e.dev \in IdsOf[m]
        BY <3>1, <3>2 DEF EventType, Of
      <3>4. modemIDs' = [modemIDs EXCEPT ![e.dev] = ModemID(e.dev)] /\ UNCHANGED modems
        BY <2>2, <3>1 DEF HandleSim, HandleSample, SampleRow
      <3> QED  BY <3>3, <3>4, RowsCached
    <2>3. CASE HandleRemoved \/ MarkStaleModemsAbsent
      BY <1>4, <2>3 DEF HandleRemoved, MarkStaleModemsAbsent, cacheVars
    <2>4. CASE ForgetModem
      <3>1. modems' = modems /\ modemIDs' = [modemIDs EXCEPT ![task.dev] = 0]
        BY <2>4 DEF ForgetModem
      <3>2. \A d \in Ids : modemIDs'[d] \in {modemIDs[d], 0}
        BY <3>1 DEF RunnerTypeOK
      <3> QED  BY <3>1, <3>2, RowsLeft
    <2>5. CASE Bind \/ SweepLooks
      BY <1>0, <2>5 DEF Bind, SweepLooks, cacheVars, dbVars
    <2> QED  BY <1>5, <2>1, <2>2, <2>3, <2>4, <2>5 DEF Runner
  <1> QED  BY <1>1, <1>2, <1>3, <1>5 DEF Next

(* Nothing the registry holds mixes two modules: an object, an entry, an   *)
(* event or a row names one module, by its identifier and by its IMEI, and *)
(* a cached id leads to a row of the module it is cached for, through      *)
(* every re-enumeration, renumbering of paths, conflict and deletion.      *)
Unmixed == Honesty /\ EventsOf /\ RowsOf

THEOREM NoTwoModulesMix == Spec => []Unmixed
  <1>1. Init => Unmixed
    <2> SUFFICES ASSUME Init PROVE Unmixed
      OBVIOUS
    <2>1. Honesty
      BY DEF Init, Honesty, SignalsHonest
    <2>2. EventsOf /\ RowsOf
      BY DEF Init, EventsOf, RowsOf, EmptyTable
    <2> QED  BY <2>1, <2>2 DEF Unmixed
  <1>2. IInv /\ IInv' /\ Phases /\ Homeward /\ Unmixed /\ [Next]_vars => Unmixed'
    <2> SUFFICES ASSUME IInv, IInv', Phases, Homeward, Unmixed, [Next]_vars
                 PROVE  Unmixed'
      OBVIOUS
    <2>1. Honesty'
      BY HonestKept DEF Unmixed, IInv
    <2>2. EventsOf'
      BY EventsKept DEF Unmixed
    <2>3. RowsOf'
      BY RowsKept DEF Unmixed
    <2> QED  BY <2>1, <2>2, <2>3 DEF Unmixed
  <1>3. Spec => []IInv
    BY InitIInv, NextIInv, PTL DEF Spec
  <1> QED  BY <1>1, <1>2, <1>3, SignalsFindTheirModem, PTL DEF Spec

(* A sample the runner files goes to a row of the module that measured it, *)
(* however identifiers, paths, rows and cached ids have changed since.     *)
THEOREM SamplesStayHome == Spec => []FiledUnderItsModem
  <1>1. IInv /\ Unmixed => FiledUnderItsModem
    <2> SUFFICES ASSUME IInv, Unmixed, Filing
                 PROVE  LET i == SampleRow(Head(events)).modem
                        IN  /\ modems[i].dev \in IdsOf[Head(events).module]
                            /\ modems[i].imei \in {Head(events).module, None}
      BY DEF FiledUnderItsModem
    <2>0. events # <<>> /\ Head(events).kind = "SignalSampled" /\ CanFile(SampleRow(Head(events)))
      BY DEF Filing
    <2> USE DEF IInv, TypeOK, ProviderTypeOK
    <2>1. PICK e \in EventType : e = Head(events) /\ e = events[1]
      BY <2>0
    <2>2. EventOf(e)
      BY <2>0, <2>1 DEF Unmixed, EventsOf
    <2>3. PICK i : i = ModemID(e.dev)
      OBVIOUS
    <2>4. i \in DOMAIN modems /\ SampleRow(e).modem = i
      BY <2>0, <2>1, <2>3 DEF CanFile, SampleRow
    <2>5. PICK n \in Modules : Of(e.dev, e.imei, n)
      BY <2>2 DEF EventOf
    <2>6. e.dev \in Ids /\ e.dev \in IdsOf[n] /\ e.module \in Modules \cup {None}
      BY <2>1, <2>5 DEF EventType, Of
    <2>7. PICK m \in Modules : e.dev \in IdsOf[m] /\ modems[i].dev \in IdsOf[m]
      BY <2>3, <2>4, <2>6, FoundRow DEF Unmixed
    <2>8. e.module \in Modules /\ e.dev \in IdsOf[e.module]
      BY <2>0, <2>1, <2>2 DEF EventOf
    <2>9. PICK k \in Modules : Of(modems[i].dev, modems[i].imei, k)
      BY <2>4 DEF Unmixed, RowsOf
    <2>10. k = m /\ m = e.module
      BY <2>7, <2>8, <2>9, OneModule DEF Of
    <2> QED  BY <2>1, <2>4, <2>7, <2>9, <2>10 DEF Of
  <1>2. Spec => []IInv
    BY InitIInv, NextIInv, PTL DEF Spec
  <1> QED  BY <1>1, <1>2, NoTwoModulesMix, PTL

-----------------------------------------------------------------------------
(* The last word.  What the runner has handled, and will have handled when *)
(* it comes to an event, is what the provider said last of the module.     *)

Sure(d) == d \notin unsure

Leaving(d) ==
    \E k \in DOMAIN events : events[k].dev = d /\ events[k].kind = "ModemRemoved"

Binding(d) == task.at = "bind" /\ task.dev = d

\* No other identifier of the module has been handled since d.
Kept(d) ==
    /\ modemIDs[d] # 0
    /\ modemIDs[d] \in DOMAIN modems => modems[modemIDs[d]].dev = d
    /\ task.at \in {"bind", "forget"} =>
          \/ task.dev \notin Siblings(d)
          \/ Binding(d) /\ task.row = modemIDs[d]

\* The runner has the SIM s for d ...
Holds(d, s) ==
    /\ s = None =>
          simIDs[d] = 0 /\ modemIDs[d] \notin DOMAIN bound /\ ~Binding(d)
    /\ s \in Sims \ Locked =>
          IF Binding(d) THEN task.sim = s
          ELSE simIDs[d] # 0 /\ (simIDs[d] \in DOMAIN sims => sims[simIDs[d]] = s)

\* ... and the tables show it.
Shown(d, s) ==
    /\ modemIDs[d] \in DOMAIN modems /\ modems[modemIDs[d]].present
    /\ s \in Sims \ Locked =>
          \/ Binding(d)
          \/ modemIDs[d] \in DOMAIN bound /\ sims[bound[modemIDs[d]]] = s

Online(d, s) == Kept(d) /\ Holds(d, s) /\ (Leaving(d) \/ Shown(d, s))

\* Before event k, the last of the module is of d with the SIM s.
Stand(d, k, s) ==
    \/ \E j \in 1..k-1 :
          /\ events[j].dev = d /\ events[j].kind # "ModemRemoved" /\ events[j].sim = s
          /\ \A l \in j+1..k-1 : events[l].dev \notin Siblings(d)
    \/ (\A j \in 1..k-1 : events[j].dev \notin Siblings(d)) /\ Online(d, s)

\* What is said of a modem follows on what was said of it.
FollowsOn(k) ==
    \E s \in Sims \cup {None} :
        /\ Stand(events[k].dev, k, s)
        /\ events[k].kind = "SignalSampled" => events[k].sim = s

Following == {"SimUpdated", "SignalSampled"}

Continued ==
    \A k \in DOMAIN events :
        events[k].kind \in Following /\ Sure(events[k].dev) => FollowsOn(k)

\* All that was said of the module ends with what the provider has of d.
Current(d) == Sure(d) => Stand(d, Len(events) + 1, entries[d].sim)

\* The path q leads, or is about to be led, to a modem of the module m.
LedNow(q, m) ==
    \/ \E x \in toAdd : x.path = q /\ x.object.module = m
    \/ /\ \A x \in toAdd : x.path # q
       /\ \/ adding # None /\ adding.path = q /\ adding.object.module = m
          \/ (adding # None => adding.path # q) /\ byPath[q] \in IdsOf[m]

\* It will when signal j comes.
Led(q, j, m) ==
    \/ \E k \in 1..j-1 : /\ Announced(q, k) /\ sigs[k].object.module = m
                         /\ \A l \in k+1..j-1 : ~Announced(q, l)
    \/ (\A k \in 1..j-1 : ~Announced(q, k)) /\ LedNow(q, m)

\* Signal k has the module m told of elsewhere than at p.
Elsewhere(k, p, m) ==
    \/ sigs[k].type = "InterfacesAdded" /\ sigs[k].object.module = m
    \/ sigs[k].type = "InterfacesRemoved" /\ sigs[k].path = p
    \/ /\ sigs[k].type # "InterfacesAdded" /\ sigs[k].path # p
       /\ Led(sigs[k].path, k, m)

\* What comes before the signals ends with o at p, if p leads to it at all.
Ends(p, o) ==
    /\ \A x \in toAdd : x.object.module = o.module => x.path = p
    /\ (\A x \in toAdd : x.path # p) =>
          /\ adding # None /\ adding.object.module = o.module => adding.path = p
          /\ (adding # None => adding.path # p) =>
                (entries[o.dev] # None /\ entries[o.dev].path = p => Current(o.dev))

\* So does what comes before place i of the queue.
Newest(p, o, i) ==
    /\ \A k \in 1..i-1 : Elsewhere(k, p, o.module) =>
          \E l \in k..i-1 : Announced(p, l) /\ sigs[l].object = o
    /\ (\A k \in 1..i-1 : ~Announced(p, k) /\ ~Elsewhere(k, p, o.module)) => Ends(p, o)

\* The objects that are there, after all signals, and those of the signals.
Claim(p, o, i) ==
    \/ object[p] = o /\ o # None /\ i = Len(sigs) + 1
    \/ /\ i \in DOMAIN sigs /\ sigs[i].type \in OfModem
       /\ sigs[i].path = p /\ sigs[i].object = o

Foremost == app # "down" =>
    \A p \in Paths : \A o \in Object : \A i \in 1..Len(sigs)+1 :
        Claim(p, o, i) => Newest(p, o, i)

\* One object per module, and per path in the list.
Apart ==
    /\ \A p, q \in Paths :
          object[p] # None /\ object[q] # None /\ object[p].module = object[q].module => p = q
    /\ \A x, y \in toAdd :
          x.path = y.path \/ x.object.module = y.object.module => x = y

\* What the provider and the runner have not done yet while they start.
Silent ==
    /\ app \in {"down", "matching"} => events = <<>> /\ \A d \in Ids : entries[d] = None
    /\ app = "down" => task = Idle

\* What is lost for one identifier is lost for all of the module.
Families == \A d \in unsure : Siblings(d) \subseteq unsure

\* What is said of a modem the provider no longer has ends with its leaving.
Tidings ==
    \A k \in DOMAIN events : Sure(events[k].dev) /\ entries[events[k].dev] = None =>
        \E l \in k..Len(events) :
            events[l].dev = events[k].dev /\ events[l].kind = "ModemRemoved"

\* A row that is online after the sweep is that of a modem the provider has,
\* or else will hear that it left.
Swept == sweep = "done" =>
    \A i \in DOMAIN modems :
        modems[i].present /\ entries[modems[i].dev] = None /\ Sure(modems[i].dev) =>
            \/ Leaving(modems[i].dev)
            \/ task.at = "sweep" /\ modems[i].dev \notin task.seen

\* What the sweep did not see has left, is yet to be added, or is not there.
Arriving(d) ==
    \E k \in DOMAIN events : /\ events[k].dev = d /\ events[k].kind = "ModemAdded"
                             /\ \A j \in 1..k-1 : events[j].dev # d

Absent(d) == entries[d] = None /\ \A k \in DOMAIN events : events[k].dev # d

Unseen == task.at = "sweep" =>
    \A d \in Ids \ task.seen : Sure(d) => Leaving(d) \/ Arriving(d) \/ Absent(d)

\* A row that is offline is not bound, unless the statement that unbinds it
\* is on its way, or did not come before a crash.
Loose ==
    \A i \in DOMAIN bound : ~modems[i].present =>
        \/ i \in scars \/ ~Sure(modems[i].dev) \/ Leaving(modems[i].dev)
        \/ task.at = "forget" /\ task.dev = modems[i].dev

\* A row that is about to be bound is that of the modem, and online.
Bindable == task.at = "bind" /\ task.row \in DOMAIN modems =>
    /\ modems[task.row].dev \in Siblings(task.dev)
    /\ Sure(task.dev) => /\ modems[task.row].dev = task.dev
                         /\ modems[task.row].present \/ Leaving(task.dev)

\* The unique indexes, and the cache against them.
ModemKeys ==
    /\ \A i, j \in DOMAIN modems : modems[i].dev = modems[j].dev => i = j
    /\ \A i, j \in DOMAIN modems :
          modems[i].imei # None /\ modems[i].imei = modems[j].imei => i = j

SimKeys == \A i, j \in DOMAIN sims : sims[i] = sims[j] => i = j

Cached ==
    \A d \in Ids : modemIDs[d] # 0 =>
        \A i \in DOMAIN modems : modems[i].dev = d => modemIDs[d] = i

(* Every signal names a path.                                              *)
LEMMA HeadPaths ==
    ASSUME TypeOK
    PROVE  \A k \in 1..Len(sigs) : sigs[k].path \in Paths
  BY DEF TypeOK, ProviderTypeOK, SignalType, Announcement

(* A queue that grows leads where it led.                                  *)
LEMMA LedOn ==
    ASSUME TypeOK, UNCHANGED <<toAdd, adding, byPath>>, NEW x, sigs' = Append(sigs, x),
           NEW q, NEW m, NEW j \in 1..Len(sigs)+1
    PROVE  Led(q, j, m)' <=> Led(q, j, m)
  <1>1. \A k \in 1..j-1 : sigs'[k] = sigs[k]
    BY DEF TypeOK, ProviderTypeOK
  <1>2. \A k \in 1..j-1 : Announced(q, k)' <=> Announced(q, k)
    BY <1>1 DEF Announced
  <1>3. LedNow(q, m)' <=> LedNow(q, m)
    BY DEF LedNow
  <1>4. \A k \in 1..j-1 : \A l \in k+1..j-1 : l \in 1..j-1
    OBVIOUS
  <1> HIDE DEF Announced
  <1> QED  BY <1>1, <1>2, <1>3, <1>4 DEF Led

(* Nor does it change which signals are about the module elsewhere.        *)
LEMMA ElsewhereOn ==
    ASSUME TypeOK, UNCHANGED <<toAdd, adding, byPath>>, NEW x, sigs' = Append(sigs, x),
           NEW p, NEW m, NEW k \in 1..Len(sigs)
    PROVE  Elsewhere(k, p, m)' <=> Elsewhere(k, p, m)
  <1>1. sigs'[k] = sigs[k] /\ k \in 1..Len(sigs)+1
    BY DEF TypeOK, ProviderTypeOK
  <1>2. PICK q : q = sigs[k].path
    OBVIOUS
  <1>3. Led(q, k, m)' <=> Led(q, k, m)
    BY <1>1, LedOn
  <1> QED  BY <1>1, <1>2, <1>3 DEF Elsewhere

(* Nothing that Ends speaks of has changed.                                *)
LEMMA EndsOn ==
    ASSUME UNCHANGED <<toAdd, adding, entries, events, unsure, task, modemIDs, simIDs,
                       modems, sims, bound>>,
           NEW p, NEW o
    PROVE  Ends(p, o)' <=> Ends(p, o)
  <1>1. \A d, s : Online(d, s)' <=> Online(d, s)
    BY DEF Online, Kept, Holds, Shown, Leaving, Binding
  <1>2. \A d, k, s : Stand(d, k, s)' <=> Stand(d, k, s)
    BY <1>1 DEF Stand
  <1>3. PICK c, s, n : c = o.dev /\ s = entries[o.dev].sim /\ n = Len(events) + 1
    OBVIOUS
  <1>4. Current(o.dev)' <=> Current(o.dev)
    BY <1>2, <1>3 DEF Current, Sure
  <1> QED  BY <1>4 DEF Ends

(* What does not touch what the provider and the runner know.              *)
Untouched == UNCHANGED <<toAdd, adding, byPath, entries, events, unsure, task, modemIDs,
                         simIDs, modems, sims, bound>>

(* What holds of a place of the queue does not depend on what is added.    *)
LEMMA NewestOn ==
    ASSUME TypeOK, Untouched, NEW x, sigs' = Append(sigs, x),
           NEW p, NEW o, NEW i \in 1..Len(sigs)+1, Newest(p, o, i)
    PROVE  Newest(p, o, i)'
  <1>0. /\ \A k \in 1..i-1 : sigs'[k] = sigs[k]
        /\ \A k \in 1..i-1 : k \in 1..Len(sigs) /\ \A l \in k..i-1 : l \in 1..i-1
    BY DEF TypeOK, ProviderTypeOK
  <1>1. \A k \in 1..i-1 : Announced(p, k)' <=> Announced(p, k)
    BY <1>0 DEF Announced
  <1>2. PICK m : m = o.module
    OBVIOUS
  <1>3. \A k \in 1..i-1 : Elsewhere(k, p, m)' <=> Elsewhere(k, p, m)
    BY <1>0, ElsewhereOn DEF Untouched
  <1>4. Ends(p, o)' <=> Ends(p, o)
    BY EndsOn DEF Untouched
  <1> QED  BY <1>0, <1>1, <1>2, <1>3, <1>4 DEF Newest

(* The signal added is not for the module, or announces it.                *)
LEMMA NewestPast ==
    ASSUME TypeOK, Untouched, NEW x, sigs' = Append(sigs, x),
           NEW p, NEW o, NEW n, n = Len(sigs) + 1, Newest(p, o, n),
           ~Announced(p, n)', ~Elsewhere(n, p, o.module)'
    PROVE  Newest(p, o, n + 1)'
  <1>0. /\ n \in Nat /\ n \in 1..Len(sigs)+1 /\ (n+1)-1 = n
        /\ \A k \in 1..n : k = n \/ k \in 1..n-1
        /\ \A k \in 1..n-1 : \A l \in k..n-1 : l \in k..n
        /\ \A k \in 1..n-1 : k \in 1..n
    BY DEF TypeOK, ProviderTypeOK
  <1>1. Newest(p, o, n)'
    BY <1>0, NewestOn
  <1> QED  BY <1>0, <1>1 DEF Newest

(* The signal added announces the modem itself.                            *)
LEMMA NewestFresh ==
    ASSUME TypeOK, NEW x, sigs' = Append(sigs, x), NEW p, NEW o, NEW n, n = Len(sigs) + 1,
           x.type = "InterfacesAdded", x.path = p, x.object = o
    PROVE  Newest(p, o, n + 1)'
  <1>1. /\ n \in Nat /\ n \in 1..n /\ (n+1)-1 = n /\ sigs'[n] = x
        /\ \A k \in 1..n : n \in k..n
    BY DEF TypeOK, ProviderTypeOK
  <1>2. Announced(p, n)' /\ sigs'[n].object = o
    BY <1>1 DEF Announced
  <1> QED  BY <1>1, <1>2 DEF Newest

(* The queue stays.                                                        *)
LEMMA NewestStill ==
    ASSUME UNCHANGED sigs, TypeOK, NEW p, NEW o,
           \A q \in Paths \ {p} : LedNow(q, o.module)' => LedNow(q, o.module),
           NEW i \in 1..Len(sigs)+1, Leads(p, o, i), Newest(p, o, i),
           Route(p, o) /\ Ends(p, o) => Ends(p, o)'
    PROVE  Newest(p, o, i)'
  <1>0. PICK m : m = o.module
    OBVIOUS
  <1>1. \A q, k : Announced(q, k)' <=> Announced(q, k)
    BY DEF Announced
  <1>2. \A q \in Paths \ {p} : \A j : Led(q, j, m)' => Led(q, j, m)
    BY <1>0, <1>1 DEF Led
  <1>3. \A k \in 1..i-1 : sigs[k].path \in Paths
    BY HeadPaths
  <1>4. \A k \in 1..i-1 : Elsewhere(k, p, m)' => Elsewhere(k, p, m)
    BY <1>2, <1>3 DEF Elsewhere
  <1>5. ASSUME NEW k \in 1..i-1, Elsewhere(k, p, m)'
        PROVE  \E l \in k..i-1 : Announced(p, l)' /\ sigs'[l].object = o
    BY <1>0, <1>1, <1>4, <1>5 DEF Newest
  <1>6. ASSUME \A k \in 1..i-1 : ~Announced(p, k) /\ ~Elsewhere(k, p, m)' PROVE Ends(p, o)'
    <2>1. Route(p, o)
      BY <1>6 DEF Leads
    <2>2. \A k \in 1..i-1 : \A l \in k..i-1 : l \in 1..i-1
      OBVIOUS
    <2>3. \A k \in 1..i-1 : ~Elsewhere(k, p, m)
      BY <1>0, <1>6, <2>2 DEF Newest
    <2>4. Ends(p, o)
      BY <1>0, <1>6, <2>3 DEF Newest
    <2> QED  BY <2>1, <2>4
  <1> QED  BY <1>0, <1>1, <1>5, <1>6 DEF Newest

(* The head of the queue, which announced nothing, is done with.           *)
LEMMA LedLess ==
    ASSUME TypeOK, sigs # <<>>, sigs' = Tail(sigs), sigs[1].type # "InterfacesAdded",
           NEW q, NEW m, LedNow(q, m)' => LedNow(q, m),
           NEW j \in 2..Len(sigs)+1, Led(q, j-1, m)'
    PROVE  Led(q, j, m)
  <1>1. \A k \in 1..j-2 : k+1 \in 1..j-1 /\ sigs'[k] = sigs[k+1]
    BY DEF TypeOK, ProviderTypeOK
  <1>2. \A k \in 1..j-2 : Announced(q, k)' <=> Announced(q, k+1)
    BY <1>1 DEF Announced
  <1>3. (j-1)-1 = j-2 /\ ~Announced(q, 1)
    BY DEF Announced
  <1>4. ASSUME NEW l \in 2..j-1 PROVE Announced(q, l) <=> Announced(q, l-1)'
    <2>1. l-1 \in 1..j-2 /\ (l-1)+1 = l
      OBVIOUS
    <2> QED  BY <1>2, <2>1
  <1>5. CASE \E k \in 1..j-2 : /\ Announced(q, k)' /\ sigs'[k].object.module = m
                               /\ \A l \in k+1..j-2 : ~Announced(q, l)'
    <2>1. PICK k \in 1..j-2 : /\ Announced(q, k)' /\ sigs'[k].object.module = m
                              /\ \A l \in k+1..j-2 : ~Announced(q, l)'
      BY <1>5
    <2>2. PICK n : n = k + 1
      OBVIOUS
    <2>3. n \in 1..j-1 /\ Announced(q, n) /\ sigs[n].object.module = m
      BY <1>1, <1>2, <2>1, <2>2
    <2>4. ASSUME NEW l \in n+1..j-1 PROVE ~Announced(q, l)
      <3>1. l-1 \in k+1..j-2 /\ l \in 2..j-1
        BY <2>1, <2>2
      <3> QED  BY <1>4, <2>1, <3>1
    <2> QED  BY <2>3, <2>4 DEF Led
  <1>6. CASE (\A k \in 1..j-2 : ~Announced(q, k)') /\ LedNow(q, m)'
    <2>1. ASSUME NEW k \in 1..j-1 PROVE ~Announced(q, k)
      <3>1. k = 1 \/ (k \in 2..j-1 /\ k-1 \in 1..j-2)
        OBVIOUS
      <3> QED  BY <1>3, <1>4, <1>6, <3>1
    <2> QED  BY <1>6, <2>1 DEF Led
  <1> QED  BY <1>3, <1>5, <1>6 DEF Led

(* What was newest of the queue is so of the rest.                         *)
LEMMA NewestLess ==
    ASSUME TypeOK, sigs # <<>>, sigs' = Tail(sigs), sigs[1].type # "InterfacesAdded",
           NEW p, NEW o, \A q \in Paths : LedNow(q, o.module)' => LedNow(q, o.module),
           NEW i \in 2..Len(sigs)+1, Leads(p, o, i), Newest(p, o, i),
           Route(p, o) /\ ~Elsewhere(1, p, o.module) /\ Ends(p, o) => Ends(p, o)'
    PROVE  Newest(p, o, i-1)'
  <1>0. PICK m : m = o.module
    OBVIOUS
  <1>1. \A k \in 1..i-2 : /\ k+1 \in 1..i-1 /\ sigs'[k] = sigs[k+1]
                          /\ k+1 \in 2..Len(sigs)+1 /\ (k+1)-1 = k
                          /\ k+1 \in 1..Len(sigs)
    BY DEF TypeOK, ProviderTypeOK
  <1>2. \A k \in 1..i-2 : Announced(p, k)' <=> Announced(p, k+1)
    BY <1>1 DEF Announced
  <1>3. (i-1)-1 = i-2 /\ ~Announced(p, 1)
    BY DEF Announced
  <1>4. ASSUME NEW k \in 1..i-2, Elsewhere(k, p, m)' PROVE Elsewhere(k+1, p, m)
    <2>1. PICK q, n : q = sigs'[k].path /\ n = k+1
      OBVIOUS
    <2>2. /\ n \in 2..Len(sigs)+1 /\ n-1 = k /\ sigs'[k] = sigs[n] /\ q \in Paths
      BY <1>1, <2>1, HeadPaths
    <2>5. LedNow(q, m)' => LedNow(q, m)
      BY <1>0, <2>2
    <2>3. Led(q, k, m)' => Led(q, n, m)
      BY <2>2, <2>5, LedLess
    <2>4. Elsewhere(n, p, m)
      BY <1>4, <2>1, <2>2, <2>3 DEF Elsewhere
    <2> QED  BY <2>1, <2>4
  <1>5. ASSUME NEW k \in 1..i-2, Elsewhere(k, p, m)'
        PROVE  \E l \in k..i-2 : Announced(p, l)' /\ sigs'[l].object = o
    <2>1. PICK l \in k+1..i-1 : Announced(p, l) /\ sigs[l].object = o
      BY <1>0, <1>1, <1>4, <1>5 DEF Newest
    <2>2. PICK n : n = l-1
      OBVIOUS
    <2>3. n \in k..i-2 /\ n \in 1..i-2 /\ n+1 = l
      BY <2>2
    <2> QED  BY <1>1, <1>2, <2>1, <2>3
  <1>6. ASSUME \A k \in 1..i-2 : ~Announced(p, k)' /\ ~Elsewhere(k, p, m)' PROVE Ends(p, o)'
    <2>1. ASSUME NEW k \in 1..i-1, Announced(p, k) PROVE FALSE
      <3>1. k-1 \in 1..i-2 /\ (k-1)+1 = k
        BY <1>3, <2>1
      <3> QED  BY <1>2, <1>6, <2>1, <3>1
    <2>2. ~Elsewhere(1, p, m)
      <3>1. 1 \in 1..i-1 /\ \A l \in 1..i-1 : ~Announced(p, l)
        BY <2>1
      <3> QED  BY <1>0, <3>1 DEF Newest
    <2>5. Route(p, o)
      BY <2>1 DEF Leads
    <2>3. CASE \E k \in 1..i-1 : Elsewhere(k, p, m)
      BY <1>0, <2>1, <2>3 DEF Newest
    <2>4. CASE \A k \in 1..i-1 : ~Elsewhere(k, p, m)
      BY <1>0, <2>1, <2>2, <2>4, <2>5 DEF Newest
    <2> QED  BY <2>3, <2>4
  <1> QED  BY <1>0, <1>3, <1>5, <1>6 DEF Newest

(* The head announced the modem that is being added now.                   *)
LEMMA LedRead ==
    ASSUME TypeOK, sigs # <<>>, sigs' = Tail(sigs), sigs[1].type = "InterfacesAdded",
           toAdd' = {}, adding' # None,
           adding'.path = sigs[1].path, adding'.object = sigs[1].object,
           toAdd = {}, adding = None, UNCHANGED byPath,
           NEW q, NEW m, NEW j \in 2..Len(sigs)+1, Led(q, j-1, m)'
    PROVE  Led(q, j, m)
  <1>1. \A k \in 1..j-2 : k+1 \in 1..j-1 /\ sigs'[k] = sigs[k+1]
    BY DEF TypeOK, ProviderTypeOK
  <1>2. \A k \in 1..j-2 : Announced(q, k)' <=> Announced(q, k+1)
    BY <1>1 DEF Announced
  <1>3. (j-1)-1 = j-2 /\ (Announced(q, 1) <=> sigs[1].path = q) /\ 1 \in 1..j-1
    BY DEF Announced
  <1>4. ASSUME NEW l \in 2..j-1 PROVE Announced(q, l) <=> Announced(q, l-1)'
    <2>1. l-1 \in 1..j-2 /\ (l-1)+1 = l
      OBVIOUS
    <2> QED  BY <1>2, <2>1
  <1>5. CASE \E k \in 1..j-2 : /\ Announced(q, k)' /\ sigs'[k].object.module = m
                               /\ \A l \in k+1..j-2 : ~Announced(q, l)'
    <2>1. PICK k \in 1..j-2 : /\ Announced(q, k)' /\ sigs'[k].object.module = m
                              /\ \A l \in k+1..j-2 : ~Announced(q, l)'
      BY <1>5
    <2>2. PICK n : n = k + 1
      OBVIOUS
    <2>3. n \in 1..j-1 /\ Announced(q, n) /\ sigs[n].object.module = m
      BY <1>1, <1>2, <2>1, <2>2
    <2>4. ASSUME NEW l \in n+1..j-1 PROVE ~Announced(q, l)
      <3>1. l-1 \in k+1..j-2 /\ l \in 2..j-1
        BY <2>1, <2>2
      <3> QED  BY <1>4, <2>1, <3>1
    <2> QED  BY <2>3, <2>4 DEF Led
  <1>6. CASE (\A k \in 1..j-2 : ~Announced(q, k)') /\ LedNow(q, m)'
    <2>1. ASSUME NEW k \in 2..j-1 PROVE ~Announced(q, k)
      <3>1. k-1 \in 1..j-2
        OBVIOUS
      <3> QED  BY <1>4, <1>6, <3>1
    <2>2. CASE sigs[1].path = q
      <3>1. sigs[1].object.module = m
        BY <1>6, <2>2 DEF LedNow
      <3>2. \A l \in 1+1..j-1 : l \in 2..j-1
        OBVIOUS
      <3> QED  BY <1>3, <2>1, <2>2, <3>1, <3>2 DEF Led
    <2>3. CASE sigs[1].path # q
      <3>1. LedNow(q, m)
        BY <1>6, <2>3 DEF LedNow
      <3>2. \A k \in 1..j-1 : k = 1 \/ k \in 2..j-1
        OBVIOUS
      <3> QED  BY <1>3, <2>1, <2>3, <3>1, <3>2 DEF Led
    <2> QED  BY <2>2, <2>3
  <1> QED  BY <1>3, <1>5, <1>6 DEF Led

(* The same when the head announces the modem that is read now.            *)
LEMMA NewestRead ==
    ASSUME TypeOK, sigs # <<>>, sigs' = Tail(sigs), sigs[1].type = "InterfacesAdded",
           toAdd' = {}, adding' # None,
           adding'.path = sigs[1].path, adding'.object = sigs[1].object,
           toAdd = {}, adding = None, UNCHANGED byPath,
           NEW p, NEW o,
           /\ Ends(p, o) /\ adding'.path # p /\ adding'.object.module # o.module
           => Ends(p, o)',
           NEW i \in 2..Len(sigs)+1, Newest(p, o, i)
    PROVE  Newest(p, o, i-1)'
  <1>0. PICK m : m = o.module
    OBVIOUS
  <1>1. \A k \in 1..i-2 : /\ k+1 \in 1..i-1 /\ sigs'[k] = sigs[k+1]
                          /\ k+1 \in 2..Len(sigs)+1 /\ (k+1)-1 = k
                          /\ k+1 \in 1..Len(sigs)
    BY DEF TypeOK, ProviderTypeOK
  <1>2. \A k \in 1..i-2 : Announced(p, k)' <=> Announced(p, k+1)
    BY <1>1 DEF Announced
  <1>3. (i-1)-1 = i-2 /\ 1 \in 1..i-1
    OBVIOUS
  <1>4. ASSUME NEW k \in 1..i-2, Elsewhere(k, p, m)' PROVE Elsewhere(k+1, p, m)
    <2>1. PICK q, n : q = sigs'[k].path /\ n = k+1
      OBVIOUS
    <2>2. n \in 2..Len(sigs)+1 /\ n-1 = k /\ sigs'[k] = sigs[n]
      BY <1>1, <2>1
    <2>3. Led(q, k, m)' => Led(q, n, m)
      BY <2>2, LedRead
    <2>4. Elsewhere(n, p, m)
      BY <1>4, <2>1, <2>2, <2>3 DEF Elsewhere
    <2> QED  BY <2>1, <2>4
  <1>5. ASSUME NEW k \in 1..i-2, Elsewhere(k, p, m)'
        PROVE  \E l \in k..i-2 : Announced(p, l)' /\ sigs'[l].object = o
    <2>1. PICK l \in k+1..i-1 : Announced(p, l) /\ sigs[l].object = o
      BY <1>0, <1>1, <1>4, <1>5 DEF Newest
    <2>2. PICK n : n = l-1
      OBVIOUS
    <2>3. n \in k..i-2 /\ n \in 1..i-2 /\ n+1 = l
      BY <2>2
    <2> QED  BY <1>1, <1>2, <2>1, <2>3
  <1>6. ASSUME \A k \in 1..i-2 : ~Announced(p, k)' /\ ~Elsewhere(k, p, m)' PROVE Ends(p, o)'
    <2>1. ASSUME NEW k \in 1..i-1, Announced(p, k) PROVE k = 1
      <3>1. k # 1 => k-1 \in 1..i-2 /\ (k-1)+1 = k
        BY <2>1
      <3> QED  BY <1>2, <1>6, <2>1, <3>1
    <2>2. CASE Announced(p, 1)
      BY <2>2 DEF Announced, Ends
    <2>3. CASE ~Announced(p, 1)
      <3>1. \A k \in 1..i-1 : ~Announced(p, k)
        BY <2>1, <2>3
      <3>2. \A k \in 1..i-1 : \A l \in k..i-1 : l \in 1..i-1
        OBVIOUS
      <3>3. \A k \in 1..i-1 : ~Elsewhere(k, p, m)
        BY <1>0, <3>1, <3>2 DEF Newest
      <3>4. Ends(p, o) /\ ~Elsewhere(1, p, m)
        BY <1>0, <1>3, <3>1, <3>3 DEF Newest
      <3>5. adding'.path # p /\ adding'.object.module # m
        BY <2>3, <3>4 DEF Elsewhere, Announced
      <3> QED  BY <1>0, <3>4, <3>5
    <2> QED  BY <2>2, <2>3
  <1> QED  BY <1>0, <1>3, <1>5, <1>6 DEF Newest

-----------------------------------------------------------------------------
(* The identifiers of a module.                                            *)
LEMMA KinMeans ==
    /\ \A c, d : c \in Siblings(d) <=> \E m \in Modules : c \in IdsOf[m] /\ d \in IdsOf[m]
    /\ \A m \in Modules : \A d \in IdsOf[m] : Siblings(d) = IdsOf[m]
    /\ \A c, d : c \in Siblings(d) =>
          /\ d \in Siblings(c) /\ Siblings(c) = Siblings(d) /\ d \in Siblings(d)
  <1>1. \A c, d : c \in Siblings(d) <=> \E m \in Modules : c \in IdsOf[m] /\ d \in IdsOf[m]
    BY DEF Siblings
  <1>2. ASSUME NEW m \in Modules, NEW d \in IdsOf[m] PROVE Siblings(d) = IdsOf[m]
    <2>1. \A c : c \in Siblings(d) <=> c \in IdsOf[m]
      BY <1>1, OneModule
    <2> QED  BY <2>1
  <1>3. ASSUME NEW c, NEW d, c \in Siblings(d)
        PROVE  d \in Siblings(c) /\ Siblings(c) = Siblings(d) /\ d \in Siblings(d)
    <2>1. PICK m \in Modules : c \in IdsOf[m] /\ d \in IdsOf[m]
      BY <1>1, <1>3
    <2>2. Siblings(c) = IdsOf[m] /\ Siblings(d) = IdsOf[m]
      BY <1>2, <2>1
    <2> QED  BY <2>1, <2>2
  <1> QED  BY <1>1, <1>2, <1>3

(* The identifiers in use are those of a module.                           *)
LEMMA KinOfAll ==
    ASSUME TypeOK, Unmixed
    PROVE  /\ \A k \in DOMAIN events : events[k].dev \in Siblings(events[k].dev)
           /\ \A d \in Ids : entries[d] # None => d \in Siblings(d)
           /\ \A i \in DOMAIN modems : modems[i].dev \in Siblings(modems[i].dev)
  BY KinMeans DEF Unmixed, Honesty, EventsOf, EventOf, RowsOf, Of

(* What fits of one or two.                                                *)
LEMMA FirstOrBoth ==
    ASSUME NEW S, NEW s \in Seq(S), Len(s) >= 1
    PROVE  /\ SubSeq(s, 1, 1) = <<s[1]>>
           /\ Len(s) >= 2 => SubSeq(s, 1, 2) = <<s[1], s[2]>>
  <1>1. PICK t : t = SubSeq(s, 1, 1)
    OBVIOUS
  <1>2. t \in Seq(S) /\ Len(t) = 1 /\ t[1] = s[1]
    BY <1>1
  <1>3. t = <<s[1]>>
    BY <1>2
  <1>4. ASSUME Len(s) >= 2 PROVE SubSeq(s, 1, 2) = <<s[1], s[2]>>
    <2>1. PICK u : u = SubSeq(s, 1, 2)
      OBVIOUS
    <2>2. u \in Seq(S) /\ Len(u) = 2 /\ u[1] = s[1] /\ u[2] = s[2]
      BY <1>4, <2>1
    <2>3. u = <<s[1], s[2]>>
      BY <2>2
    <2> QED  BY <2>1, <2>3
  <1> QED  BY <1>1, <1>3, <1>4

(* emit, once or twice for one modem: what is lost is noted.               *)
LEMMA EmitOnce ==
    ASSUME TypeOK, NEW x \in EventType, Emit(<<x>>)
    PROVE  /\ \/ events' = Append(events, x) /\ unsure' = unsure
              \/ events' = events /\ unsure' = unsure \cup Siblings(x.dev)
           /\ UNCHANGED scars
  <1>1. events \in Seq(EventType) /\ Len(events) <= EventCap
    BY DEF TypeOK, ProviderTypeOK
  <1> DEFINE es == <<x>>
             room == EventCap - Len(events)
             n    == IF Len(es) <= room THEN Len(es) ELSE room
  <1>2. Len(es) = 1 /\ es \in Seq(EventType) /\ es[1] = x
    OBVIOUS
  <1>3. n \in {0, 1}
    BY <1>1, <1>2, BoundsAssumption
  <1>4. /\ events' = events \o SubSeq(es, 1, n)
        /\ unsure' = unsure \cup UNION {Siblings(es[i].dev) : i \in n+1..Len(es)}
        /\ UNCHANGED scars
    BY DEF Emit
  <1>8. events \o <<x>> = Append(events, x) /\ events \o <<>> = events
    BY <1>1
  <1> HIDE DEF n, es
  <1>5. CASE n = 1
    <2>1. SubSeq(es, 1, n) = <<x>>
      BY <1>2, <1>5, FirstOrBoth
    <2>2. n+1..Len(es) = {}
      BY <1>2, <1>5
    <2>3. unsure' = unsure
      BY <1>4, <2>2
    <2> QED  BY <1>4, <1>8, <2>1, <2>3
  <1>6. CASE n = 0
    <2>1. SubSeq(es, 1, n) = <<>> /\ n+1..Len(es) = {1}
      BY <1>2, <1>6
    <2>2. unsure' = unsure \cup Siblings(x.dev)
      BY <1>2, <1>4, <2>1
    <2> QED  BY <1>4, <1>8, <2>1, <2>2
  <1> QED  BY <1>3, <1>4, <1>5, <1>6

(* The same for the two events of a SIM that is read.                      *)
LEMMA EmitTwice ==
    ASSUME TypeOK, NEW x \in EventType, NEW y \in EventType, x.dev = y.dev, Emit(<<x, y>>)
    PROVE  /\ \/ events' = Append(Append(events, x), y) /\ unsure' = unsure
              \/ /\ events' \in {events, Append(events, x)}
                 /\ unsure' = unsure \cup Siblings(x.dev)
           /\ UNCHANGED scars
  <1>1. events \in Seq(EventType) /\ Len(events) <= EventCap
    BY DEF TypeOK, ProviderTypeOK
  <1> DEFINE es == <<x, y>>
             room == EventCap - Len(events)
             n    == IF Len(es) <= room THEN Len(es) ELSE room
  <1>2. Len(es) = 2 /\ es \in Seq(EventType) /\ es[1] = x /\ es[2] = y
    OBVIOUS
  <1>3. n \in {0, 1, 2}
    BY <1>1, <1>2, BoundsAssumption
  <1>4. /\ events' = events \o SubSeq(es, 1, n)
        /\ unsure' = unsure \cup UNION {Siblings(es[i].dev) : i \in n+1..Len(es)}
        /\ UNCHANGED scars
    BY DEF Emit
  <1>8. /\ events \o <<x>> = Append(events, x) /\ events \o <<>> = events
        /\ events \o <<x, y>> = Append(Append(events, x), y)
    BY <1>1
  <1> HIDE DEF n, es
  <1>5. CASE n = 2
    <2>0. SubSeq(es, 1, 2) = <<es[1], es[2]>>
      BY <1>2, FirstOrBoth
    <2>1. SubSeq(es, 1, n) = <<x, y>>
      BY <1>2, <1>5, <2>0
    <2>2. n+1..Len(es) = {}
      BY <1>2, <1>5
    <2>3. unsure' = unsure
      BY <1>4, <2>2
    <2> QED  BY <1>4, <1>8, <2>1, <2>3
  <1>6. CASE n = 1
    <2>1. SubSeq(es, 1, n) = <<x>> /\ n+1..Len(es) = {2}
      BY <1>2, <1>6, FirstOrBoth
    <2>2. unsure' = unsure \cup Siblings(x.dev)
      BY <1>2, <1>4, <2>1
    <2> QED  BY <1>4, <1>8, <2>1, <2>2
  <1>7. CASE n = 0
    <2>1. SubSeq(es, 1, n) = <<>> /\ n+1..Len(es) = {1, 2}
      BY <1>2, <1>7
    <2>2. unsure' = unsure \cup Siblings(x.dev)
      BY <1>2, <1>4, <2>1
    <2> QED  BY <1>4, <1>8, <2>1, <2>2
  <1> QED  BY <1>3, <1>4, <1>5, <1>6, <1>7

\* The provider says one thing more of d, or two, as far as there is room.
Tells(d) ==
    /\ Len(events) <= Len(events')
    /\ \A k \in 1..Len(events) : events'[k] = events[k]
    /\ \A k \in Len(events)+1..Len(events') : events'[k].dev = d
    /\ unsure' \in {unsure, unsure \cup Siblings(d)}
    /\ d \notin unsure' =>
          /\ Len(events) < Len(events')
          /\ events'[Len(events')].kind = "ModemRemoved" <=> entries'[d] = None
          /\ entries'[d] # None => events'[Len(events')].sim = entries'[d].sim
          /\ entries[d] = None => events'[Len(events) + 1].kind = "ModemAdded"
    /\ \A k \in Len(events)+1..Len(events') : events'[k].kind \in Following =>
          /\ k = Len(events) + 1 /\ entries[d] # None
          /\ events'[k].kind = "SignalSampled" => events'[k].sim = entries[d].sim
    /\ \A c \in Ids : c # d => entries'[c] = entries[c]
    /\ UNCHANGED scars

(* One event that says of d what the provider now has.                     *)
LEMMA TellsOnce ==
    ASSUME TypeOK, NEW x \in EventType, Emit(<<x>>), NEW d \in Ids, d \in Siblings(d),
           x.dev = d, \A c \in Ids : c # d => entries'[c] = entries[c],
           x.kind = "ModemRemoved" <=> entries'[d] = None,
           entries'[d] # None => x.sim = entries'[d].sim,
           entries[d] = None => x.kind = "ModemAdded",
           x.kind \in Following =>
               entries[d] # None /\ (x.kind = "SignalSampled" => x.sim = entries[d].sim)
    PROVE  Tells(d)
  <1>1. events \in Seq(EventType)
    BY DEF TypeOK, ProviderTypeOK
  <1>2. UNCHANGED scars
    BY EmitOnce
  <1>3. CASE events' = Append(events, x) /\ unsure' = unsure
    <2>1. /\ Len(events') = Len(events) + 1 /\ events'[Len(events) + 1] = x
          /\ \A k \in 1..Len(events) : events'[k] = events[k]
          /\ \A k \in Len(events)+1..Len(events') : k = Len(events) + 1
          /\ Len(events) \in Nat
      BY <1>1, <1>3
    <2> QED  BY <1>2, <1>3, <2>1 DEF Tells
  <1>4. CASE events' = events /\ unsure' = unsure \cup Siblings(d)
    <2>1. Len(events) \in Nat /\ Len(events)+1..Len(events') = {}
      BY <1>1, <1>4
    <2> QED  BY <1>2, <1>4, <2>1 DEF Tells
  <1> QED  BY <1>3, <1>4, EmitOnce

(* Two events, the SIM first.                                              *)
LEMMA TellsTwice ==
    ASSUME TypeOK, NEW x \in EventType, NEW y \in EventType, Emit(<<x, y>>),
           NEW d \in Ids, d \in Siblings(d), x.dev = d, y.dev = d,
           \A c \in Ids : c # d => entries'[c] = entries[c],
           y.kind = "ModemUpdated", entries'[d] # None, y.sim = entries'[d].sim,
           x.kind = "SimUpdated", entries[d] # None
    PROVE  Tells(d)
  <1>1. events \in Seq(EventType)
    BY DEF TypeOK, ProviderTypeOK
  <1>2. UNCHANGED scars
    BY EmitTwice
  <1>3. CASE events' = Append(Append(events, x), y) /\ unsure' = unsure
    <2>1. /\ Len(events') = Len(events) + 2 /\ events'[Len(events) + 1] = x
          /\ events'[Len(events) + 2] = y
          /\ \A k \in 1..Len(events) : events'[k] = events[k]
          /\ \A k \in Len(events)+1..Len(events') : k \in {Len(events) + 1, Len(events) + 2}
          /\ Len(events) \in Nat
      BY <1>1, <1>3
    <2> QED  BY <1>2, <1>3, <2>1 DEF Tells, Following
  <1>4. CASE events' = Append(events, x) /\ unsure' = unsure \cup Siblings(d)
    <2>1. /\ Len(events') = Len(events) + 1 /\ events'[Len(events) + 1] = x
          /\ \A k \in 1..Len(events) : events'[k] = events[k]
          /\ \A k \in Len(events)+1..Len(events') : k = Len(events) + 1
          /\ Len(events) \in Nat
      BY <1>1, <1>4
    <2> QED  BY <1>2, <1>4, <2>1 DEF Tells
  <1>5. CASE events' = events /\ unsure' = unsure \cup Siblings(d)
    <2>1. Len(events) \in Nat /\ Len(events)+1..Len(events') = {}
      BY <1>1, <1>5
    <2> QED  BY <1>2, <1>5, <2>1 DEF Tells
  <1> QED  BY <1>3, <1>4, <1>5, EmitTwice

Hushed == UNCHANGED <<events, unsure, scars, entries>>

(* onModemAdded, the end: the modem is that being added.                   *)
LEMMA EnterTells ==
    ASSUME TypeOK, Unmixed, EnterModem
    PROVE  /\ adding # None /\ adding' = None
           /\ adding.object.dev \in Ids /\ Tells(adding.object.dev)
           /\ entries' = [entries EXCEPT ![adding.object.dev] = adding.entry]
           /\ byPath' = Routed(adding.object.dev, adding.entry.path)
           /\ UNCHANGED <<object, app, toAdd, sigs, runVars>>
  <1> DEFINE d == adding.object.dev
             e == adding.entry
             x == Event("ModemAdded", d, e, adding.object.module)
  <1>1. /\ adding # None /\ adding' = None /\ entries' = [entries EXCEPT ![d] = e]
        /\ byPath' = Routed(d, e.path) /\ Emit(<<x>>)
        /\ UNCHANGED <<object, app, toAdd, sigs, runVars>>
    BY DEF EnterModem, mmVars
  <1>2. d \in Ids /\ e \in Entry /\ adding.object.module \in Modules
    BY <1>1 DEF TypeOK, ProviderTypeOK, Reading, Object
  <1>3. d \in Siblings(d)
    BY <1>1, <1>2, KinMeans DEF Unmixed, Honesty, Honest, Of
  <1>4. x \in EventType /\ x.dev = d /\ x.kind = "ModemAdded" /\ x.sim = e.sim
    BY <1>2 DEF Event, EventType, Entry
  <1> HIDE DEF d, e, x
  <1>5. e # None /\ entries'[d] = e /\ \A c \in Ids : c # d => entries'[c] = entries[c]
    BY <1>1, <1>2, NoneIsNoRecord DEF TypeOK, ProviderTypeOK
  <1>6. Tells(d)
    BY <1>1, <1>2, <1>3, <1>4, <1>5, TellsOnce DEF Following
  <1> QED  BY <1>1, <1>2, <1>6 DEF d, e

(* The signals of the provider: the modem is that of the path.             *)
LEMMA RemovedTells ==
    ASSUME IInv, Unmixed, OnModemRemoved
    PROVE  LET p == Head(sigs).path
               d == byPath[p]
           IN  /\ Next1("InterfacesRemoved")
               /\ UNCHANGED <<object, app, toAdd, adding, runVars>>
               /\ \/ d = None /\ Hushed /\ UNCHANGED byPath
                  \/ /\ d \in Ids /\ Tells(d) /\ entries' = [entries EXCEPT ![d] = None]
                     /\ byPath' = [byPath EXCEPT ![p] = None]
  <1> DEFINE p == Head(sigs).path
             d == byPath[p]
             x == Event("ModemRemoved", d, NoEntry, None)
  <1>1. Next1("InterfacesRemoved") /\ UNCHANGED <<object, app, toAdd, adding, runVars>>
    BY DEF OnModemRemoved, mmVars
  <1>2. p \in Paths
    BY <1>1, HeadType DEF Next1, IInv, TypeOK, ProviderTypeOK
  <1>3. CASE d = None
    BY <1>1, <1>3 DEF OnModemRemoved, Hushed, historyVars
  <1>4. CASE d # None
    <2>1. /\ entries' = [entries EXCEPT ![d] = None] /\ Emit(<<x>>)
          /\ byPath' = [byPath EXCEPT ![p] = None]
      BY <1>4 DEF OnModemRemoved
    <2>2. d \in Ids /\ entries[d] # None
      BY <1>2, <1>4 DEF IInv, TypeOK, ProviderTypeOK, RoutesAreKnown
    <2>3. d \in Siblings(d)
      BY <2>2, KinOfAll DEF IInv
    <2>4. x \in EventType /\ x.dev = d /\ x.kind = "ModemRemoved"
      BY <2>2 DEF Event, EventType, NoEntry
    <2> HIDE DEF d, x, p
    <2>5. entries'[d] = None /\ \A c \in Ids : c # d => entries'[c] = entries[c]
      BY <2>1, <2>2 DEF IInv, TypeOK, ProviderTypeOK
    <2>6. Tells(d)
      BY <2>1, <2>2, <2>3, <2>4, <2>5, TellsOnce DEF Following, IInv
    <2> QED  BY <1>1, <2>1, <2>2, <2>6 DEF d, p
  <1> QED  BY <1>3, <1>4

(* A report is of the modem the provider has, with its SIM.                *)
LEMMA SampleTells ==
    ASSUME IInv, Unmixed, OnSignal
    PROVE  LET p == Head(sigs).path
               d == byPath[p]
           IN  /\ Next1("Signal")
               /\ UNCHANGED <<object, app, toAdd, adding, runVars, entries, byPath>>
               /\ \/ Hushed
                  \/ d \in Ids /\ entries[d] # None /\ Tells(d)
  <1> DEFINE p == Head(sigs).path
             o == Head(sigs).object
             d == byPath[p]
             x == Event("SignalSampled", d, entries[d], o.module)
  <1>1. Next1("Signal") /\ UNCHANGED <<object, app, toAdd, adding, runVars, entries, byPath>>
    BY DEF OnSignal, mmVars, provVars
  <1>2. p \in Paths /\ o \in Object
    BY <1>1, HeadType DEF Next1, IInv, TypeOK, ProviderTypeOK, OfModem
  <1>3. CASE d = None \/ entries[d] = None
    BY <1>1, <1>3 DEF OnSignal, Hushed, historyVars
  <1>4. CASE d # None /\ entries[d] # None
    <2>1. Emit(<<x>>)
      BY <1>4 DEF OnSignal
    <2>2. d \in Ids /\ entries[d] \in Entry
      BY <1>2, <1>4 DEF IInv, TypeOK, ProviderTypeOK
    <2>3. d \in Siblings(d)
      BY <1>4, <2>2, KinOfAll DEF IInv
    <2>4. x \in EventType /\ x.dev = d /\ x.kind = "SignalSampled" /\ x.sim = entries[d].sim
      BY <1>2, <2>2 DEF Event, EventType, Entry, Object
    <2> HIDE DEF d, x, p
    <2>5. Tells(d)
      BY <1>1, <1>4, <2>1, <2>2, <2>3, <2>4, TellsOnce DEF Following, IInv
    <2> QED  BY <1>1, <1>4, <2>2, <2>5 DEF d, p
  <1> QED  BY <1>3, <1>4

(* A change of SIM is of the modem the path leads to, which stays there.   *)
LEMMA ChangedTells ==
    ASSUME IInv, Unmixed, OnModemChanged
    PROVE  LET p == Head(sigs).path
               d == byPath[p]
           IN  /\ Next1("Modem")
               /\ UNCHANGED <<object, app, toAdd, adding, runVars, byPath>>
               /\ \/ Hushed
                  \/ /\ d \in Ids /\ entries[d] # None /\ Tells(d)
                     /\ entries'[d] # None /\ entries'[d].path = entries[d].path
  <1> DEFINE p == Head(sigs).path
             s == Head(sigs).sim
             d == byPath[p]
             e == entries[d]
             Update(t) == Event("ModemUpdated", d, [e EXCEPT !.sim = t], None)
             x == Event("SimUpdated", d, [e EXCEPT !.sim = s], None)
             Hold(t) == entries' = [entries EXCEPT ![d].sim = t]
  <1>1. Next1("Modem") /\ UNCHANGED <<object, app, toAdd, adding, runVars, byPath>>
    BY DEF OnModemChanged, mmVars
  <1>2. p \in Paths /\ s \in Sims \cup {None}
    BY <1>1, HeadType DEF Next1, IInv, TypeOK, ProviderTypeOK
  <1>3. CASE d = None \/ e = None
    BY <1>1, <1>3 DEF OnModemChanged, Hushed, historyVars
  <1>4. CASE d # None /\ e # None
    <2>1. \/ Hold(None) /\ Emit(<<Update(None)>>)
          \/ s # None /\ Hold(s) /\ Emit(<<x, Update(s)>>)
          \/ UNCHANGED entries /\ Emit(<<Update(e.sim)>>)
      BY <1>4 DEF OnModemChanged
    <2>2. d \in Ids /\ e \in Entry /\ entries[d] = e
      BY <1>2, <1>4 DEF IInv, TypeOK, ProviderTypeOK
    <2>3. d \in Siblings(d)
      BY <1>4, <2>2, KinOfAll DEF IInv
    <2> HIDE DEF d, e, p, s
    <2>4. \A t \in Sims \cup {None} :
             /\ Update(t) \in EventType /\ Update(t).dev = d
             /\ Update(t).kind = "ModemUpdated" /\ Update(t).sim = t
      BY <2>2 DEF Event, EventType, Entry
    <2>5. s # None => x \in EventType /\ x.dev = d /\ x.kind = "SimUpdated"
      BY <1>2, <2>2 DEF Event, EventType, Entry
    <2>6. ASSUME NEW t \in Sims \cup {None}, Hold(t)
          PROVE  /\ entries'[d] # None /\ entries'[d].sim = t /\ entries'[d].path = e.path
                 /\ \A c \in Ids : c # d => entries'[c] = entries[c]
      <3>1. /\ entries'[d] = [e EXCEPT !.sim = t]
            /\ \A c \in Ids : c # d => entries'[c] = entries[c]
        BY <2>2, <2>6 DEF IInv, TypeOK, ProviderTypeOK
      <3>2. /\ [e EXCEPT !.sim = t] \in Entry /\ [e EXCEPT !.sim = t].sim = t
            /\ [e EXCEPT !.sim = t].path = e.path
        BY <2>2, <2>6 DEF Entry
      <3> QED  BY <3>1, <3>2, NoneIsNoRecord
    <2> HIDE DEF Update, x, Hold
    <2>7. ASSUME NEW t \in Sims \cup {None}, Emit(<<Update(t)>>),
                 Hold(t) \/ (UNCHANGED entries /\ t = e.sim)
          PROVE  Tells(d) /\ entries'[d] # None /\ entries'[d].path = entries[d].path
      <3>1. PICK y : y = Update(t)
        OBVIOUS
      <3>2. /\ entries'[d] # None /\ entries'[d].sim = t /\ entries'[d].path = e.path
            /\ \A c \in Ids : c # d => entries'[c] = entries[c]
        BY <1>4, <2>2, <2>6, <2>7
      <3>3. y \in EventType /\ y.dev = d /\ y.kind = "ModemUpdated" /\ y.sim = t /\ Emit(<<y>>)
        BY <2>4, <2>7, <3>1
      <3>4. Tells(d)
        BY <1>4, <2>2, <2>3, <3>2, <3>3, TellsOnce DEF Following, IInv
      <3> QED  BY <2>2, <3>2, <3>4
    <2>8. ASSUME s # None, Hold(s), Emit(<<x, Update(s)>>)
          PROVE  Tells(d) /\ entries'[d] # None /\ entries'[d].path = entries[d].path
      <3>1. PICK y, z : y = Update(s) /\ z = x
        OBVIOUS
      <3>2. /\ entries'[d] # None /\ entries'[d].sim = s /\ entries'[d].path = e.path
            /\ \A c \in Ids : c # d => entries'[c] = entries[c]
        BY <1>2, <2>6, <2>8
      <3>3. y \in EventType /\ y.dev = d /\ y.kind = "ModemUpdated" /\ y.sim = s
        BY <1>2, <2>4, <3>1
      <3>4. z \in EventType /\ z.dev = d /\ z.kind = "SimUpdated" /\ Emit(<<z, y>>)
        BY <2>5, <2>8, <3>1
      <3>5. Tells(d)
        BY <1>4, <2>2, <2>3, <3>2, <3>3, <3>4, TellsTwice DEF IInv
      <3> QED  BY <2>2, <3>2, <3>5
    <2>9. e.sim \in Sims \cup {None}
      BY <2>2 DEF Entry
    <2>10. Tells(d) /\ entries'[d] # None /\ entries'[d].path = entries[d].path
      BY <1>2, <2>1, <2>7, <2>8, <2>9
    <2> QED  BY <1>1, <1>4, <2>2, <2>10 DEF d, p, e
  <1> QED  BY <1>3, <1>4

(* All steps of the provider, as far as the runner is concerned.           *)
LEMMA ProviderTells ==
    ASSUME IInv, Unmixed, Provider
    PROVE  /\ UNCHANGED runVars
           /\ Hushed \/ \E d \in Ids : Tells(d)
  <1>1. CASE Start \/ GetManagedObjects \/ ReadListed \/ ReadAnnounced \/ Listen
    BY <1>1 DEF Start, GetManagedObjects, ReadListed, ReadAnnounced, Listen, Hushed, historyVars
  <1>2. CASE EnterModem
    BY <1>2, EnterTells DEF IInv
  <1>3. CASE OnModemRemoved
    BY <1>3, RemovedTells
  <1>4. CASE OnModemChanged
    BY <1>4, ChangedTells
  <1>5. CASE OnSignal
    BY <1>5, SampleTells DEF Hushed
  <1> QED  BY <1>1, <1>2, <1>3, <1>4, <1>5 DEF Provider

-----------------------------------------------------------------------------
(* What the provider says comes after all else.                            *)
LEMMA TellsMore ==
    ASSUME TypeOK, TypeOK', NEW d, Tells(d)
    PROVE  /\ Len(events) \in Nat /\ Len(events') \in Nat
           /\ DOMAIN events = 1..Len(events) /\ DOMAIN events' = 1..Len(events')
           /\ \A k \in DOMAIN events' : k \in DOMAIN events \/ k \in Len(events)+1..Len(events')
           /\ \A k \in DOMAIN events : k \in DOMAIN events' /\ events'[k] = events[k]
           /\ \A c : Leaving(c) => Leaving(c)'
           /\ \A c : c \notin unsure' => Sure(c)
           /\ \A c : c \notin Siblings(d) /\ Sure(c) => c \notin unsure'
  <1>1. events \in Seq(EventType) /\ events' \in Seq(EventType)
    BY DEF TypeOK, ProviderTypeOK
  <1>2. \A k \in 1..Len(events) : k \in 1..Len(events')
    BY <1>1 DEF Tells
  <1>3. \A c : Leaving(c) => Leaving(c)'
    BY <1>1, <1>2 DEF Tells, Leaving
  <1> QED  BY <1>1, <1>2, <1>3 DEF Tells, Sure

(* What is lost is lost for the whole module.                              *)
LEMMA FamiliesTold ==
    ASSUME Families, NEW d, Tells(d)
    PROVE  Families'
  BY KinMeans DEF Families, Tells

(* A modem that is taken off the list is said to leave.                    *)
LEMMA TidingsTold ==
    ASSUME TypeOK, TypeOK', Tidings, NEW d \in Ids, Tells(d)
    PROVE  Tidings'
  <1>0. /\ Len(events) \in Nat /\ Len(events') \in Nat
        /\ DOMAIN events = 1..Len(events) /\ DOMAIN events' = 1..Len(events')
        /\ \A k \in DOMAIN events' : k \in DOMAIN events \/ k \in Len(events)+1..Len(events')
        /\ \A k \in DOMAIN events : k \in DOMAIN events' /\ events'[k] = events[k]
        /\ \A c : c \notin unsure' => Sure(c)
    BY TellsMore
  <1>1. ASSUME NEW k \in DOMAIN events', NEW c, c = events'[k].dev, c \notin unsure',
               entries'[c] = None
        PROVE  \E l \in k..Len(events') :
                   events'[l].dev = c /\ events'[l].kind = "ModemRemoved"
    <2>1. CASE c = d
      <3>1. Len(events) < Len(events') /\ events'[Len(events')].kind = "ModemRemoved"
        BY <1>1, <2>1 DEF Tells
      <3>2. Len(events') \in k..Len(events') /\ Len(events') \in Len(events)+1..Len(events')
        BY <1>0, <1>1, <3>1
      <3>3. events'[Len(events')].dev = d
        BY <3>2 DEF Tells
      <3> QED  BY <2>1, <3>1, <3>2, <3>3
    <2>2. CASE c # d
      <3>1. k \in DOMAIN events /\ events[k].dev = c
        BY <1>0, <1>1, <2>2 DEF Tells
      <3>2. c \in Ids /\ Sure(c)
        BY <1>0, <1>1, <3>1 DEF TypeOK, ProviderTypeOK, EventType
      <3>3. entries[c] = None
        BY <1>1, <2>2, <3>2 DEF Tells
      <3>4. PICK l \in k..Len(events) : events[l].dev = c /\ events[l].kind = "ModemRemoved"
        BY <3>1, <3>2, <3>3 DEF Tidings
      <3>5. l \in k..Len(events') /\ events'[l] = events[l]
        BY <1>0, <3>1
      <3> QED  BY <3>4, <3>5
    <2> QED  BY <2>1, <2>2
  <1> QED  BY <1>1 DEF Tidings, Sure

(* So its row, if it is online, will hear of it.                           *)
LEMMA SweptTold ==
    ASSUME TypeOK, TypeOK', Swept, NEW d \in Ids, Tells(d), UNCHANGED runVars
    PROVE  Swept'
  <1>0. UNCHANGED <<task, sweep, modems>>
    BY DEF runVars, dbVars
  <1>1. ASSUME sweep = "done", NEW i \in DOMAIN modems, modems[i].present,
               NEW c, c = modems[i].dev, entries'[c] = None, c \notin unsure'
        PROVE  Leaving(c)' \/ (task.at = "sweep" /\ c \notin task.seen)
    <2>2. c \in Ids
      BY <1>1 DEF TypeOK, DbTypeOK, Table, ModemRow
    <2>3. CASE c = d
      <3>1. Len(events) < Len(events') /\ events'[Len(events')].kind = "ModemRemoved"
        BY <1>1, <2>3 DEF Tells
      <3>2. Len(events') \in DOMAIN events' /\ Len(events') \in Len(events)+1..Len(events')
        <4>1. Len(events) \in Nat /\ Len(events') \in Nat /\ DOMAIN events' = 1..Len(events')
          BY TellsMore
        <4> QED  BY <3>1, <4>1
      <3>3. events'[Len(events')].dev = d
        BY <3>2 DEF Tells
      <3>4. Leaving(c)'
        BY <2>3, <3>1, <3>2, <3>3 DEF Leaving
      <3> QED  BY <3>4
    <2>4. CASE c # d
      <3>1. entries[c] = None /\ Sure(c)
        BY <1>1, <2>2, <2>4, TellsMore DEF Tells
      <3>2. Leaving(c) \/ (task.at = "sweep" /\ c \notin task.seen)
        BY <1>1, <3>1 DEF Swept
      <3> QED  BY <3>2, TellsMore
    <2> QED  BY <2>3, <2>4
  <1>2. ASSUME sweep = "done", NEW i \in DOMAIN modems, modems[i].present,
               entries'[modems[i].dev] = None, modems[i].dev \notin unsure'
        PROVE  Leaving(modems[i].dev)' \/ (task.at = "sweep" /\ modems[i].dev \notin task.seen)
    <2>1. PICK c : c = modems[i].dev
      OBVIOUS
    <2>2. Leaving(c)' \/ (task.at = "sweep" /\ c \notin task.seen)
      BY <1>1, <1>2, <2>1
    <2> QED  BY <1>0, <2>1, <2>2 DEF Leaving
  <1> QED  BY <1>0, <1>2 DEF Swept, Sure

(* One the sweep did not see is added before anything else is said of it.  *)
LEMMA UnseenTold ==
    ASSUME TypeOK, TypeOK', Unseen, NEW d \in Ids, Tells(d), UNCHANGED runVars
    PROVE  Unseen'
  <1>0. UNCHANGED task
    BY DEF runVars
  <1>1. ASSUME task.at = "sweep", NEW c \in Ids \ task.seen, c \notin unsure'
        PROVE  Leaving(c)' \/ Arriving(c)' \/ Absent(c)'
    <2>0. Sure(c)
      BY <1>1, TellsMore
    <2>1. CASE Leaving(c)
      BY <2>1, TellsMore
    <2>5. /\ Len(events) \in Nat /\ Len(events') \in Nat
          /\ DOMAIN events = 1..Len(events) /\ DOMAIN events' = 1..Len(events')
          /\ \A k \in DOMAIN events' : k \in DOMAIN events \/ k \in Len(events)+1..Len(events')
          /\ \A k \in DOMAIN events : k \in DOMAIN events' /\ events'[k] = events[k]
      BY TellsMore
    <2>2. CASE Arriving(c)
      <3>1. PICK k \in DOMAIN events : /\ events[k].dev = c /\ events[k].kind = "ModemAdded"
                                       /\ \A j \in 1..k-1 : events[j].dev # c
        BY <2>2 DEF Arriving
      <3>2. k \in DOMAIN events' /\ events'[k] = events[k]
            /\ \A j \in 1..k-1 : events'[j] = events[j]
        BY <2>5, <3>1
      <3> QED  BY <3>1, <3>2 DEF Arriving
    <2>3. CASE Absent(c) /\ c # d
      <3>1. entries'[c] = None
        BY <2>3 DEF Absent, Tells
      <3>2. \A k \in DOMAIN events' : events'[k].dev # c
        BY <2>3, <2>5 DEF Absent, Tells
      <3> QED  BY <3>1, <3>2 DEF Absent
    <2>4. CASE Absent(c) /\ c = d
      <3>1. entries[d] = None /\ \A k \in DOMAIN events : events[k].dev # d
        BY <2>4 DEF Absent
      <3>2. PICK k : k = Len(events) + 1
        OBVIOUS
      <3>3. Len(events) < Len(events') /\ events'[k].kind = "ModemAdded"
        BY <1>1, <2>4, <3>1, <3>2 DEF Tells
      <3>6. k \in DOMAIN events' /\ k \in Len(events)+1..Len(events')
        BY <2>5, <3>2, <3>3
      <3>4. events'[k].dev = d
        BY <3>6 DEF Tells
      <3>5. \A j \in 1..k-1 : j \in DOMAIN events
        BY <2>5, <3>2
      <3> QED  BY <2>4, <2>5, <3>1, <3>3, <3>4, <3>5, <3>6 DEF Arriving
    <2> QED  BY <1>1, <2>0, <2>1, <2>2, <2>3, <2>4 DEF Unseen
  <1> QED  BY <1>0, <1>1 DEF Unseen, Sure

(* What the provider says does not disturb bindings.                       *)
LEMMA BindingsTold ==
    ASSUME TypeOK, TypeOK', Loose, Bindable, NEW d \in Ids, Tells(d), UNCHANGED runVars
    PROVE  Loose' /\ Bindable'
  <1>0. UNCHANGED <<task, modems, bound, scars>>
    BY DEF runVars, dbVars, Tells
  <1>3. /\ \A c : Leaving(c) => Leaving(c)'
        /\ \A c : c \notin unsure' => Sure(c)
    BY TellsMore
  <1>1. Loose'
    <2>1. ASSUME NEW i \in DOMAIN bound, ~modems[i].present
          PROVE  \/ i \in scars \/ modems[i].dev \in unsure' \/ Leaving(modems[i].dev)'
                 \/ task.at = "forget" /\ task.dev = modems[i].dev
      <3>1. PICK c : c = modems[i].dev
        OBVIOUS
      <3>2. Leaving(c) => Leaving(modems[i].dev)'
        BY <1>0, <1>3, <3>1 DEF Leaving
      <3> QED  BY <1>3, <2>1, <3>1, <3>2 DEF Loose
    <2> QED  BY <1>0, <2>1 DEF Loose, Sure
  <1>2. Bindable'
    <2>1. PICK c : c = task.dev
      OBVIOUS
    <2>2. Leaving(c) => Leaving(task.dev)'
      BY <1>0, <1>3, <2>1 DEF Leaving
    <2>3. task.dev \notin unsure' => Sure(task.dev)
      BY <1>3
    <2> QED  BY <1>0, <2>1, <2>2, <2>3 DEF Bindable, Sure
  <1> QED  BY <1>1, <1>2

(* Where a modem stands is not disturbed by events of other modules.       *)
LEMMA StandPast ==
    ASSUME NEW c, NEW s, NEW k \in Nat, NEW n \in Nat, 1 <= k, k <= n, Stand(c, k, s)',
           \A l \in k..n-1 : events'[l].dev \notin Siblings(c)
    PROVE  Stand(c, n, s)'
  <1>1. CASE \E j \in 1..k-1 :
                /\ events'[j].dev = c /\ events'[j].kind # "ModemRemoved" /\ events'[j].sim = s
                /\ \A l \in j+1..k-1 : events'[l].dev \notin Siblings(c)
    <2>1. PICK j \in 1..k-1 :
                /\ events'[j].dev = c /\ events'[j].kind # "ModemRemoved" /\ events'[j].sim = s
                /\ \A l \in j+1..k-1 : events'[l].dev \notin Siblings(c)
      BY <1>1
    <2>2. j \in 1..n-1 /\ \A l \in j+1..n-1 : l \in j+1..k-1 \/ l \in k..n-1
      OBVIOUS
    <2> QED  BY <2>1, <2>2 DEF Stand
  <1>2. CASE (\A j \in 1..k-1 : events'[j].dev \notin Siblings(c)) /\ Online(c, s)'
    <2>1. \A l \in 1..n-1 : l \in 1..k-1 \/ l \in k..n-1
      OBVIOUS
    <2> QED  BY <1>2, <2>1 DEF Stand
  <1> QED  BY <1>1, <1>2 DEF Stand

(* What stood before a place of the channel stands.                        *)
LEMMA StandTold ==
    ASSUME TypeOK, TypeOK', NEW d, Tells(d), UNCHANGED runVars,
           NEW c, NEW s, NEW k \in 1..Len(events)+1, Stand(c, k, s)
    PROVE  Stand(c, k, s)'
  <1>1. \A j \in 1..k-1 : events'[j] = events[j]
    BY TellsMore DEF Tells
  <1>2. Online(c, s) => Online(c, s)'
    <2>1. Leaving(c) => Leaving(c)'
      BY TellsMore
    <2> QED  BY <2>1 DEF Online, Kept, Holds, Shown, Binding, runVars, dbVars, cacheVars
  <1>3. \A j \in 1..k-1 : \A l \in j+1..k-1 : l \in 1..k-1
    OBVIOUS
  <1> QED  BY <1>1, <1>2, <1>3 DEF Stand

(* Other modules stand as they did; this one stands as was just said.      *)
LEMMA CurrentTold ==
    ASSUME TypeOK, TypeOK', NEW d \in Ids, d \in Siblings(d), Tells(d), UNCHANGED runVars,
           NEW c \in Ids
    PROVE  /\ c \notin Siblings(d) /\ Current(c) => Current(c)'
           /\ entries'[d] # None => Current(d)'
  <1>0. /\ Len(events) \in Nat /\ Len(events') \in Nat
        /\ DOMAIN events = 1..Len(events) /\ DOMAIN events' = 1..Len(events')
        /\ \A e : e \notin unsure' => Sure(e)
    BY TellsMore
  <1>4. Len(events) <= Len(events')
    BY DEF Tells
  <1>1. ASSUME c \notin Siblings(d), Current(c), c \notin unsure'
        PROVE  Stand(c, Len(events) + 1, entries[c].sim)'
    <2>1. PICK s, k, n : s = entries[c].sim /\ k = Len(events) + 1 /\ n = Len(events') + 1
      OBVIOUS
    <2>2. Stand(c, k, s)
      BY <1>0, <1>1, <2>1 DEF Current
    <2>3. k \in 1..Len(events)+1 /\ k \in Nat /\ n \in Nat /\ 1 <= k /\ k <= n
      BY <1>0, <1>4, <2>1
    <2>4. Stand(c, k, s)'
      BY <2>2, <2>3, StandTold
    <2>5. d \notin Siblings(c) /\ c # d
      BY <1>1, KinMeans
    <2>6. entries'[c].sim = s
      BY <2>1, <2>5 DEF Tells
    <2>7. \A l \in k..n-1 : l \in Len(events)+1..Len(events')
      BY <1>0, <2>1
    <2>8. \A l \in k..n-1 : events'[l].dev \notin Siblings(c)
      BY <2>5, <2>7 DEF Tells
    <2>9. Stand(c, n, s)'
      BY <2>3, <2>4, <2>8, StandPast
    <2> QED  BY <2>1, <2>6, <2>9
  <1>2. ASSUME entries'[d] # None, d \notin unsure'
        PROVE  Stand(d, Len(events) + 1, entries[d].sim)'
    <2>1. PICK s, k, n : s = entries'[d].sim /\ k = Len(events') /\ n = Len(events') + 1
      OBVIOUS
    <2>2. Len(events) < k /\ events'[k].kind # "ModemRemoved" /\ events'[k].sim = s
      BY <1>2, <2>1 DEF Tells
    <2>3. k \in Len(events)+1..Len(events') /\ k \in 1..n-1 /\ \A l \in k+1..n-1 : FALSE
      BY <1>0, <2>1, <2>2
    <2>4. events'[k].dev = d
      BY <2>3 DEF Tells
    <2>5. Stand(d, n, s)'
      BY <2>2, <2>3, <2>4 DEF Stand
    <2> QED  BY <2>1, <2>5
  <1> QED  BY <1>1, <1>2 DEF Current, Sure

(* An event that follows on what the provider has follows on what was said.*)
LEMMA ContinuedTold ==
    ASSUME TypeOK, TypeOK', NEW d \in Ids, Tells(d), UNCHANGED runVars, Continued,
           (\E k \in DOMAIN events' : k \notin DOMAIN events /\ events'[k].kind \in Following)
              => Current(d)
    PROVE  Continued'
  <1>0. /\ Len(events) \in Nat /\ Len(events') \in Nat
        /\ DOMAIN events = 1..Len(events) /\ DOMAIN events' = 1..Len(events')
        /\ \A k \in DOMAIN events' : k \in DOMAIN events \/ k \in Len(events)+1..Len(events')
        /\ \A k \in DOMAIN events : k \in DOMAIN events' /\ events'[k] = events[k]
        /\ \A e : e \notin unsure' => Sure(e)
    BY TellsMore
  <1>1. ASSUME NEW k \in DOMAIN events', events'[k].kind \in Following,
               events'[k].dev \notin unsure'
        PROVE  \E s \in Sims \cup {None} :
                  /\ Stand(events[k].dev, k, s)'
                  /\ events'[k].kind = "SignalSampled" => events'[k].sim = s
    <2>1. PICK c : c = events'[k].dev
      OBVIOUS
    <2>2. Sure(c)
      BY <1>0, <1>1, <2>1
    <2>3. CASE k \in DOMAIN events
      <3>1. events[k] = events'[k]
        BY <1>0, <2>3
      <3>2. PICK s \in Sims \cup {None} :
                Stand(c, k, s) /\ (events[k].kind = "SignalSampled" => events[k].sim = s)
        BY <1>1, <2>1, <2>2, <2>3, <3>1 DEF Continued, FollowsOn
      <3>3. k \in 1..Len(events)+1
        BY <1>0, <2>3
      <3>4. Stand(c, k, s)'
        BY <3>2, <3>3, StandTold
      <3> QED  BY <2>1, <3>1, <3>2, <3>4
    <2>4. CASE k \notin DOMAIN events
      <3>1. /\ k = Len(events) + 1 /\ entries[d] # None /\ c = d
            /\ events'[k].kind = "SignalSampled" => events'[k].sim = entries[d].sim
        BY <1>0, <1>1, <2>1, <2>4 DEF Tells
      <3>2. PICK s : s = entries[d].sim
        OBVIOUS
      <3>3. s \in Sims \cup {None}
        BY <3>1, <3>2 DEF TypeOK, ProviderTypeOK, Entry
      <3>4. Stand(d, k, s)
        BY <1>1, <2>2, <2>4, <3>1, <3>2 DEF Current
      <3>5. Stand(d, k, s)'
        BY <1>0, <3>1, <3>4, StandTold
      <3> QED  BY <2>1, <3>1, <3>2, <3>3, <3>5
    <2> QED  BY <2>3, <2>4
  <1> QED  BY <1>1 DEF Continued, FollowsOn, Sure

-----------------------------------------------------------------------------
(* The unique indexes and the cache.                                       *)

(* Rows that stay keep their keys.                                         *)
RowsStay ==
    /\ DOMAIN modems' \subseteq DOMAIN modems
    /\ \A i \in DOMAIN modems' : modems'[i].dev = modems[i].dev /\ modems'[i].imei = modems[i].imei

(* Marking rows absent changes nothing else of them.                       *)
LEMMA MarkedStay ==
    ASSUME TypeOK, NEW D, modems' = MarkedAbsent(modems, D)
    PROVE  /\ RowsStay /\ DOMAIN modems' = DOMAIN modems
           /\ \A i \in DOMAIN modems :
                 modems'[i].present <=> modems[i].present /\ modems[i].dev \notin D
  <1>1. DOMAIN modems' = DOMAIN modems
    BY DEF MarkedAbsent
  <1>2. ASSUME NEW j \in DOMAIN modems
        PROVE  /\ modems'[j].dev = modems[j].dev /\ modems'[j].imei = modems[j].imei
               /\ modems'[j].present <=> modems[j].present /\ modems[j].dev \notin D
    <2>1. PICK r \in ModemRow : r = modems[j]
      BY DEF TypeOK, DbTypeOK, Table
    <2>2. modems'[j] = IF r.dev \in D THEN [r EXCEPT !.present = FALSE] ELSE r
      BY <2>1 DEF MarkedAbsent
    <2>3. /\ [r EXCEPT !.present = FALSE].dev = r.dev
          /\ [r EXCEPT !.present = FALSE].imei = r.imei
          /\ [r EXCEPT !.present = FALSE].present = FALSE
      BY DEF ModemRow
    <2>4. CASE r.dev \in D
      BY <2>1, <2>2, <2>3, <2>4
    <2>5. CASE r.dev \notin D
      BY <2>1, <2>2, <2>5
    <2> QED  BY <2>4, <2>5
  <1> QED  BY <1>1, <1>2 DEF RowsStay

(* What a statement that succeeds does to the row of the modem.            *)
LEMMA UpsertedRow ==
    ASSUME TypeOK, NEW d \in Ids, NEW w \in Modules \cup {None}, NEW i,
           i = UpsertedId(modems, lastModem, d, w), modems' = Upserted(modems, lastModem, d, w)
    PROVE  /\ DOMAIN modems' = DOMAIN modems \cup {i}
           /\ modems'[i].dev = d /\ modems'[i].imei = w /\ modems'[i].present
           /\ \A j \in DOMAIN modems : j # i => modems'[j] = modems[j]
           /\ IF Conflict(modems, d, w) = {} THEN i = lastModem + 1 /\ i \notin DOMAIN modems
              ELSE i \in Conflict(modems, d, w) /\ i \in DOMAIN modems
  <1> DEFINE r == [dev |-> d, imei |-> w, present |-> TRUE]
  <1>1. modems' = WithRow(modems, i, r)
    BY DEF Upserted
  <1>2. r.dev = d /\ r.imei = w /\ r.present = TRUE
    OBVIOUS
  <1> HIDE DEF r
  <1>3. /\ DOMAIN modems' = DOMAIN modems \cup {i} /\ modems'[i] = r
        /\ \A j \in DOMAIN modems : j # i => modems'[j] = modems[j]
    BY <1>1 DEF WithRow
  <1>4. CASE Conflict(modems, d, w) = {}
    <2>1. i = lastModem + 1
      BY <1>4 DEF UpsertedId
    <2>2. i \notin DOMAIN modems
      BY <2>1 DEF TypeOK, DbTypeOK
    <2> QED  BY <1>2, <1>3, <1>4, <2>1, <2>2
  <1>5. CASE Conflict(modems, d, w) # {}
    <2>1. i \in Conflict(modems, d, w)
      BY <1>5 DEF UpsertedId
    <2>2. i \in DOMAIN modems
      BY <2>1 DEF Conflict, WithDevice, WithImei
    <2> QED  BY <1>2, <1>3, <1>5, <2>1, <2>2
  <1> QED  BY <1>4, <1>5

(* UpsertModem keeps identifiers and IMEIs unique.                         *)
LEMMA KeysUpserted ==
    ASSUME TypeOK, ModemKeys, NEW d \in Ids, NEW w \in Modules \cup {None},
           ~UpsertFails(modems, d, w), modems' = Upserted(modems, lastModem, d, w)
    PROVE  ModemKeys'
  <1>1. PICK i : i = UpsertedId(modems, lastModem, d, w)
    OBVIOUS
  <1>2. /\ DOMAIN modems' = DOMAIN modems \cup {i}
        /\ modems'[i].dev = d /\ modems'[i].imei = w
        /\ \A j \in DOMAIN modems : j # i => modems'[j] = modems[j]
        /\ Conflict(modems, d, w) # {} => i \in Conflict(modems, d, w)
    BY <1>1, UpsertedRow
  <1>3. \A j \in Conflict(modems, d, w) : j = i
    BY <1>2 DEF Conflict, WithDevice, WithImei, ModemKeys
  <1>4. \A j \in DOMAIN modems : modems[j].dev = d => j = i
    BY <1>3 DEF UpsertFails, WithDevice
  <1>5. \A j \in DOMAIN modems : w # None /\ modems[j].imei = w => j = i
    BY <1>3 DEF Conflict, WithImei
  <1> QED  BY <1>2, <1>4, <1>5 DEF ModemKeys

(* So does what leaves rows alone or deletes them.                         *)
LEMMA KeysStay ==
    ASSUME ModemKeys, RowsStay
    PROVE  ModemKeys'
  BY DEF ModemKeys, RowsStay

(* UpsertSim keeps ICCIDs unique, and every SIM that is there.             *)
LEMMA SimKeysUpserted ==
    ASSUME TypeOK, SimKeys, NEW s \in Sims,
           sims' = SimUpserted(sims, lastSim, s),
           lastSim' = IF WithIccid(sims, s) = {} THEN lastSim + 1 ELSE lastSim
    PROVE  /\ SimKeys'
           /\ DOMAIN sims \subseteq DOMAIN sims'
           /\ \A j \in DOMAIN sims : sims'[j] = sims[j]
           /\ \A j \in DOMAIN sims' : j \in DOMAIN sims \/ (j = lastSim + 1 /\ sims'[j] = s)
           /\ \E j \in DOMAIN sims' : sims'[j] = s
  <1>1. CASE WithIccid(sims, s) = {}
    <2>1. sims' = WithRow(sims, lastSim + 1, s)
      BY <1>1 DEF SimUpserted
    <2>2. lastSim + 1 \notin DOMAIN sims
      BY DEF TypeOK, DbTypeOK
    <2>3. PICK n : n = lastSim + 1
      OBVIOUS
    <2>4. /\ DOMAIN sims' = DOMAIN sims \cup {n} /\ sims'[n] = s
          /\ \A j \in DOMAIN sims : sims'[j] = sims[j]
      BY <2>1, <2>2, <2>3 DEF WithRow
    <2>5. \A j \in DOMAIN sims : sims[j] # s
      BY <1>1 DEF WithIccid
    <2> QED  BY <2>3, <2>4, <2>5 DEF SimKeys
  <1>2. CASE WithIccid(sims, s) # {}
    <2>1. sims' = sims
      BY <1>2 DEF SimUpserted
    <2> QED  BY <1>2, <2>1 DEF SimKeys, WithIccid
  <1> QED  BY <1>1, <1>2

(* The row getModemID finds.                                               *)
LEMMA ModemFound ==
    ASSUME TypeOK, ModemKeys, Cached, NEW d \in Ids
    PROVE  /\ \A i \in DOMAIN modems : modems[i].dev = d => ModemID(d) = i
           /\ modemIDs[d] # 0 => ModemID(d) = modemIDs[d]
           /\ ModemID(d) # 0 /\ modemIDs[d] = 0 =>
                 ModemID(d) \in DOMAIN modems /\ modems[ModemID(d)].dev = d
  <1>1. CASE modemIDs[d] # 0
    BY <1>1 DEF ModemID, Cached
  <1>2. CASE modemIDs[d] = 0
    <2>1. ModemID(d) = ModemIDByDevice(modems, d)
      BY <1>2 DEF ModemID
    <2>2. CASE WithDevice(modems, d) = {}
      BY <1>2, <2>1, <2>2 DEF ModemIDByDevice, WithDevice
    <2>3. CASE WithDevice(modems, d) # {}
      <3>1. ModemID(d) \in WithDevice(modems, d)
        BY <2>1, <2>3 DEF ModemIDByDevice
      <3> QED  BY <1>2, <3>1 DEF WithDevice, ModemKeys
    <2> QED  BY <2>2, <2>3
  <1> QED  BY <1>1, <1>2

(* The cache, by what a step does to it.                                   *)
LEMMA CachedStay ==
    ASSUME Cached, RowsStay, \A d \in Ids : modemIDs'[d] \in {modemIDs[d], 0}
    PROVE  Cached'
  BY DEF Cached, RowsStay

(* getModemID caches the row of the identifier.                            *)
LEMMA CachedFound ==
    ASSUME TypeOK, ModemKeys, Cached, UNCHANGED modems, NEW d \in Ids,
           modemIDs' = [modemIDs EXCEPT ![d] = ModemID(d)]
    PROVE  Cached'
  <1>1. \A c \in Ids : modemIDs'[c] = IF c = d THEN ModemID(d) ELSE modemIDs[c]
    BY DEF TypeOK, RunnerTypeOK
  <1>2. \A i \in DOMAIN modems : modems[i].dev = d => ModemID(d) = i
    BY ModemFound
  <1> QED  BY <1>1, <1>2 DEF Cached

(* UpsertModem caches it.                                                  *)
LEMMA CachedUpserted ==
    ASSUME TypeOK, ModemKeys, Cached, NEW d \in Ids, NEW w \in Modules \cup {None},
           ~UpsertFails(modems, d, w), modems' = Upserted(modems, lastModem, d, w),
           modemIDs' = [modemIDs EXCEPT ![d] = UpsertedId(modems, lastModem, d, w)]
    PROVE  Cached'
  <1>1. PICK i : i = UpsertedId(modems, lastModem, d, w)
    OBVIOUS
  <1>2. /\ DOMAIN modems' = DOMAIN modems \cup {i} /\ modems'[i].dev = d
        /\ \A j \in DOMAIN modems : j # i => modems'[j] = modems[j]
    BY <1>1, UpsertedRow
  <1>3. \A c \in Ids : modemIDs'[c] = IF c = d THEN i ELSE modemIDs[c]
    BY <1>1 DEF TypeOK, RunnerTypeOK
  <1>4. ModemKeys'
    BY KeysUpserted
  <1> QED  BY <1>2, <1>3, <1>4 DEF Cached, ModemKeys

-----------------------------------------------------------------------------
(* The runner and the requests.                                            *)

\* A step that is not about d.
Spares(d) ==
    /\ modemIDs'[d] = modemIDs[d] /\ simIDs'[d] = simIDs[d]
    /\ Leaving(d) => Leaving(d)'
    /\ \/ UNCHANGED task
       \/ /\ ~Binding(d) /\ ~Binding(d)'
          /\ task'.at \in {"bind", "forget"} => task'.dev \notin Siblings(d)
    /\ modemIDs[d] \in DOMAIN modems' =>
          modemIDs[d] \in DOMAIN modems /\ modems'[modemIDs[d]].dev = modems[modemIDs[d]].dev
    /\ modemIDs[d] \in DOMAIN bound' => modemIDs[d] \in DOMAIN bound
    /\ modemIDs[d] \in DOMAIN modems /\ modems[modemIDs[d]].present =>
          \/ Leaving(d)'
          \/ /\ modemIDs[d] \in DOMAIN modems' /\ modems'[modemIDs[d]].present
             /\ modemIDs[d] \in DOMAIN bound =>
                   /\ modemIDs[d] \in DOMAIN bound'
                   /\ sims'[bound'[modemIDs[d]]] = sims[bound[modemIDs[d]]]
    /\ simIDs[d] \in DOMAIN sims' =>
          simIDs[d] \in DOMAIN sims /\ sims'[simIDs[d]] = sims[simIDs[d]]

(* What is not about d leaves it online.                                   *)
LEMMA OnlineSpared ==
    ASSUME NEW d, NEW s, Spares(d), Online(d, s)
    PROVE  Online(d, s)'
  <1>0. PICK i : i = modemIDs[d]
    OBVIOUS
  <1>1. Kept(d)'
    BY <1>0 DEF Spares, Online, Kept, Binding
  <1>2. Holds(d, s)'
    BY <1>0 DEF Spares, Online, Holds, Binding
  <1>3. Leaving(d)' \/ Shown(d, s)'
    BY <1>0 DEF Spares, Online, Shown, Binding
  <1> QED  BY <1>1, <1>2, <1>3 DEF Online

(* The head of the channel is handled.                                     *)
LEMMA Taken ==
    ASSUME TypeOK, NEW kinds, Take(kinds)
    PROVE  /\ Len(events) \in Nat /\ Len(events) >= 1 /\ Len(events') = Len(events) - 1
           /\ DOMAIN events = 1..Len(events) /\ DOMAIN events' = 1..Len(events)-1
           /\ \A k \in 1..Len(events)-1 : k+1 \in DOMAIN events /\ events'[k] = events[k+1]
           /\ Head(events) = events[1] /\ 1 \in DOMAIN events
           /\ events[1] \in EventType /\ events[1].kind \in kinds /\ task = Idle
           /\ events[1].dev \in Ids
  <1>1. events \in Seq(EventType) /\ events # <<>> /\ events' = Tail(events)
    BY DEF Take, TypeOK, ProviderTypeOK
  <1>2. Head(events) = events[1]
    BY <1>1
  <1> QED  BY <1>1, <1>2, TakeType DEF Take

(* A leaving is not forgotten before it is handled.                        *)
LEMMA LeavingTaken ==
    ASSUME TypeOK, NEW kinds, Take(kinds), NEW d, Leaving(d),
           ~(events[1].dev = d /\ events[1].kind = "ModemRemoved")
    PROVE  Leaving(d)'
  <1>1. PICK k \in DOMAIN events : events[k].dev = d /\ events[k].kind = "ModemRemoved"
    BY DEF Leaving
  <1>2. k # 1
    BY <1>1
  <1>3. PICK j : j = k - 1
    OBVIOUS
  <1>4. j \in DOMAIN events' /\ events'[j] = events[k]
    BY <1>1, <1>2, <1>3, Taken
  <1> QED  BY <1>1, <1>4 DEF Leaving

(* Once the head is handled, all stands as it did, one place earlier.      *)
LEMMA StandTaken ==
    ASSUME TypeOK, NEW kinds, Take(kinds), NEW d, d \in Siblings(d), NEW s,
           events[1].dev \notin Siblings(d) /\ Online(d, s) => Online(d, s)',
           /\ events[1].dev = d /\ events[1].kind # "ModemRemoved" /\ events[1].sim = s
              => Online(d, s)',
           NEW k \in 2..Len(events)+1, Stand(d, k, s)
    PROVE  Stand(d, k-1, s)'
  <1>1. \A l \in 1..k-2 : l+1 \in 2..k-1 /\ l+1 \in 1..k-1 /\ events'[l] = events[l+1]
    BY Taken
  <1>2. (k-1)-1 = k-2 /\ 1 \in 1..k-1
    OBVIOUS
  <1>3. CASE \E j \in 1..k-1 :
                /\ events[j].dev = d /\ events[j].kind # "ModemRemoved" /\ events[j].sim = s
                /\ \A l \in j+1..k-1 : events[l].dev \notin Siblings(d)
    <2>1. PICK j \in 1..k-1 :
                /\ events[j].dev = d /\ events[j].kind # "ModemRemoved" /\ events[j].sim = s
                /\ \A l \in j+1..k-1 : events[l].dev \notin Siblings(d)
      BY <1>3
    <2>2. CASE j = 1
      <3>1. Online(d, s)'
        BY <2>1, <2>2
      <3>2. \A l \in 1..k-2 : events'[l].dev \notin Siblings(d)
        BY <1>1, <2>1, <2>2
      <3> QED  BY <1>2, <3>1, <3>2 DEF Stand
    <2>3. CASE j # 1
      <3>1. PICK n : n = j - 1
        OBVIOUS
      <3>2. n \in 1..k-2 /\ n + 1 = j
        BY <2>1, <2>3, <3>1
      <3>3. \A l \in n+1..k-2 : l \in 1..k-2 /\ l+1 \in j+1..k-1
        BY <3>2
      <3> QED  BY <1>1, <1>2, <2>1, <3>2, <3>3 DEF Stand
    <2> QED  BY <2>2, <2>3
  <1>4. CASE (\A j \in 1..k-1 : events[j].dev \notin Siblings(d)) /\ Online(d, s)
    <2>1. Online(d, s)' /\ \A l \in 1..k-2 : events'[l].dev \notin Siblings(d)
      BY <1>1, <1>2, <1>4
    <2> QED  BY <1>2, <2>1 DEF Stand
  <1> QED  BY <1>3, <1>4 DEF Stand

(* A step that handles no event matters only to what the tables show.      *)
LEMMA StandStill ==
    ASSUME UNCHANGED events, NEW d, d \in Siblings(d), NEW s, NEW k, Stand(d, k, s),
           \/ \E j \in 1..k-1 : events[j].dev = d
           \/ Online(d, s) => Online(d, s)'
    PROVE  Stand(d, k, s)'
  BY DEF Stand

(* A row the statement updates is one of the same module.                  *)
LEMMA UpsertedKin ==
    ASSUME RowsOf, NEW c, NEW w, NEW m \in Modules, Of(c, w, m),
           NEW i \in Conflict(modems, c, w)
    PROVE  i \in DOMAIN modems /\ modems[i].dev \in IdsOf[m]
  <1>0. i \in DOMAIN modems
    BY DEF Conflict, WithDevice, WithImei
  <1>1. CASE w = None
    BY <1>0, <1>1 DEF Conflict, WithDevice, Of
  <1>2. CASE w # None
    <2>1. w = m /\ modems[i].imei = m
      BY <1>2 DEF Conflict, WithImei, Of
    <2> QED  BY <1>0, <2>1, NoneIsNothing DEF RowsOf, Of
  <1> QED  BY <1>1, <1>2

(* The first statement of UpsertSim, in the middle of handling c.          *)
LEMMA SimTaken ==
    ASSUME TypeOK, SimKeys, task = Idle, NEW c, NEW i, NEW s \in Sims, UpsertSim(c, i, s)
    PROVE  /\ IF s \in Locked THEN task' = Idle
              ELSE task' = [at |-> "bind", dev |-> c, row |-> i, sim |-> s]
           /\ DOMAIN sims \subseteq DOMAIN sims'
           /\ \A j \in DOMAIN sims : sims'[j] = sims[j]
           /\ \A j \in 0..lastSim : j \in DOMAIN sims' => j \in DOMAIN sims
           /\ SimKeys'
  <1>1. CASE s \in Locked
    BY <1>1 DEF UpsertSim, SimKeys
  <1>2. CASE s \notin Locked
    <2>1. /\ sims' = SimUpserted(sims, lastSim, s)
          /\ lastSim' = IF WithIccid(sims, s) = {} THEN lastSim + 1 ELSE lastSim
          /\ task' = [at |-> "bind", dev |-> c, row |-> i, sim |-> s]
      BY <1>2 DEF UpsertSim
    <2>2. lastSim \in Nat
      BY DEF TypeOK, DbTypeOK
    <2>3. \A j \in DOMAIN sims' : j \in DOMAIN sims \/ j = lastSim + 1
      BY <2>1, SimKeysUpserted
    <2> QED  BY <1>2, <2>1, <2>2, <2>3, SimKeysUpserted
  <1> QED  BY <1>1, <1>2

(* The row of another module is not touched by UpsertModem.                *)
LEMMA ModemSpares ==
    ASSUME IInv, Unmixed, SimKeys, HandleModem, NEW d \in Ids, d \in Siblings(d), Kept(d),
           events[1].dev \notin Siblings(d)
    PROVE  Spares(d)
  <1> USE DEF IInv
  <1>1. PICK e \in EventType : e = Head(events) /\ e = events[1]
    BY Taken DEF HandleModem
  <1>2. PICK c, w, s : c = e.dev /\ w = e.imei /\ s = e.sim
    OBVIOUS
  <1>3. c \in Ids /\ w \in Modules \cup {None} /\ s \in Sims \cup {None}
    BY <1>1, <1>2 DEF EventType
  <1>4. EventOf(e) /\ task = Idle
    BY <1>1, Taken DEF Unmixed, EventsOf, HandleModem
  <1>5. PICK m \in Modules : Of(c, w, m)
    BY <1>2, <1>4 DEF EventOf
  <1>6. c # d /\ c \notin Siblings(d) /\ d \notin IdsOf[m]
    BY <1>1, <1>2, <1>5, KinMeans DEF Of
  <1>7. Leaving(d) => Leaving(d)'
    BY <1>1, <1>2, <1>6, LeavingTaken DEF HandleModem
  <1>8. CASE UpsertFails(modems, c, w)
    <2>1. UNCHANGED <<task, cacheVars, modems, sims, bound>>
      BY <1>1, <1>2, <1>8 DEF HandleModem
    <2> QED  BY <1>7, <2>1 DEF Spares, cacheVars
  <1>9. CASE ~UpsertFails(modems, c, w)
    <2>1. PICK i : i = UpsertedId(modems, lastModem, c, w)
      OBVIOUS
    <2>2. /\ modems' = Upserted(modems, lastModem, c, w)
          /\ modemIDs' = [modemIDs EXCEPT ![c] = i]
          /\ IF s = None THEN TakeSimOut(c, i) /\ UNCHANGED <<task, sims, lastSim>>
             ELSE UpsertSim(c, i, s) /\ UNCHANGED <<bound, simIDs>>
      BY <1>1, <1>2, <1>9, <2>1 DEF HandleModem
    <2>3. /\ DOMAIN modems' = DOMAIN modems \cup {i}
          /\ \A j \in DOMAIN modems : j # i => modems'[j] = modems[j]
          /\ IF Conflict(modems, c, w) = {} THEN i = lastModem + 1 /\ i \notin DOMAIN modems
             ELSE i \in Conflict(modems, c, w) /\ i \in DOMAIN modems
      BY <1>3, <2>1, <2>2, UpsertedRow
    <2>4. modemIDs[d] # i
      <3>1. CASE i = lastModem + 1
        BY <3>1 DEF TypeOK, RunnerTypeOK, DbTypeOK
      <3>2. CASE i \in Conflict(modems, c, w)
        <4>1. i \in DOMAIN modems /\ modems[i].dev \in IdsOf[m]
          BY <1>5, <3>2, UpsertedKin DEF Unmixed
        <4> QED  BY <1>6, <4>1 DEF Kept
      <3> QED  BY <2>3, <3>1, <3>2
    <2>5. modemIDs'[d] = modemIDs[d] /\ simIDs'[d] = simIDs[d]
      BY <1>3, <1>6, <2>2 DEF TypeOK, RunnerTypeOK, TakeSimOut
    <2>6. /\ modemIDs[d] \in DOMAIN bound' <=> modemIDs[d] \in DOMAIN bound
          /\ modemIDs[d] \in DOMAIN bound => bound'[modemIDs[d]] = bound[modemIDs[d]]
      BY <2>2, <2>4 DEF TakeSimOut, Unbind, Without
    <2>7. /\ DOMAIN sims \subseteq DOMAIN sims'
          /\ \A j \in DOMAIN sims : sims'[j] = sims[j]
          /\ \A j \in 0..lastSim : j \in DOMAIN sims' => j \in DOMAIN sims
          /\ task' = Idle \/ (task'.at = "bind" /\ task'.dev = c)
      <3>1. CASE s = None
        BY <1>4, <2>2, <3>1
      <3>2. CASE s # None
        <4>1. s \in Sims /\ UpsertSim(c, i, s)
          BY <1>3, <2>2, <3>2
        <4> QED  BY <1>4, <4>1, SimTaken
      <3> QED  BY <3>1, <3>2
    <2>8. simIDs[d] \in 0..lastSim
      BY DEF TypeOK, RunnerTypeOK
    <2>9. modemIDs[d] \in DOMAIN bound => sims'[bound'[modemIDs[d]]] = sims[bound[modemIDs[d]]]
      BY <2>6, <2>7 DEF TypeOK, DbTypeOK, BindingsOK
    <2>10. /\ ~Binding(d) /\ ~Binding(d)'
           /\ task'.at \in {"bind", "forget"} => task'.dev \notin Siblings(d)
      BY <1>4, <1>6, <2>7 DEF Binding, Idle
    <2>11. /\ modemIDs[d] \in DOMAIN modems' <=> modemIDs[d] \in DOMAIN modems
           /\ modemIDs[d] \in DOMAIN modems => modems'[modemIDs[d]] = modems[modemIDs[d]]
      BY <2>3, <2>4
    <2> QED  BY <1>7, <2>5, <2>6, <2>7, <2>8, <2>9, <2>10, <2>11 DEF Spares
  <1> QED  BY <1>8, <1>9

(* EventSimUpdated of another module.                                      *)
LEMMA SimSpares ==
    ASSUME IInv, SimKeys, HandleSim, NEW d \in Ids, d \in Siblings(d),
           events[1].dev \notin Siblings(d)
    PROVE  Spares(d)
  <1> USE DEF IInv
  <1>1. PICK e \in EventType : e = Head(events) /\ e = events[1] /\ e.kind = "SimUpdated"
    BY Taken DEF HandleSim
  <1>2. PICK c, s, i : c = e.dev /\ s = e.sim /\ i = ModemID(c)
    OBVIOUS
  <1>3. c \in Ids /\ s \in Sims /\ task = Idle
    BY <1>1, <1>2, Taken DEF EventType, HandleSim
  <1>6. c # d /\ c \notin Siblings(d)
    BY <1>1, <1>2
  <1>7. Leaving(d) => Leaving(d)'
    BY <1>1, <1>2, <1>6, LeavingTaken DEF HandleSim
  <1>8. /\ modemIDs' = [modemIDs EXCEPT ![c] = i] /\ UpsertSim(c, i, s)
        /\ UNCHANGED <<simIDs, modems, bound>>
    BY <1>1, <1>2 DEF HandleSim
  <1>9. modemIDs'[d] = modemIDs[d]
    BY <1>3, <1>6, <1>8 DEF TypeOK, RunnerTypeOK
  <1>10. /\ DOMAIN sims \subseteq DOMAIN sims'
         /\ \A j \in DOMAIN sims : sims'[j] = sims[j]
         /\ \A j \in 0..lastSim : j \in DOMAIN sims' => j \in DOMAIN sims
         /\ task' = Idle \/ (task'.at = "bind" /\ task'.dev = c)
    BY <1>3, <1>8, SimTaken
  <1>11. simIDs[d] \in 0..lastSim
    BY DEF TypeOK, RunnerTypeOK
  <1>12. modemIDs[d] \in DOMAIN bound => sims'[bound'[modemIDs[d]]] = sims[bound[modemIDs[d]]]
    BY <1>8, <1>10 DEF TypeOK, DbTypeOK, BindingsOK
  <1>13. /\ ~Binding(d) /\ ~Binding(d)'
         /\ task'.at \in {"bind", "forget"} => task'.dev \notin Siblings(d)
    BY <1>3, <1>6, <1>10 DEF Binding, Idle
  <1> QED  BY <1>7, <1>8, <1>9, <1>10, <1>11, <1>12, <1>13 DEF Spares

(* EventSignalSampled of another module.                                   *)
LEMMA SampleSpares ==
    ASSUME IInv, HandleSample, NEW d \in Ids, d \in Siblings(d),
           events[1].dev \notin Siblings(d)
    PROVE  Spares(d)
  <1> USE DEF IInv
  <1>1. PICK c : c = Head(events).dev /\ c = events[1].dev /\ c \in Ids
    BY Taken DEF HandleSample
  <1>2. c # d
    BY <1>1
  <1>3. Leaving(d) => Leaving(d)'
    BY <1>1, <1>2, LeavingTaken DEF HandleSample
  <1>4. PICK x : x = SampleRow(Head(events))
    OBVIOUS
  <1>5. /\ modemIDs' = [modemIDs EXCEPT ![c] = x.modem] /\ simIDs' = [simIDs EXCEPT ![c] = x.sim]
        /\ UNCHANGED <<task, modems, bound, sims>>
    BY <1>1, <1>4 DEF HandleSample
  <1>6. modemIDs'[d] = modemIDs[d] /\ simIDs'[d] = simIDs[d]
    BY <1>1, <1>2, <1>5 DEF TypeOK, RunnerTypeOK
  <1> QED  BY <1>3, <1>5, <1>6 DEF Spares

(* EventModemRemoved of another module.                                    *)
LEMMA RemovedSpares ==
    ASSUME IInv, HandleRemoved, NEW d \in Ids, d \in Siblings(d), Kept(d),
           events[1].dev \notin Siblings(d)
    PROVE  Spares(d)
  <1> USE DEF IInv
  <1>1. PICK c : c = Head(events).dev /\ c = events[1].dev /\ task = Idle
    BY Taken DEF HandleRemoved
  <1>2. c # d
    BY <1>1
  <1>3. Leaving(d) => Leaving(d)'
    BY <1>1, <1>2, LeavingTaken DEF HandleRemoved
  <1>4. /\ modems' = MarkedAbsent(modems, {c}) /\ task' = [at |-> "forget", dev |-> c]
        /\ UNCHANGED <<modemIDs, simIDs, bound, sims>>
    BY <1>1 DEF HandleRemoved, cacheVars
  <1>5. /\ DOMAIN modems' = DOMAIN modems
        /\ \A i \in DOMAIN modems : /\ modems'[i].dev = modems[i].dev
                                    /\ modems'[i].present <=> modems[i].present /\ modems[i].dev # c
    BY <1>4, MarkedStay DEF RowsStay
  <1>6. /\ ~Binding(d) /\ ~Binding(d)' /\ task'.dev \notin Siblings(d)
    BY <1>1, <1>4 DEF Binding, Idle
  <1> QED  BY <1>2, <1>3, <1>4, <1>5, <1>6 DEF Spares, Kept

(* The modem an event is about is online once the event is handled.        *)
LEMMA ModemShows ==
    ASSUME IInv, Unmixed, SimKeys, HandleModem,
           NEW d, d = events[1].dev, NEW s, s = events[1].sim, d \notin unsure'
    PROVE  Online(d, s)'
  <1> USE DEF IInv
  <1>1. PICK e \in EventType : e = Head(events) /\ e = events[1]
    BY Taken DEF HandleModem
  <1>2. PICK w : w = e.imei /\ s = e.sim
    BY <1>1
  <1>3. d \in Ids /\ w \in Modules \cup {None} /\ s \in Sims \cup {None} /\ task = Idle
    BY <1>1, <1>2, Taken DEF EventType, HandleModem
  <1>4. d \in Siblings(d)
    BY <1>1, KinOfAll, Taken DEF HandleModem
  <1>5. ~UpsertFails(modems, d, w)
    BY <1>1, <1>2, <1>4 DEF HandleModem, Refuse
  <1>6. PICK i : i = UpsertedId(modems, lastModem, d, w)
    OBVIOUS
  <1>7. /\ modems' = Upserted(modems, lastModem, d, w)
        /\ modemIDs' = [modemIDs EXCEPT ![d] = i]
        /\ IF s = None THEN TakeSimOut(d, i) /\ UNCHANGED <<task, sims, lastSim>>
           ELSE UpsertSim(d, i, s) /\ UNCHANGED <<bound, simIDs>>
    BY <1>1, <1>2, <1>5, <1>6 DEF HandleModem
  <1>8. /\ DOMAIN modems' = DOMAIN modems \cup {i}
        /\ modems'[i].dev = d /\ modems'[i].present
        /\ IF Conflict(modems, d, w) = {} THEN i = lastModem + 1 /\ i \notin DOMAIN modems
           ELSE i \in Conflict(modems, d, w) /\ i \in DOMAIN modems
    BY <1>3, <1>6, <1>7, UpsertedRow
  <1>9. i # 0 /\ i \in DOMAIN modems' /\ modemIDs'[d] = i
    BY <1>3, <1>7, <1>8 DEF TypeOK, RunnerTypeOK, DbTypeOK, Table
  <1>10. CASE s = None
    <2>1. task' = Idle /\ simIDs' = [simIDs EXCEPT ![d] = 0] /\ bound' = Without(bound, {i})
      BY <1>3, <1>7, <1>10 DEF TakeSimOut, Unbind
    <2>2. simIDs'[d] = 0 /\ i \notin DOMAIN bound'
      BY <1>3, <2>1 DEF TypeOK, RunnerTypeOK, Without
    <2>3. ~Binding(d)' /\ task'.at \notin {"bind", "forget"}
      BY <2>1 DEF Binding, Idle
    <2>4. Kept(d)' /\ Shown(d, s)'
      BY <1>8, <1>9, <1>10, <2>3, NoneIsNothing DEF Kept, Shown
    <2>5. Holds(d, s)'
      BY <1>9, <1>10, <2>2, <2>3, NoneIsNothing DEF Holds
    <2> QED  BY <1>1, <1>2, <2>4, <2>5 DEF Online
  <1>11. CASE s \in Sims
    <2>0. s # None
      BY <1>11, NoneIsNothing
    <2>1. /\ IF s \in Locked THEN task' = Idle
             ELSE task' = [at |-> "bind", dev |-> d, row |-> i, sim |-> s]
      BY <1>3, <1>7, <1>11, <2>0, SimTaken
    <2>2. CASE s \in Locked
      <3>1. task'.at \notin {"bind", "forget"}
        BY <2>1, <2>2 DEF Idle
      <3>2. Kept(d)' /\ Shown(d, s)' /\ Holds(d, s)'
        BY <1>8, <1>9, <2>0, <2>2, <3>1 DEF Kept, Shown, Holds
      <3> QED  BY <1>1, <1>2, <3>2 DEF Online
    <2>3. CASE s \notin Locked
      <3>1. Binding(d)' /\ task'.row = i /\ task'.sim = s
        BY <2>1, <2>3 DEF Binding
      <3>2. Kept(d)' /\ Shown(d, s)' /\ Holds(d, s)'
        BY <1>8, <1>9, <2>0, <3>1 DEF Kept, Shown, Holds
      <3> QED  BY <1>1, <1>2, <3>2 DEF Online
    <2> QED  BY <2>2, <2>3
  <1> QED  BY <1>3, <1>10, <1>11

\* The modem the head of the channel is about is online before it.
Stood == events # <<>> /\ events[1].kind \in Following /\ Sure(events[1].dev) =>
    \E s \in Sims \cup {None} :
        /\ Online(events[1].dev, s)
        /\ events[1].kind = "SignalSampled" => events[1].sim = s

(* That is what the channel promises of its head.                          *)
LEMMA HeadStood ==
    ASSUME TypeOK, Continued
    PROVE  Stood
  <1>1. ASSUME events # <<>>, events[1].kind \in Following, Sure(events[1].dev)
        PROVE  FollowsOn(1)
    BY <1>1 DEF Continued, TypeOK, ProviderTypeOK
  <1>2. \A d, s : Stand(d, 1, s) => Online(d, s)
    BY DEF Stand
  <1> QED  BY <1>1, <1>2 DEF Stood, FollowsOn

(* After EventSimUpdated, the runner is about to bind the SIM it names.    *)
LEMMA SimShows ==
    ASSUME IInv, SimKeys, ModemKeys, Cached, Stood, HandleSim,
           NEW d, d = events[1].dev, NEW s, s = events[1].sim, d \notin unsure'
    PROVE  Online(d, s)'
  <1> USE DEF IInv
  <1>1. PICK e \in EventType : e = Head(events) /\ e = events[1] /\ e.kind = "SimUpdated"
    BY Taken DEF HandleSim
  <1>2. PICK i : s = e.sim /\ i = modemIDs[d]
    BY <1>1
  <1>3. d \in Ids /\ s \in Sims /\ task = Idle /\ events # <<>> /\ s # None
    BY <1>1, <1>2, Taken, NoneIsNothing DEF EventType, HandleSim, Take
  <1>4. Sure(d)
    BY DEF HandleSim, historyVars, Sure
  <1>5. PICK t : Online(d, t)
    BY <1>1, <1>3, <1>4 DEF Stood, Following
  <1>6. i # 0 /\ ModemID(d) = i /\ (i \in DOMAIN modems => modems[i].dev = d)
    BY <1>2, <1>3, <1>5, ModemFound DEF Online, Kept
  <1>7. /\ modemIDs' = [modemIDs EXCEPT ![d] = i] /\ UpsertSim(d, i, s)
        /\ UNCHANGED <<simIDs, modems, bound>>
    BY <1>1, <1>2, <1>6 DEF HandleSim
  <1>8. modemIDs'[d] = i
    BY <1>3, <1>7 DEF TypeOK, RunnerTypeOK
  <1>9. IF s \in Locked THEN task' = Idle
        ELSE task' = [at |-> "bind", dev |-> d, row |-> i, sim |-> s]
    BY <1>3, <1>7, SimTaken
  <1>10. Leaving(d)' \/ (i \in DOMAIN modems /\ modems[i].present)
    <2>1. Leaving(d) => Leaving(d)'
      BY <1>1, LeavingTaken DEF HandleSim
    <2> QED  BY <1>2, <1>5, <2>1 DEF Online, Shown
  <1>11. CASE s \in Locked
    <2>1. task'.at \notin {"bind", "forget"}
      BY <1>9, <1>11 DEF Idle
    <2>2. Kept(d)' /\ Holds(d, s)' /\ (Leaving(d)' \/ Shown(d, s)')
      BY <1>3, <1>6, <1>7, <1>8, <1>10, <1>11, <2>1 DEF Kept, Holds, Shown
    <2> QED  BY <1>1, <1>2, <2>2 DEF Online
  <1>12. CASE s \notin Locked
    <2>1. Binding(d)' /\ task'.row = i /\ task'.sim = s
      BY <1>9, <1>12 DEF Binding
    <2>2. Kept(d)' /\ Holds(d, s)' /\ (Leaving(d)' \/ Shown(d, s)')
      BY <1>3, <1>6, <1>7, <1>8, <1>10, <1>12, <2>1 DEF Kept, Holds, Shown
    <2> QED  BY <1>1, <1>2, <2>2 DEF Online
  <1> QED  BY <1>11, <1>12

(* EventSignalSampled fills the cache with what the tables show.           *)
LEMMA SampleShows ==
    ASSUME IInv, ModemKeys, Cached, Stood, HandleSample,
           NEW d, d = events[1].dev, NEW s, s = events[1].sim, d \notin unsure'
    PROVE  Online(d, s)'
  <1> USE DEF IInv
  <1>1. PICK e \in EventType : e = Head(events) /\ e = events[1] /\ e.kind = "SignalSampled"
    BY Taken DEF HandleSample
  <1>2. PICK i : s = e.sim /\ i = modemIDs[d]
    BY <1>1
  <1>3. d \in Ids /\ task = Idle /\ events # <<>>
    BY <1>1, Taken DEF HandleSample, Take
  <1>4. Sure(d)
    BY DEF HandleSample, historyVars, Refuse, Sure
  <1>5. Online(d, s)
    BY <1>1, <1>2, <1>3, <1>4 DEF Stood, Following
  <1>6. i # 0 /\ ModemID(d) = i /\ (i \in DOMAIN modems => modems[i].dev = d)
    BY <1>2, <1>3, <1>5, ModemFound DEF Online, Kept
  <1>7. /\ modemIDs' = [modemIDs EXCEPT ![d] = i] /\ simIDs' = [simIDs EXCEPT ![d] = SimID(d, i)]
        /\ UNCHANGED <<task, sims, modems, bound>>
    BY <1>1, <1>6 DEF HandleSample, SampleRow
  <1>8. modemIDs'[d] = i /\ simIDs'[d] = SimID(d, i)
    BY <1>3, <1>7 DEF TypeOK, RunnerTypeOK
  <1>9. ~Binding(d) /\ task.at \notin {"bind", "forget"}
    BY <1>3 DEF Binding, Idle
  <1>10. Kept(d)' /\ (Shown(d, s) => Shown(d, s)')
    BY <1>2, <1>6, <1>7, <1>8, <1>9 DEF Kept, Shown, Binding
  <1>11. Holds(d, s)'
    BY <1>2, <1>5, <1>7, <1>8, <1>9 DEF Online, Holds, Binding, SimID, SimIDByModem
  <1>12. Leaving(d) => Leaving(d)'
    BY <1>1, LeavingTaken DEF HandleSample
  <1> QED  BY <1>1, <1>2, <1>5, <1>10, <1>11, <1>12 DEF Online

(* The steps that take no event leave what is online online.               *)
LEMMA BindKeeps ==
    ASSUME IInv, SimKeys, Bindable, Bind, NEW d \in Ids, d \in Siblings(d),
           NEW s \in Sims \cup {None},
           Online(d, s), d \notin unsure'
    PROVE  Online(d, s)'
  <1> USE DEF IInv
  <1>1. PICK c, r, t, j, i : /\ c = task.dev /\ r = task.row /\ t = task.sim
                             /\ j = SimIDByIccid(sims, t) /\ i = modemIDs[d]
    OBVIOUS
  <1>2. /\ task.at = "bind" /\ task' = Idle /\ UNCHANGED <<events, modemIDs, modems, sims>>
        /\ \/ /\ j # 0 /\ (r = 0 \/ CanBind(modems, sims, r, j))
              /\ bound' = IF r = 0 THEN bound ELSE WithRow(bound, r, j)
              /\ simIDs' = [simIDs EXCEPT ![c] = j]
           \/ Refuse(c) /\ UNCHANGED <<bound, simIDs>>
    BY <1>1 DEF Bind
  <1>3. task'.at = "idle"
    BY <1>2 DEF Idle
  <1>4. Leaving(d)' <=> Leaving(d)
    BY <1>2 DEF Leaving
  <1>5. i # 0 /\ (i \in DOMAIN modems => modems[i].dev = d)
    BY <1>1 DEF Online, Kept
  <1>6. CASE c # d
    <2>1. ~Binding(d) /\ ~Binding(d)' /\ c \notin Siblings(d)
      BY <1>1, <1>2, <1>3, <1>6 DEF Binding, Online, Kept
    <2>2. ASSUME r = i, i \in DOMAIN modems PROVE FALSE
      <3>1. modems[i].dev \in Siblings(c)
        BY <1>1, <1>2, <2>2 DEF Bindable
      <3> QED  BY <1>5, <2>1, <2>2, <3>1, KinMeans
    <2>3. simIDs'[d] = simIDs[d]
      BY <1>2, <1>6 DEF TypeOK, RunnerTypeOK
    <2>4. /\ i \in DOMAIN bound' => i \in DOMAIN bound
          /\ i \in DOMAIN bound => i \in DOMAIN bound' /\ bound'[i] = bound[i]
      BY <1>2, <1>5, <2>2 DEF CanBind, WithRow, TypeOK, DbTypeOK, BindingsOK
    <2>5. Spares(d)
      BY <1>1, <1>2, <1>3, <1>4, <2>1, <2>3, <2>4 DEF Spares
    <2> QED  BY <2>5, OnlineSpared
  <1>7. CASE c = d
    <2>1. Binding(d) /\ r = i /\ s # None
      <3>1. Binding(d)
        BY <1>1, <1>2, <1>7 DEF Binding
      <3> QED  BY <1>1, <1>2, <1>7, <3>1 DEF Online, Kept, Holds
    <2>2. s \in Sims \ Locked => t = s
      BY <1>1, <2>1 DEF Online, Holds
    <2>3. /\ j # 0 /\ CanBind(modems, sims, i, j)
          /\ bound' = WithRow(bound, i, j) /\ simIDs' = [simIDs EXCEPT ![d] = j]
      BY <1>2, <1>5, <1>7, <2>1 DEF Refuse
    <2>4. j \in DOMAIN sims /\ sims[j] = t
      BY <1>1, <2>3 DEF SimIDByIccid, WithIccid
    <2>5. simIDs'[d] = j /\ i \in DOMAIN bound' /\ bound'[i] = j
      BY <2>3 DEF TypeOK, RunnerTypeOK, WithRow
    <2>6. ~Binding(d)'
      BY <1>3 DEF Binding
    <2>7. Kept(d)'
      BY <1>1, <1>2, <1>3, <1>5 DEF Kept
    <2>8. Holds(d, s)'
      BY <1>2, <2>1, <2>2, <2>3, <2>4, <2>5, <2>6 DEF Holds
    <2>9. Shown(d, s) => Shown(d, s)'
      BY <1>1, <1>2, <2>2, <2>4, <2>5 DEF Shown
    <2> QED  BY <1>4, <2>7, <2>8, <2>9 DEF Online
  <1> QED  BY <1>6, <1>7

(* ForgetModem forgets a modem of which nothing was handled since.         *)
LEMMA ForgetKeeps ==
    ASSUME IInv, RowsOf, ModemKeys, Cached, ForgetModem,
           NEW d \in Ids, d \in Siblings(d), NEW s, Online(d, s)
    PROVE  Online(d, s)'
  <1> USE DEF IInv
  <1>1. PICK c, i, j : c = task.dev /\ i = modemIDs[d] /\ j = ModemID(c)
    OBVIOUS
  <1>2. /\ task.at = "forget" /\ task' = Idle /\ bound' = Without(bound, {j})
        /\ modemIDs' = [modemIDs EXCEPT ![c] = 0] /\ simIDs' = [simIDs EXCEPT ![c] = 0]
        /\ UNCHANGED <<events, modems, sims>>
    BY <1>1 DEF ForgetModem, Unbind
  <1>3. task'.at = "idle"
    BY <1>2 DEF Idle
  <1>4. ~Binding(d) /\ ~Binding(d)' /\ c \notin Siblings(d) /\ c # d
    BY <1>1, <1>2, <1>3 DEF Binding, Online, Kept
  <1>5. c \in Ids
    BY <1>1, <1>2 DEF TypeOK, RunnerTypeOK, TaskType, Idle
  <1>6. modemIDs'[d] = modemIDs[d] /\ simIDs'[d] = simIDs[d]
    BY <1>2, <1>4, <1>5 DEF TypeOK, RunnerTypeOK
  <1>7. ASSUME i = j, i \in DOMAIN modems PROVE FALSE
    <2>1. modems[i].dev = d
      BY <1>1, <1>7 DEF Online, Kept
    <2>2. CASE modemIDs[c] = 0
      <3>1. modems[j].dev = c
        BY <1>1, <1>5, <1>7, <2>2, ModemFound DEF TypeOK, DbTypeOK, Table
      <3> QED  BY <1>4, <1>7, <2>1, <3>1
    <2>3. CASE modemIDs[c] # 0
      <3>1. modemIDs[c] = i
        BY <1>1, <1>5, <1>7, <2>3, ModemFound
      <3>2. PICK m \in Modules : c \in IdsOf[m] /\ d \in IdsOf[m]
        BY <1>5, <1>7, <2>1, <3>1 DEF RowsOf
      <3> QED  BY <1>4, <3>2, KinMeans
    <2> QED  BY <2>2, <2>3
  <1>8. /\ i \in DOMAIN bound' => i \in DOMAIN bound
        /\ i \in DOMAIN modems /\ i \in DOMAIN bound => i \in DOMAIN bound' /\ bound'[i] = bound[i]
    BY <1>2, <1>7 DEF Without
  <1>9. Leaving(d) => Leaving(d)'
    BY <1>2 DEF Leaving
  <1>10. Spares(d)
    BY <1>1, <1>2, <1>3, <1>4, <1>6, <1>8, <1>9 DEF Spares
  <1> QED  BY <1>10, OnlineSpared

(* The sweep looks.                                                        *)
LEMMA SweepKeeps ==
    ASSUME SweepLooks, NEW d, NEW s, Online(d, s)
    PROVE  Online(d, s)'
  <1>1. /\ UNCHANGED <<events, modems, sims, bound, modemIDs, simIDs>>
        /\ task.at = "idle" /\ task'.at \in {"idle", "sweep"}
    BY DEF SweepLooks, Idle, cacheVars, dbVars
  <1>2. Spares(d)
    BY <1>1 DEF Spares, Binding, Leaving
  <1> QED  BY <1>2, OnlineSpared

(* The sweep marks no modem it saw.                                        *)
LEMMA StaleKeeps ==
    ASSUME IInv, MarkStaleModemsAbsent, NEW d \in Ids, NEW s, Online(d, s),
           d \in task.seen \/ Leaving(d)
    PROVE  Online(d, s)'
  <1> USE DEF IInv
  <1>1. PICK i, S : i = modemIDs[d] /\ S = task.seen
    OBVIOUS
  <1>2. /\ task.at = "sweep" /\ task'.at = "idle" /\ modems' = MarkedAbsent(modems, Ids \ S)
        /\ bound' = Without(bound, {j \in DOMAIN modems : /\ modems[j].present
                                                          /\ modems[j].dev \notin S})
        /\ UNCHANGED <<events, sims, modemIDs, simIDs>>
    BY <1>1 DEF MarkStaleModemsAbsent, Idle, cacheVars
  <1>3. /\ DOMAIN modems' = DOMAIN modems
        /\ \A j \in DOMAIN modems : modems'[j].dev = modems[j].dev
        /\ \A j \in DOMAIN modems :
              modems'[j].present <=> modems[j].present /\ modems[j].dev \notin Ids \ S
    BY <1>2, MarkedStay DEF RowsStay
  <1>4. ~Binding(d) /\ ~Binding(d)' /\ (Leaving(d)' <=> Leaving(d))
    BY <1>2 DEF Binding, Leaving
  <1>5. i \in DOMAIN modems => modems[i].dev = d
    BY <1>1 DEF Online, Kept
  <1>6. i \in DOMAIN bound' => i \in DOMAIN bound
    BY <1>2 DEF Without
  <1>7. CASE Leaving(d)
    <2>1. Spares(d)
      BY <1>1, <1>2, <1>3, <1>4, <1>6, <1>7 DEF Spares
    <2> QED  BY <2>1, OnlineSpared
  <1>8. CASE d \in S
    <2>1. i \in DOMAIN modems =>
             /\ modems'[i].present <=> modems[i].present
             /\ i \in DOMAIN bound => i \in DOMAIN bound' /\ bound'[i] = bound[i]
      BY <1>2, <1>3, <1>5, <1>8 DEF Without
    <2>2. Spares(d)
      BY <1>1, <1>2, <1>3, <1>4, <1>6, <2>1 DEF Spares
    <2> QED  BY <2>2, OnlineSpared
  <1> QED  BY <1>1, <1>7, <1>8

(* Requests delete no row that is online and no SIM that is bound.         *)
LEMMA DeletesKeep ==
    ASSUME IInv, Http, NEW d \in Ids, NEW s, Online(d, s)
    PROVE  Online(d, s)'
  <1> USE DEF IInv
  <1>1. PICK i : i = modemIDs[d]
    OBVIOUS
  <1>2. UNCHANGED <<events, task, modemIDs, simIDs>>
    BY DEF Http, DeleteOfflineModem, DeleteUnusedSIM, cacheVars
  <1>3. Leaving(d)' <=> Leaving(d)
    BY <1>2 DEF Leaving
  <1>4. ASSUME NEW j \in DOMAIN modems, DeleteOfflineModem(j) PROVE Spares(d)
    <2>1. /\ ~modems[j].present /\ modems' = Without(modems, {j}) /\ bound' = Without(bound, {j})
          /\ UNCHANGED sims
      BY <1>4 DEF DeleteOfflineModem, Unbind
    <2>2. /\ i \in DOMAIN modems' => i \in DOMAIN modems /\ modems'[i] = modems[i]
          /\ i \in DOMAIN modems /\ i # j => i \in DOMAIN modems'
          /\ i \in DOMAIN bound' => i \in DOMAIN bound
          /\ i \in DOMAIN bound /\ i # j => i \in DOMAIN bound' /\ bound'[i] = bound[i]
      BY <2>1 DEF Without
    <2> QED  BY <1>1, <1>2, <1>3, <2>1, <2>2 DEF Spares
  <1>5. ASSUME NEW j \in DOMAIN sims, DeleteUnusedSIM(j) PROVE Spares(d)
    <2>1. Unbound(bound, j) /\ sims' = Without(sims, {j}) /\ UNCHANGED <<modems, bound>>
      BY <1>5 DEF DeleteUnusedSIM
    <2>2. \A k \in DOMAIN sims' : k \in DOMAIN sims /\ sims'[k] = sims[k]
      BY <2>1 DEF Without
    <2>3. i \in DOMAIN bound => bound[i] \in DOMAIN sims'
      BY <2>1 DEF Without, Unbound, TypeOK, DbTypeOK, BindingsOK
    <2> QED  BY <1>1, <1>2, <1>3, <2>1, <2>2, <2>3 DEF Spares
  <1>6. Spares(d)
    BY <1>4, <1>5 DEF Http
  <1> QED  BY <1>6, OnlineSpared

(* What is online before the head of the channel is so after it.           *)
LEMMA TakenKeeps ==
    ASSUME IInv, Unmixed, ModemKeys, SimKeys, Cached, Stood,
           HandleModem \/ HandleSim \/ HandleSample \/ HandleRemoved,
           NEW d \in Ids, d \in Siblings(d), d \notin unsure', NEW s,
           NEW k \in 2..Len(events)+1, Stand(d, k, s)
    PROVE  Stand(d, k-1, s)'
  <1> USE DEF IInv
  <1>1. CASE HandleModem
    <2>1. Online(d, s) /\ events[1].dev \notin Siblings(d) => Online(d, s)'
      BY <1>1, ModemSpares, OnlineSpared DEF Online
    <2>2. events[1].dev = d /\ events[1].sim = s => Online(d, s)'
      BY <1>1, ModemShows
    <2> QED  BY <1>1, <2>1, <2>2, StandTaken DEF HandleModem
  <1>2. CASE HandleSim
    <2>1. Online(d, s) /\ events[1].dev \notin Siblings(d) => Online(d, s)'
      BY <1>2, SimSpares, OnlineSpared
    <2>2. events[1].dev = d /\ events[1].sim = s => Online(d, s)'
      BY <1>2, SimShows
    <2> QED  BY <1>2, <2>1, <2>2, StandTaken DEF HandleSim
  <1>3. CASE HandleSample
    <2>1. Online(d, s) /\ events[1].dev \notin Siblings(d) => Online(d, s)'
      BY <1>3, SampleSpares, OnlineSpared
    <2>2. events[1].dev = d /\ events[1].sim = s => Online(d, s)'
      BY <1>3, SampleShows
    <2> QED  BY <1>3, <2>1, <2>2, StandTaken DEF HandleSample
  <1>4. CASE HandleRemoved
    <2>1. Online(d, s) /\ events[1].dev \notin Siblings(d) => Online(d, s)'
      BY <1>4, RemovedSpares, OnlineSpared DEF Online
    <2>2. events[1].kind = "ModemRemoved"
      BY <1>4, Taken DEF HandleRemoved
    <2> QED  BY <1>4, <2>1, <2>2, StandTaken DEF HandleRemoved
  <1> QED  BY <1>1, <1>2, <1>3, <1>4

\* The steps that take no event.
Pauses == \/ Bind \/ ForgetModem \/ SweepLooks \/ MarkStaleModemsAbsent \/ Http

(* They leave the channel alone.                                           *)
LEMMA PausesStill == Pauses => UNCHANGED events
  BY DEF Pauses, Bind, ForgetModem, SweepLooks, MarkStaleModemsAbsent, Http,
         DeleteOfflineModem, DeleteUnusedSIM

(* They leave what stands standing.                                        *)
LEMMA PausesKeep ==
    ASSUME IInv, Unmixed, ModemKeys, SimKeys, Cached, Bindable, Unseen, Pauses,
           NEW d \in Ids, d \in Siblings(d), d \notin unsure', NEW s \in Sims \cup {None},
           NEW k, Stand(d, k, s),
           Arriving(d) \/ Absent(d) => \E j \in 1..k-1 : events[j].dev = d
    PROVE  Stand(d, k, s)'
  <1>1. CASE Bind
    BY <1>1, BindKeeps, PausesStill, StandStill
  <1>2. CASE ForgetModem
    BY <1>2, ForgetKeeps, PausesStill, StandStill DEF Unmixed
  <1>3. CASE SweepLooks
    BY <1>3, SweepKeeps, PausesStill, StandStill
  <1>4. CASE MarkStaleModemsAbsent
    <2>1. Sure(d) /\ task.at = "sweep"
      BY <1>4 DEF MarkStaleModemsAbsent, historyVars, Sure
    <2>2. CASE d \in task.seen \/ Leaving(d)
      BY <1>4, <2>2, StaleKeeps, PausesStill, StandStill
    <2>3. CASE ~(d \in task.seen \/ Leaving(d))
      <3>1. Arriving(d) \/ Absent(d)
        BY <2>1, <2>3 DEF Unseen
      <3> QED  BY <3>1, PausesStill, StandStill
    <2> QED  BY <2>2, <2>3
  <1>5. CASE Http
    BY <1>5, DeletesKeep, PausesStill, StandStill
  <1> QED  BY <1>1, <1>2, <1>3, <1>4, <1>5 DEF Pauses

\* The steps that take one.
Handles == HandleModem \/ HandleSim \/ HandleSample \/ HandleRemoved

(* They are those of handle.                                               *)
LEMMA HandlesTake == Handles => \E kinds : Take(kinds)
  BY DEF Handles, HandleModem, HandleSim, HandleSample, HandleRemoved

(* None changes what is the provider's, and none makes sure what is not.   *)
LEMMA RunnerLeaves ==
    ASSUME Handles \/ Pauses
    PROVE  /\ UNCHANGED <<object, app, entries, byPath, matched, toAdd, adding, sigs, scars>>
           /\ unsure \subseteq unsure'
  <1>1. Quiet
    BY DEF Handles, Pauses, Quiet, Runner
  <1>2. UNCHANGED <<unsure, scars>> \/ \E d : Refuse(d)
    BY DEF Handles, Pauses, HandleModem, HandleSim, HandleSample, HandleRemoved, Bind,
           ForgetModem, SweepLooks, MarkStaleModemsAbsent, Http, DeleteOfflineModem,
           DeleteUnusedSIM, historyVars
  <1> QED  BY <1>1, <1>2, QuietLeaves DEF Refuse

(* The runner does not part from what the provider has.                    *)
LEMMA CurrentKept ==
    ASSUME IInv, IInv', Unmixed, ModemKeys, SimKeys, Cached, Bindable, Unseen, Continued,
           Handles \/ Pauses, NEW d \in Ids, entries[d] # None, Current(d)
    PROVE  Current(d)'
  <1> USE DEF IInv
  <1>1. d \in Siblings(d) /\ UNCHANGED entries /\ unsure \subseteq unsure'
    BY KinOfAll, RunnerLeaves
  <1>2. PICK s, k : s = entries[d].sim /\ k = Len(events) + 1
    OBVIOUS
  <1>3. s \in Sims \cup {None}
    BY <1>2 DEF TypeOK, ProviderTypeOK, Entry
  <1>4. ASSUME d \notin unsure' PROVE Stand(d, Len(events) + 1, entries[d].sim)'
    <2>1. Stand(d, k, s)
      BY <1>1, <1>2, <1>4 DEF Current, Sure
    <2>2. CASE Handles
      <3>1. PICK kinds : Take(kinds)
        BY <2>2, HandlesTake
      <3>2. k \in 2..Len(events)+1 /\ k - 1 = Len(events') + 1
        BY <1>2, <3>1, Taken
      <3>3. Stand(d, k-1, s)'
        BY <1>1, <1>4, <2>1, <2>2, <3>2, HeadStood, TakenKeeps DEF Handles
      <3> QED  BY <1>1, <1>2, <3>2, <3>3
    <2>3. CASE Pauses
      <3>1. Arriving(d) \/ Absent(d) => \E j \in 1..k-1 : events[j].dev = d
        <4>1. \A j \in DOMAIN events : j \in 1..k-1
          BY <1>2 DEF TypeOK, ProviderTypeOK
        <4> QED  BY <4>1 DEF Arriving, Absent
      <3>2. Stand(d, k, s)'
        BY <1>1, <1>3, <1>4, <2>1, <2>3, <3>1, PausesKeep
      <3> QED  BY <1>1, <1>2, <2>3, <3>2, PausesStill
    <2> QED  BY <2>2, <2>3
  <1> QED  BY <1>4 DEF Current, Sure

(* What follows on what was said still does.                               *)
LEMMA ContinuedKept ==
    ASSUME IInv, IInv', Unmixed, ModemKeys, SimKeys, Cached, Bindable, Unseen, Continued,
           Handles \/ Pauses
    PROVE  Continued'
  <1> USE DEF IInv
  <1>0. unsure \subseteq unsure'
    BY RunnerLeaves
  <1>1. ASSUME NEW k \in DOMAIN events, events[k].kind \in Following,
               NEW d, d = events[k].dev, d \notin unsure'
        PROVE  /\ d \in Ids /\ d \in Siblings(d)
               /\ \E s \in Sims \cup {None} :
                     Stand(d, k, s) /\ (events[k].kind = "SignalSampled" => events[k].sim = s)
    BY <1>0, <1>1, KinOfAll DEF TypeOK, ProviderTypeOK, EventType, Continued, FollowsOn, Sure
  <1>2. CASE Handles
    <2>1. PICK kinds : Take(kinds)
      BY <1>2, HandlesTake
    <2>2. ASSUME NEW j \in DOMAIN events', events'[j].kind \in Following,
                 NEW d, d = events'[j].dev, d \notin unsure'
          PROVE  \E s \in Sims \cup {None} :
                    Stand(d, j, s)' /\ (events'[j].kind = "SignalSampled" => events'[j].sim = s)
      <3>1. PICK k : k = j + 1
        OBVIOUS
      <3>2. /\ k \in DOMAIN events /\ events'[j] = events[k]
            /\ k \in 2..Len(events)+1 /\ k - 1 = j
        BY <2>1, <2>2, <3>1, Taken
      <3>3. PICK s \in Sims \cup {None} :
                  Stand(d, k, s) /\ (events[k].kind = "SignalSampled" => events[k].sim = s)
        BY <1>1, <2>2, <3>2
      <3>4. d \in Ids /\ d \in Siblings(d)
        BY <1>1, <2>2, <3>2
      <3>5. Stand(d, k-1, s)'
        BY <1>2, <2>2, <3>2, <3>3, <3>4, HeadStood, TakenKeeps DEF Handles
      <3> QED  BY <3>2, <3>3, <3>5
    <2>3. ASSUME NEW j \in DOMAIN events', events'[j].kind \in Following,
                 events'[j].dev \notin unsure'
          PROVE  FollowsOn(j)'
      <3>1. PICK d : d = events'[j].dev
        OBVIOUS
      <3>2. PICK s \in Sims \cup {None} :
                 Stand(d, j, s)' /\ (events'[j].kind = "SignalSampled" => events'[j].sim = s)
        BY <2>2, <2>3, <3>1
      <3> QED  BY <3>1, <3>2 DEF FollowsOn
    <2> QED  BY <2>3 DEF Continued, Sure
  <1>3. CASE Pauses
    <2>1. UNCHANGED events
      BY <1>3, PausesStill
    <2>2. ASSUME NEW k \in DOMAIN events, events[k].kind \in Following,
                 events[k].dev \notin unsure'
          PROVE  FollowsOn(k)'
      <3>1. PICK d : d = events[k].dev
        OBVIOUS
      <3>2. PICK s \in Sims \cup {None} :
                  Stand(d, k, s) /\ (events[k].kind = "SignalSampled" => events[k].sim = s)
        BY <1>1, <2>2, <3>1
      <3>3. d \in Ids /\ d \in Siblings(d)
        BY <1>1, <2>2, <3>1
      <3>4. Arriving(d) \/ Absent(d) => \E j \in 1..k-1 : events[j].dev = d
        <4>1. ~Absent(d)
          BY <3>1 DEF Absent
        <4>2. ASSUME Arriving(d) PROVE \E j \in 1..k-1 : events[j].dev = d
          <5>1. PICK j \in DOMAIN events : /\ events[j].dev = d /\ events[j].kind = "ModemAdded"
                                           /\ \A l \in 1..j-1 : events[l].dev # d
            BY <4>2 DEF Arriving
          <5>2. j # k
            BY <2>2, <5>1 DEF Following
          <5>3. j \in 1..k-1 \/ k \in 1..j-1
            BY <5>2 DEF TypeOK, ProviderTypeOK
          <5> QED  BY <3>1, <5>1, <5>3
        <4> QED  BY <4>1, <4>2
      <3>5. Stand(d, k, s)'
        BY <1>3, <2>2, <3>1, <3>2, <3>3, <3>4, PausesKeep
      <3> QED  BY <2>1, <3>1, <3>2, <3>5 DEF FollowsOn
    <2> QED  BY <2>1, <2>2 DEF Continued, Sure
  <1> QED  BY <1>2, <1>3

-----------------------------------------------------------------------------
(* The rest of what is said of the tables and the runner.                  *)
LEMMA TablesKept ==
    ASSUME IInv, ModemKeys, SimKeys, Cached, Handles \/ Pauses
    PROVE  ModemKeys' /\ SimKeys' /\ Cached'
  <1> USE DEF IInv
  <1>0. ASSUME UNCHANGED modems PROVE RowsStay
    BY <1>0 DEF RowsStay
  <1>1. CASE HandleModem
    <2>1. PICK e \in EventType : e = Head(events) /\ task = Idle
      BY <1>1, Taken DEF HandleModem
    <2>2. PICK c, w, s : c = e.dev /\ w = e.imei /\ s = e.sim
      OBVIOUS
    <2>3. c \in Ids /\ w \in Modules \cup {None} /\ s \in Sims \cup {None}
      BY <2>2 DEF EventType
    <2>4. CASE UpsertFails(modems, c, w)
      BY <1>1, <2>1, <2>2, <2>4 DEF HandleModem, ModemKeys, SimKeys, Cached, cacheVars
    <2>5. CASE ~UpsertFails(modems, c, w)
      <3>1. PICK i : i = UpsertedId(modems, lastModem, c, w)
        OBVIOUS
      <3>2. /\ modems' = Upserted(modems, lastModem, c, w)
            /\ modemIDs' = [modemIDs EXCEPT ![c] = i]
            /\ IF s = None THEN UNCHANGED sims ELSE UpsertSim(c, i, s)
        BY <1>1, <2>1, <2>2, <2>5, <3>1 DEF HandleModem
      <3>3. ModemKeys' /\ Cached'
        BY <2>3, <2>5, <3>1, <3>2, KeysUpserted, CachedUpserted
      <3>4. CASE s = None
        BY <3>2, <3>3, <3>4 DEF SimKeys
      <3>5. CASE s # None
        <4>1. s \in Sims /\ UpsertSim(c, i, s)
          BY <2>3, <3>2, <3>5
        <4> QED  BY <2>1, <3>3, <4>1, SimTaken
      <3> QED  BY <3>4, <3>5
    <2> QED  BY <2>4, <2>5
  <1>2. CASE HandleSim
    <2>1. PICK e \in EventType : e = Head(events) /\ task = Idle /\ e.kind = "SimUpdated"
      BY <1>2, Taken DEF HandleSim
    <2>2. PICK c, s, i : c = e.dev /\ s = e.sim /\ i = ModemID(c)
      OBVIOUS
    <2>3. c \in Ids /\ s \in Sims
      BY <2>1, <2>2 DEF EventType
    <2>4. UNCHANGED modems /\ modemIDs' = [modemIDs EXCEPT ![c] = i] /\ UpsertSim(c, i, s)
      BY <1>2, <2>1, <2>2 DEF HandleSim
    <2>5. Cached'
      BY <2>2, <2>3, <2>4, CachedFound
    <2> QED  BY <1>0, <2>1, <2>3, <2>4, <2>5, SimTaken, KeysStay
  <1>3. CASE HandleSample
    <2>1. PICK c \in Ids : c = Head(events).dev
      BY <1>3, Taken DEF HandleSample
    <2>2. UNCHANGED <<modems, sims>> /\ modemIDs' = [modemIDs EXCEPT ![c] = ModemID(c)]
      BY <1>3, <2>1 DEF HandleSample, SampleRow
    <2> QED  BY <1>0, <2>1, <2>2, CachedFound, KeysStay DEF SimKeys
  <1>4. ASSUME NEW D, modems' = MarkedAbsent(modems, D), UNCHANGED <<modemIDs, sims>>
        PROVE  ModemKeys' /\ SimKeys' /\ Cached'
    <2>1. RowsStay
      BY <1>4, MarkedStay
    <2>2. \A d \in Ids : modemIDs'[d] \in {modemIDs[d], 0}
      BY <1>4
    <2> QED  BY <1>4, <2>1, <2>2, KeysStay, CachedStay DEF SimKeys
  <1>5. CASE HandleRemoved \/ MarkStaleModemsAbsent
    BY <1>4, <1>5 DEF HandleRemoved, MarkStaleModemsAbsent, cacheVars
  <1>6. CASE Bind \/ SweepLooks
    BY <1>6 DEF Bind, SweepLooks, cacheVars, dbVars, ModemKeys, SimKeys, Cached
  <1>7. CASE ForgetModem
    <2>1. UNCHANGED <<modems, sims>> /\ modemIDs' = [modemIDs EXCEPT ![task.dev] = 0]
      BY <1>7 DEF ForgetModem
    <2>2. \A d \in Ids : modemIDs'[d] \in {modemIDs[d], 0}
      BY <2>1 DEF TypeOK, RunnerTypeOK
    <2> QED  BY <1>0, <2>1, <2>2, KeysStay, CachedStay DEF SimKeys
  <1>8. CASE Http
    <2>1. /\ \A d \in Ids : modemIDs'[d] \in {modemIDs[d], 0}
          /\ \/ \E i : modems' = Without(modems, {i}) /\ UNCHANGED sims
             \/ \E j : sims' = Without(sims, {j}) /\ UNCHANGED modems
      BY <1>8 DEF Http, DeleteOfflineModem, DeleteUnusedSIM, cacheVars
    <2>2. RowsStay
      BY <1>0, <2>1 DEF RowsStay, Without
    <2>3. SimKeys'
      BY <2>1 DEF SimKeys, Without
    <2> QED  BY <2>1, <2>2, <2>3, KeysStay, CachedStay
  <1> QED  BY <1>1, <1>2, <1>3, <1>5, <1>6, <1>7, <1>8 DEF Handles, Pauses

(* A statement that fails puts the whole module in doubt.                  *)
LEMMA FamiliesKept ==
    ASSUME Families, Handles \/ Pauses
    PROVE  Families'
  <1>1. UNCHANGED unsure \/ \E d : Refuse(d)
    BY DEF Handles, Pauses, HandleModem, HandleSim, HandleSample, HandleRemoved, Bind,
           ForgetModem, SweepLooks, MarkStaleModemsAbsent, Http, DeleteOfflineModem,
           DeleteUnusedSIM, historyVars
  <1> QED  BY <1>1, KinMeans DEF Families, Refuse

(* A leaving in the channel stays behind what was said before it.          *)
LEMMA TidingsKept ==
    ASSUME TypeOK, Tidings, Handles \/ Pauses
    PROVE  Tidings'
  <1>0. UNCHANGED entries /\ unsure \subseteq unsure'
    BY RunnerLeaves
  <1>1. CASE Handles
    <2>1. PICK kinds : Take(kinds)
      BY <1>1, HandlesTake
    <2>2. ASSUME NEW j \in DOMAIN events', NEW c, c = events'[j].dev, c \notin unsure',
                 entries[c] = None
          PROVE  \E l \in j..Len(events') :
                     events'[l].dev = c /\ events'[l].kind = "ModemRemoved"
      <3>1. PICK k : k = j + 1
        OBVIOUS
      <3>2. k \in DOMAIN events /\ events'[j] = events[k]
        BY <2>1, <2>2, <3>1, Taken
      <3>3. PICK l \in k..Len(events) : events[l].dev = c /\ events[l].kind = "ModemRemoved"
        BY <1>0, <2>2, <3>2 DEF Tidings, Sure
      <3>4. PICK n : n = l - 1
        OBVIOUS
      <3>5. n \in j..Len(events') /\ n \in 1..Len(events)-1 /\ n + 1 = l
        BY <2>1, <2>2, <3>1, <3>3, <3>4, Taken
      <3>6. events'[n] = events[l]
        BY <2>1, <3>5, Taken
      <3> QED  BY <3>3, <3>5, <3>6
    <2> QED  BY <1>0, <2>2 DEF Tidings, Sure
  <1>2. CASE Pauses
    BY <1>0, <1>2, PausesStill DEF Tidings, Sure
  <1> QED  BY <1>1, <1>2

(* While the daemon is down the runner does nothing.                       *)
LEMMA SilentKept ==
    ASSUME Silent, Handles \/ Pauses
    PROVE  Silent'
  <1>0. UNCHANGED <<app, entries>>
    BY RunnerLeaves
  <1>1. CASE Handles
    BY <1>0, <1>1, HandlesTake DEF Silent, Take
  <1>2. CASE Pauses
    <2>1. app = "down" => UNCHANGED task
      BY <1>2 DEF Silent, Idle, Pauses, Bind, ForgetModem, SweepLooks, MarkStaleModemsAbsent,
                  Http, DeleteOfflineModem, DeleteUnusedSIM
    <2> QED  BY <1>0, <1>2, <2>1, PausesStill DEF Silent
  <1> QED  BY <1>1, <1>2

(* Who is leaving still is, until that is handled.                         *)
Unheard(d) == UNCHANGED events \/ events[1].kind # "ModemRemoved" \/ events[1].dev # d

(* No other step of the runner takes it.                                   *)
LEMMA LeavingKept ==
    ASSUME TypeOK, Handles \/ Pauses, NEW d, Leaving(d), Unheard(d)
    PROVE  Leaving(d)'
  <1>1. CASE UNCHANGED events
    BY <1>1 DEF Leaving
  <1>2. CASE Handles /\ ~UNCHANGED events
    BY <1>2, HandlesTake, LeavingTaken DEF Unheard
  <1> QED  BY <1>1, <1>2, PausesStill

(* Rows come online only for modems that are listed or will leave.         *)
LEMMA SweptKept ==
    ASSUME IInv, Tidings, Swept, Handles \/ Pauses
    PROVE  Swept'
  <1> USE DEF IInv
  <1>0. UNCHANGED entries /\ unsure \subseteq unsure'
    BY RunnerLeaves
  <1>2. ASSUME NEW i \in DOMAIN modems, modems[i].present, NEW c, c = modems[i].dev,
               entries[c] = None, c \notin unsure', sweep = "done",
               Unheard(c)
        PROVE  Leaving(c)' \/ (task.at = "sweep" /\ c \notin task.seen)
    <2>1. Leaving(c) \/ (task.at = "sweep" /\ c \notin task.seen)
      BY <1>0, <1>2 DEF Swept, Sure
    <2> QED  BY <1>2, <2>1, LeavingKept
  <1>3. ASSUME \A i \in DOMAIN modems' : modems'[i].present =>
                   i \in DOMAIN modems /\ modems[i].present /\ modems'[i].dev = modems[i].dev,
               sweep' = sweep, \A d : Unheard(d), UNCHANGED task \/ task.at # "sweep"
        PROVE  Swept'
    <2>1. ASSUME sweep' = "done", NEW i \in DOMAIN modems', modems'[i].present,
                 NEW c, c = modems'[i].dev, entries[c] = None, c \notin unsure'
          PROVE  Leaving(c)' \/ (task'.at = "sweep" /\ c \notin task'.seen)
      BY <1>2, <1>3, <2>1
    <2>2. ASSUME sweep' = "done", NEW i \in DOMAIN modems', modems'[i].present,
                 entries[modems'[i].dev] = None, modems'[i].dev \notin unsure'
          PROVE  \/ Leaving(modems[i].dev)'
                 \/ task'.at = "sweep" /\ modems'[i].dev \notin task'.seen
      <3>1. PICK c : c = modems'[i].dev
        OBVIOUS
      <3>2. Leaving(c)' \/ (task'.at = "sweep" /\ c \notin task'.seen)
        BY <2>1, <2>2, <3>1
      <3> QED  BY <3>1, <3>2 DEF Leaving
    <2> QED  BY <1>0, <2>2 DEF Swept, Sure
  <1>4. CASE HandleModem
    <2>1. PICK e \in EventType : /\ e = Head(events) /\ e = events[1] /\ task = Idle
                                 /\ e.kind # "ModemRemoved" /\ 1 \in DOMAIN events
      BY <1>4, Taken DEF HandleModem
    <2>2. PICK c, w : c = e.dev /\ w = e.imei
      OBVIOUS
    <2>3. c \in Ids /\ w \in Modules \cup {None}
      BY <2>2 DEF EventType
    <2>4. sweep' = sweep /\ task.at # "sweep" /\ \A d : Unheard(d)
      BY <1>4, <2>1 DEF HandleModem, Idle, Unheard
    <2>5. CASE UpsertFails(modems, c, w)
      <3>1. UNCHANGED modems
        BY <1>4, <2>1, <2>2, <2>5 DEF HandleModem
      <3> QED  BY <1>3, <2>4, <3>1
    <2>6. CASE ~UpsertFails(modems, c, w)
      <3>1. PICK i : i = UpsertedId(modems, lastModem, c, w)
        OBVIOUS
      <3>2. modems' = Upserted(modems, lastModem, c, w)
        BY <1>4, <2>1, <2>2, <2>6 DEF HandleModem
      <3>3. /\ DOMAIN modems' = DOMAIN modems \cup {i} /\ modems'[i].dev = c
            /\ \A j \in DOMAIN modems : j # i => modems'[j] = modems[j]
        BY <2>3, <3>1, <3>2, UpsertedRow
      <3>4. ASSUME entries[c] = None, c \notin unsure' PROVE Leaving(c)'
        <4>1. PICK l \in 1..Len(events) : events[l].dev = c /\ events[l].kind = "ModemRemoved"
          BY <1>0, <2>1, <2>2, <3>4 DEF Tidings, Sure
        <4>2. Leaving(c)
          BY <4>1 DEF TypeOK, ProviderTypeOK, Leaving
        <4> QED  BY <2>4, <4>2, LeavingKept
      <3>5. ASSUME sweep' = "done", NEW j \in DOMAIN modems', modems'[j].present,
                   NEW b, b = modems'[j].dev, entries[b] = None, b \notin unsure'
            PROVE  Leaving(b)'
        <4>1. CASE j = i
          BY <3>3, <3>4, <3>5, <4>1
        <4>2. CASE j # i
          BY <1>2, <2>4, <3>3, <3>5, <4>2
        <4> QED  BY <4>1, <4>2
      <3>6. ASSUME sweep' = "done", NEW j \in DOMAIN modems', modems'[j].present,
                   entries[modems'[j].dev] = None, modems'[j].dev \notin unsure'
            PROVE  Leaving(modems[j].dev)'
        <4>1. PICK b : b = modems'[j].dev
          OBVIOUS
        <4>2. Leaving(b)'
          BY <3>5, <3>6, <4>1
        <4> QED  BY <4>1, <4>2 DEF Leaving
      <3> QED  BY <1>0, <3>6 DEF Swept, Sure
    <2> QED  BY <2>5, <2>6
  <1>5. CASE HandleSim \/ HandleSample
    <2>1. UNCHANGED <<modems, sweep>> /\ task.at # "sweep" /\ \A d : Unheard(d)
      BY <1>5, Taken DEF HandleSim, HandleSample, Idle, Unheard
    <2> QED  BY <1>3, <2>1
  <1>6. CASE HandleRemoved
    <2>1. PICK c : c = events[1].dev /\ c = Head(events).dev /\ task = Idle
      BY <1>6, Taken DEF HandleRemoved
    <2>2. modems' = MarkedAbsent(modems, {c}) /\ sweep' = sweep /\ task.at # "sweep"
      BY <1>6, <2>1 DEF HandleRemoved, Idle
    <2>3. /\ DOMAIN modems' = DOMAIN modems
          /\ \A j \in DOMAIN modems : /\ modems'[j].dev = modems[j].dev
                                      /\ modems'[j].present <=> modems[j].present /\ modems[j].dev # c
      BY <2>2, MarkedStay DEF RowsStay
    <2>4. ASSUME sweep' = "done", NEW j \in DOMAIN modems', modems'[j].present,
                 entries[modems'[j].dev] = None, modems'[j].dev \notin unsure'
          PROVE  Leaving(modems[j].dev)'
      <3>1. PICK b : b = modems'[j].dev
        OBVIOUS
      <3>2. /\ j \in DOMAIN modems /\ modems[j].present /\ b = modems[j].dev /\ b # c
            /\ entries[b] = None /\ b \notin unsure' /\ sweep = "done"
        BY <2>2, <2>3, <2>4, <3>1
      <3>3. Unheard(b)
        BY <2>1, <3>2 DEF Unheard
      <3>4. Leaving(b)'
        BY <1>2, <2>2, <3>2, <3>3
      <3> QED  BY <3>1, <3>4 DEF Leaving
    <2> QED  BY <1>0, <2>4 DEF Swept, Sure
  <1>7. CASE Bind \/ ForgetModem
    <2>1. UNCHANGED <<modems, sweep>> /\ task.at # "sweep" /\ \A d : Unheard(d)
      BY <1>7 DEF Bind, ForgetModem, Unheard
    <2> QED  BY <1>3, <2>1
  <1>8. CASE SweepLooks
    <2>1. /\ UNCHANGED modems
          /\ \/ sweep' = "skipped"
             \/ task' = [at |-> "sweep", seen |-> Listed]
      BY <1>8 DEF SweepLooks, dbVars
    <2>2. CASE sweep' = "skipped"
      BY <2>2 DEF Swept
    <2>3. CASE task' = [at |-> "sweep", seen |-> Listed]
      <3>1. task'.at = "sweep" /\ task'.seen = Listed
        BY <2>3
      <3> QED  BY <1>0, <2>1, <3>1 DEF Swept, Listed
    <2> QED  BY <2>1, <2>2, <2>3
  <1>9. CASE MarkStaleModemsAbsent
    <2>1. PICK S : S = task.seen
      OBVIOUS
    <2>2. /\ task.at = "sweep" /\ modems' = MarkedAbsent(modems, Ids \ S) /\ UNCHANGED sweep
          /\ \A d : Unheard(d)
      BY <1>9, <2>1 DEF MarkStaleModemsAbsent, Unheard
    <2>3. /\ DOMAIN modems' = DOMAIN modems
          /\ \A j \in DOMAIN modems :
                /\ modems'[j].dev = modems[j].dev /\ modems[j].dev \in Ids
                /\ modems'[j].present <=> modems[j].present /\ modems[j].dev \notin Ids \ S
      BY <2>2, MarkedStay DEF RowsStay, TypeOK, DbTypeOK, Table, ModemRow
    <2>4. ASSUME sweep' = "done", NEW j \in DOMAIN modems', modems'[j].present,
                 entries[modems'[j].dev] = None, modems'[j].dev \notin unsure'
          PROVE  Leaving(modems[j].dev)'
      <3>1. PICK b : b = modems'[j].dev
        OBVIOUS
      <3>2. b \in S /\ modems[j].present /\ b = modems[j].dev
        BY <2>3, <2>4, <3>1
      <3>3. Leaving(b)'
        BY <1>2, <2>1, <2>2, <2>3, <2>4, <3>1, <3>2
      <3> QED  BY <3>1, <3>3 DEF Leaving
    <2> QED  BY <1>0, <2>4 DEF Swept, Sure
  <1>10. CASE Http
    <2>1. /\ UNCHANGED <<sweep, task>> /\ \A d : Unheard(d)
          /\ (modems' = modems \/ \E i : modems' = Without(modems, {i}))
      BY <1>10 DEF Http, DeleteOfflineModem, DeleteUnusedSIM, Unheard
    <2>3. \A i \in DOMAIN modems' : i \in DOMAIN modems /\ modems'[i] = modems[i]
      BY <2>1 DEF Without
    <2> QED  BY <1>3, <2>1, <2>3
  <1> QED  BY <1>4, <1>5, <1>6, <1>7, <1>8, <1>9, <1>10 DEF Handles, Pauses

(* The sweep looks at all that is listed then.                             *)
LEMMA UnseenKept ==
    ASSUME TypeOK, Tidings, Unseen, Handles \/ Pauses
    PROVE  Unseen'
  <1>0. UNCHANGED entries /\ unsure \subseteq unsure'
    BY RunnerLeaves
  <1>1. CASE SweepLooks
    <2>1. UNCHANGED events /\ (task'.at = "sweep" => task'.seen = Listed)
      BY <1>1 DEF SweepLooks, Idle
    <2>2. ASSUME NEW d \in Ids \ Listed, d \notin unsure' PROVE Leaving(d) \/ Absent(d)
      <3>1. entries[d] = None /\ Sure(d)
        BY <1>0, <2>2 DEF Listed, Sure
      <3>2. ASSUME NEW k \in DOMAIN events, events[k].dev = d PROVE Leaving(d)
        <4>1. PICK l \in k..Len(events) : events[l].dev = d /\ events[l].kind = "ModemRemoved"
          BY <3>1, <3>2 DEF Tidings
        <4>2. l \in DOMAIN events
          BY <3>2 DEF TypeOK, ProviderTypeOK
        <4> QED  BY <4>1, <4>2 DEF Leaving
      <3> QED  BY <3>1, <3>2 DEF Absent
    <2> QED  BY <1>0, <2>1, <2>2 DEF Unseen, Sure, Leaving, Absent
  <1>2. CASE Http
    <2>1. UNCHANGED <<events, task>>
      BY <1>2 DEF Http, DeleteOfflineModem, DeleteUnusedSIM
    <2> QED  BY <1>0, <2>1 DEF Unseen, Sure, Leaving, Arriving, Absent
  <1>3. CASE Bind \/ ForgetModem \/ MarkStaleModemsAbsent
    BY <1>3 DEF Bind, ForgetModem, MarkStaleModemsAbsent, Unseen, Idle
  <1>4. CASE Handles
    <2>1. task'.at # "sweep"
      BY <1>4 DEF Handles, HandleModem, HandleSim, HandleSample, HandleRemoved, UpsertSim, Take, Idle
    <2> QED  BY <2>1 DEF Unseen
  <1> QED  BY <1>1, <1>2, <1>3, <1>4 DEF Pauses

(* A row that goes offline is unbound then or by the statement after.      *)
LEMMA LooseKept ==
    ASSUME IInv, ModemKeys, Cached, Families, Loose, Bindable, Handles \/ Pauses
    PROVE  Loose'
  <1> USE DEF IInv
  <1>0. UNCHANGED scars /\ unsure \subseteq unsure'
    BY RunnerLeaves
  <1>1. ASSUME \A i \in DOMAIN bound' : ~modems'[i].present =>
                   /\ i \in DOMAIN bound /\ ~modems[i].present /\ modems'[i].dev = modems[i].dev
                   /\ Unheard(modems[i].dev)
                   /\ task.at = "forget" =>
                         task' = task \/ task.dev # modems[i].dev
        PROVE  Loose'
    <2>1. ASSUME NEW i \in DOMAIN bound', ~modems'[i].present,
                 NEW c, c = modems'[i].dev
          PROVE  \/ i \in scars \/ c \in unsure' \/ Leaving(c)'
                 \/ task'.at = "forget" /\ task'.dev = c
      <3>1. \/ i \in scars \/ ~Sure(c) \/ Leaving(c) \/ (task.at = "forget" /\ task.dev = c)
        BY <1>1, <2>1 DEF Loose
      <3>2. Leaving(c) => Leaving(c)'
        BY <1>1, <2>1, LeavingKept
      <3> QED  BY <1>0, <1>1, <2>1, <3>1, <3>2 DEF Sure
    <2>2. ASSUME NEW i \in DOMAIN bound', ~modems'[i].present
          PROVE  \/ i \in scars \/ modems'[i].dev \in unsure' \/ Leaving(modems[i].dev)'
                 \/ task'.at = "forget" /\ task'.dev = modems'[i].dev
      <3>1. PICK c : c = modems'[i].dev
        OBVIOUS
      <3>2. \/ i \in scars \/ c \in unsure' \/ Leaving(c)'
            \/ task'.at = "forget" /\ task'.dev = c
        BY <2>1, <2>2, <3>1
      <3> QED  BY <3>1, <3>2 DEF Leaving
    <2> QED  BY <1>0, <2>2 DEF Loose, Sure
  <1>2. CASE HandleModem
    <2>1. PICK e \in EventType : /\ e = Head(events) /\ e = events[1] /\ task = Idle
                                 /\ e.kind # "ModemRemoved"
      BY <1>2, Taken DEF HandleModem
    <2>2. PICK c, w : c = e.dev /\ w = e.imei
      OBVIOUS
    <2>3. c \in Ids /\ w \in Modules \cup {None}
      BY <2>2 DEF EventType
    <2>4. task.at # "forget" /\ \A d : Unheard(d)
      BY <2>1 DEF Idle, Unheard
    <2>5. CASE UpsertFails(modems, c, w)
      <3>1. UNCHANGED <<modems, bound>>
        BY <1>2, <2>1, <2>2, <2>5 DEF HandleModem
      <3> QED  BY <1>1, <2>4, <3>1
    <2>6. CASE ~UpsertFails(modems, c, w)
      <3>1. PICK i : i = UpsertedId(modems, lastModem, c, w)
        OBVIOUS
      <3>2. /\ modems' = Upserted(modems, lastModem, c, w)
            /\ TakeSimOut(c, i) \/ UNCHANGED bound
        BY <1>2, <2>1, <2>2, <2>6, <3>1 DEF HandleModem
      <3>3. /\ DOMAIN modems' = DOMAIN modems \cup {i} /\ modems'[i].present
            /\ \A j \in DOMAIN modems : j # i => modems'[j] = modems[j]
        <4>1. TypeOK
          OBVIOUS
        <4> QED  BY ONLY <2>3, <3>1, <3>2, <4>1, UpsertedRow
      <3>4. DOMAIN bound' \subseteq DOMAIN bound /\ DOMAIN bound \subseteq DOMAIN modems
        BY <3>2 DEF TakeSimOut, Unbind, Without, TypeOK, DbTypeOK, BindingsOK
      <3> QED  BY <1>1, <2>4, <3>3, <3>4
    <2> QED  BY <2>5, <2>6
  <1>3. CASE HandleSim \/ HandleSample
    <2>1. UNCHANGED <<modems, bound>> /\ task.at # "forget" /\ \A d : Unheard(d)
      BY <1>3, Taken DEF HandleSim, HandleSample, Idle, Unheard
    <2> QED  BY <1>1, <2>1
  <1>4. CASE HandleRemoved
    <2>1. PICK c : c = events[1].dev /\ c = Head(events).dev /\ task = Idle
      BY <1>4, Taken DEF HandleRemoved
    <2>2. /\ modems' = MarkedAbsent(modems, {c}) /\ UNCHANGED bound /\ task.at # "forget"
          /\ task' = [at |-> "forget", dev |-> c]
      BY <1>4, <2>1 DEF HandleRemoved, Idle
    <2>3. /\ \A j \in DOMAIN modems : /\ modems'[j].dev = modems[j].dev
                                      /\ modems'[j].present <=> modems[j].present /\ modems[j].dev # c
          /\ DOMAIN bound \subseteq DOMAIN modems
      <3>1. DOMAIN bound \subseteq DOMAIN modems
        BY DEF TypeOK, DbTypeOK, BindingsOK
      <3> QED  BY <2>2, <3>1, MarkedStay DEF RowsStay
    <2>4. ASSUME NEW i \in DOMAIN bound', ~modems'[i].present, modems'[i].dev # c,
                 modems'[i].dev \notin unsure', i \notin scars
          PROVE  Leaving(modems[i].dev)'
      <3>1. PICK b : b = modems'[i].dev
        OBVIOUS
      <3>2. ~modems[i].present /\ b = modems[i].dev /\ i \in DOMAIN bound
        BY <2>2, <2>3, <2>4, <3>1
      <3>3. Leaving(b)
        BY <1>0, <2>2, <2>4, <3>1, <3>2 DEF Loose, Sure
      <3>4. Unheard(b)
        BY <2>1, <2>4, <3>1 DEF Unheard
      <3>5. Leaving(b)'
        BY <1>4, <3>3, <3>4, LeavingKept DEF Handles
      <3> QED  BY <3>1, <3>5 DEF Leaving
    <2>5. task'.at = "forget" /\ task'.dev = c
      BY <2>2
    <2> QED  BY <1>0, <2>4, <2>5 DEF Loose, Sure
  <1>5. CASE Bind
    <2>1. PICK c, r, j : c = task.dev /\ r = task.row /\ j = SimIDByIccid(sims, task.sim)
      OBVIOUS
    <2>2. /\ task.at = "bind" /\ UNCHANGED <<events, modems>>
          /\ \/ bound' = WithRow(bound, r, j) /\ CanBind(modems, sims, r, j)
             \/ UNCHANGED bound
      BY <1>5, <2>1 DEF Bind
    <2>3. ASSUME NEW i \in DOMAIN bound', ~modems[i].present, NEW b, b = modems[i].dev,
                 b \notin unsure', i \notin scars
          PROVE  Leaving(b)
      <3>1. CASE i \in DOMAIN bound
        BY <1>0, <2>2, <2>3, <3>1 DEF Loose, Sure
      <3>2. CASE i \notin DOMAIN bound
        <4>1. i = r /\ r \in DOMAIN modems
          BY <2>2, <2>3, <3>2 DEF WithRow, CanBind
        <4>2. b \in Siblings(c) /\ (Sure(c) => b = c /\ (modems[r].present \/ Leaving(c)))
          BY <2>1, <2>2, <2>3, <4>1 DEF Bindable
        <4>3. Sure(c)
          BY <1>0, <2>3, <4>2 DEF Families, Sure
        <4> QED  BY <2>3, <4>1, <4>2, <4>3
      <3> QED  BY <3>1, <3>2
    <2>4. ASSUME NEW i \in DOMAIN bound', ~modems'[i].present, modems'[i].dev \notin unsure',
                 i \notin scars
          PROVE  Leaving(modems[i].dev)'
      <3>1. PICK b : b = modems[i].dev
        OBVIOUS
      <3>2. Leaving(b)
        BY <2>2, <2>3, <2>4, <3>1
      <3> QED  BY <2>2, <3>1, <3>2 DEF Leaving
    <2> QED  BY <1>0, <2>4 DEF Loose, Sure
  <1>6. CASE ForgetModem
    <2>1. PICK c : c = task.dev /\ c \in Ids
      BY <1>6 DEF ForgetModem, TypeOK, RunnerTypeOK, TaskType, Idle
    <2>2. UNCHANGED <<events, modems>> /\ bound' = Without(bound, {ModemID(c)})
      BY <1>6, <2>1 DEF ForgetModem, Unbind
    <2>3. DOMAIN bound' = DOMAIN bound \ {ModemID(c)} /\ DOMAIN bound \subseteq DOMAIN modems
      BY <2>2 DEF Without, TypeOK, DbTypeOK, BindingsOK
    <2>4. \A i \in DOMAIN modems : modems[i].dev = c => ModemID(c) = i
      BY <2>1, ModemFound
    <2>5. \A d : Unheard(d)
      BY <2>2 DEF Unheard
    <2> QED  BY <1>1, <2>1, <2>2, <2>3, <2>4, <2>5
  <1>7. CASE SweepLooks
    <2>1. UNCHANGED <<events, modems, bound>> /\ task.at # "forget"
      BY <1>7 DEF SweepLooks, dbVars, Idle
    <2>2. \A d : Unheard(d)
      BY <2>1 DEF Unheard
    <2> QED  BY <1>1, <2>1, <2>2
  <1>8. CASE MarkStaleModemsAbsent
    <2>1. PICK S : S = task.seen
      OBVIOUS
    <2>2. /\ task.at = "sweep" /\ UNCHANGED events /\ modems' = MarkedAbsent(modems, Ids \ S)
          /\ bound' = Without(bound, {j \in DOMAIN modems : /\ modems[j].present
                                                            /\ modems[j].dev \notin S})
      BY <1>8, <2>1 DEF MarkStaleModemsAbsent
    <2>3. /\ \A j \in DOMAIN modems :
                /\ modems'[j].dev = modems[j].dev
                /\ modems'[j].present <=> modems[j].present /\ modems[j].dev \notin Ids \ S
          /\ DOMAIN bound \subseteq DOMAIN modems
      BY <2>2, MarkedStay DEF RowsStay, TypeOK, DbTypeOK, BindingsOK
    <2>4. \A j \in DOMAIN bound' :
             j \in DOMAIN bound /\ ~(modems[j].present /\ modems[j].dev \notin S)
      BY <2>2, <2>3 DEF Without
    <2>5. \A d : Unheard(d)
      BY <2>2 DEF Unheard
    <2> QED  BY <1>1, <2>2, <2>3, <2>4, <2>5
  <1>9. CASE Http
    <2>1. /\ UNCHANGED <<events, task>>
          /\ \/ UNCHANGED <<modems, bound>>
             \/ \E i : modems' = Without(modems, {i}) /\ bound' = Without(bound, {i})
      BY <1>9 DEF Http, DeleteOfflineModem, DeleteUnusedSIM, Unbind
    <2>2. DOMAIN bound \subseteq DOMAIN modems
      BY DEF TypeOK, DbTypeOK, BindingsOK
    <2>3. \A i \in DOMAIN bound' : i \in DOMAIN bound /\ modems'[i] = modems[i]
      BY <2>1, <2>2 DEF Without
    <2>4. \A d : Unheard(d)
      BY <2>1 DEF Unheard
    <2> QED  BY <1>1, <2>1, <2>3, <2>4
  <1> QED  BY <1>2, <1>3, <1>4, <1>5, <1>6, <1>7, <1>8, <1>9 DEF Handles, Pauses

(* The row about to be bound stays that of the modem, and online.          *)
LEMMA BindableKept ==
    ASSUME IInv, Unmixed, ModemKeys, SimKeys, Cached, Stood, Bindable, Handles \/ Pauses
    PROVE  Bindable'
  <1> USE DEF IInv
  <1>0. unsure \subseteq unsure'
    BY RunnerLeaves
  <1>1. CASE HandleModem
    <2>1. PICK e \in EventType : e = Head(events) /\ e = events[1] /\ task = Idle
      BY <1>1, Taken DEF HandleModem
    <2>2. PICK c, w, s : c = e.dev /\ w = e.imei /\ s = e.sim
      OBVIOUS
    <2>3. /\ c \in Ids /\ w \in Modules \cup {None} /\ s \in Sims \cup {None}
          /\ c \in Siblings(c)
      <3>1. c \in Siblings(c)
        BY <1>1, <2>1, <2>2, KinOfAll, Taken DEF HandleModem
      <3> QED  BY <2>2, <3>1 DEF EventType
    <2>4. CASE task' = Idle
      BY <2>4 DEF Bindable, Idle
    <2>5. CASE task' # Idle
      <3>1. PICK i : i = UpsertedId(modems, lastModem, c, w)
        OBVIOUS
      <3>2. modems' = Upserted(modems, lastModem, c, w) /\ s # None /\ UpsertSim(c, i, s)
        BY <1>1, <2>1, <2>2, <2>5, <3>1 DEF HandleModem
      <3>3. task' = [at |-> "bind", dev |-> c, row |-> i, sim |-> s]
        BY <2>1, <2>3, <2>5, <3>2, SimTaken
      <3>4. /\ DOMAIN modems' = DOMAIN modems \cup {i}
            /\ modems'[i].dev = c /\ modems'[i].imei = w /\ modems'[i].present
        <4>1. TypeOK
          OBVIOUS
        <4> QED  BY ONLY <2>3, <3>1, <3>2, <4>1, UpsertedRow
      <3>5. task'.row = i /\ task'.dev = c
        BY <3>3
      <3> QED  BY <2>3, <3>4, <3>5 DEF Bindable, Sure
    <2> QED  BY <2>4, <2>5
  <1>2. CASE HandleSim
    <2>1. PICK e \in EventType : /\ e = Head(events) /\ e = events[1] /\ task = Idle
                                 /\ e.kind = "SimUpdated" /\ 1 \in DOMAIN events
      BY <1>2, Taken DEF HandleSim
    <2>2. PICK c, s, i : c = e.dev /\ s = e.sim /\ i = ModemID(c)
      OBVIOUS
    <2>3. c \in Ids /\ s \in Sims /\ UpsertSim(c, i, s) /\ UNCHANGED <<modems, unsure>>
      BY <1>2, <2>1, <2>2 DEF HandleSim, EventType, historyVars
    <2>4. CASE task' = Idle
      BY <2>4 DEF Bindable, Idle
    <2>5. CASE task' # Idle
      <3>1. task' = [at |-> "bind", dev |-> c, row |-> i, sim |-> s]
        BY <2>1, <2>3, <2>5, SimTaken
      <3>2. task'.row = i /\ task'.dev = c
        BY <3>1
      <3>3. ASSUME i \in DOMAIN modems PROVE modems[i].dev \in Siblings(c)
        <4>1. PICK n \in Modules : c \in IdsOf[n]
          BY <2>1, <2>2 DEF Unmixed, EventsOf, EventOf, Of
        <4>2. \E m \in Modules : c \in IdsOf[m] /\ modems[i].dev \in IdsOf[m]
          BY <2>2, <2>3, <3>3, <4>1, FoundRow DEF Unmixed
        <4> QED  BY <4>2, KinMeans
      <3>4. ASSUME i \in DOMAIN modems, Sure(c)
            PROVE  modems[i].dev = c /\ (modems[i].present \/ Leaving(c)')
        <4>1. PICK t : Online(c, t)
          BY <2>1, <2>2, <3>4 DEF Stood, Following
        <4>2. i = modemIDs[c]
          BY <2>2, <2>3, <4>1, ModemFound DEF Online, Kept
        <4>3. Leaving(c) => Leaving(c)'
          BY <1>2, <2>1, LeavingKept DEF Unheard, Handles
        <4> QED  BY <3>4, <4>1, <4>2, <4>3 DEF Online, Kept, Shown
      <3>5. Leaving(c)' => Leaving(task.dev)'
        BY <3>2 DEF Leaving
      <3> QED  BY <2>3, <3>2, <3>3, <3>4, <3>5 DEF Bindable, Sure
    <2> QED  BY <2>4, <2>5
  <1>3. CASE HandleSample \/ HandleRemoved \/ Bind \/ ForgetModem \/ SweepLooks \/ MarkStaleModemsAbsent
    <2>1. task'.at # "bind"
      BY <1>3 DEF HandleSample, HandleRemoved, Bind, ForgetModem, SweepLooks,
                  MarkStaleModemsAbsent, Take, Idle
    <2> QED  BY <2>1 DEF Bindable
  <1>4. CASE Http
    <2>1. UNCHANGED <<events, task>> /\ (modems' = modems \/ \E i : modems' = Without(modems, {i}))
      BY <1>4 DEF Http, DeleteOfflineModem, DeleteUnusedSIM
    <2>2. \A i \in DOMAIN modems' : i \in DOMAIN modems /\ modems'[i] = modems[i]
      BY <2>1 DEF Without
    <2> QED  BY <1>0, <2>1, <2>2 DEF Bindable, Sure, Leaving
  <1> QED  BY <1>1, <1>2, <1>3, <1>4 DEF Handles, Pauses

-----------------------------------------------------------------------------
(* Steps of which nothing is said, and crashes.                            *)
LEMMA OnlineStays ==
    ASSUME Hushed, UNCHANGED runVars
    PROVE  /\ \A d : Leaving(d)' <=> Leaving(d)
           /\ \A d, k, s : Stand(d, k, s)' <=> Stand(d, k, s)
           /\ \A d : Current(d)' <=> Current(d)
  <1>1. UNCHANGED <<events, entries, unsure, task, modemIDs, simIDs, modems, sims, bound>>
    BY DEF Hushed, historyVars, runVars, dbVars, cacheVars
  <1>2. \A d : Leaving(d)' <=> Leaving(d)
    BY <1>1 DEF Leaving
  <1>3. \A d, s : Online(d, s)' <=> Online(d, s)
    BY <1>1 DEF Online, Kept, Holds, Shown, Leaving, Binding
  <1>4. \A d, k, s : Stand(d, k, s)' <=> Stand(d, k, s)
    BY <1>1, <1>3 DEF Stand
  <1>5. ASSUME NEW d PROVE Current(d)' <=> Current(d)
    <2>1. PICK s, n : s = entries[d].sim /\ n = Len(events) + 1
      OBVIOUS
    <2>2. Stand(d, n, s)' <=> Stand(d, n, s)
      BY <1>4
    <2> QED  BY <1>1, <2>1, <2>2 DEF Current, Sure
  <1> QED  BY <1>2, <1>4, <1>5

Heard == Families /\ Tidings /\ Swept /\ Unseen /\ Loose /\ Bindable

Tables == ModemKeys /\ SimKeys /\ Cached

(* They keep all that is said.                                             *)
LEMMA HushedKeeps ==
    ASSUME Hushed, UNCHANGED runVars
    PROVE  /\ Heard => Heard'
           /\ Tables => Tables'
           /\ Continued => Continued'
  <1>1. UNCHANGED <<events, entries, unsure, scars, task, sweep, modemIDs, simIDs, modems,
                    sims, bound>>
    BY DEF Hushed, historyVars, runVars, dbVars, cacheVars
  <1>2. (Families => Families') /\ (Tidings => Tidings') /\ (Swept => Swept')
    BY <1>1 DEF Families, Tidings, Swept, Sure, Leaving
  <1>3. Unseen => Unseen'
    BY <1>1 DEF Unseen, Sure, Leaving, Arriving, Absent
  <1>4. (Loose => Loose') /\ (Bindable => Bindable')
    BY <1>1 DEF Loose, Bindable, Sure, Leaving
  <1>5. Tables => Tables'
    BY <1>1 DEF Tables, ModemKeys, SimKeys, Cached
  <1>6. Continued => Continued'
    <2>1. ASSUME NEW k \in DOMAIN events, FollowsOn(k) PROVE FollowsOn(k)'
      <3>1. PICK d : d = events[k].dev
        OBVIOUS
      <3>2. PICK s \in Sims \cup {None} : /\ Stand(d, k, s)
                                          /\ events[k].kind = "SignalSampled" => events[k].sim = s
        BY <2>1, <3>1 DEF FollowsOn
      <3>3. Stand(d, k, s)'
        BY <3>2, OnlineStays
      <3> QED  BY <1>1, <3>1, <3>2, <3>3 DEF FollowsOn
    <2> QED  BY <1>1, <2>1 DEF Continued, Sure
  <1> QED  BY <1>2, <1>3, <1>4, <1>5, <1>6 DEF Heard

(* A crash leaves the tables alone, and nothing in doubt.                  *)
LEMMA CrashKeeps ==
    ASSUME TypeOK, Crash, Tables, Heard
    PROVE  Heard' /\ Tables' /\ Continued' /\ Silent'
  <1>1. /\ events' = <<>> /\ entries' = [d \in Ids |-> None] /\ unsure' = {} /\ task' = Idle
        /\ sweep' = "due" /\ modemIDs' = [d \in Ids |-> 0]
        /\ scars' = scars \cup {i \in DOMAIN bound : ~modems[i].present}
        /\ UNCHANGED <<modems, sims, bound>>
    BY DEF Crash, dbVars
  <1>2. DOMAIN events' = {} /\ task'.at = "idle"
    BY <1>1 DEF Idle
  <1>3. Families' /\ Tidings' /\ Swept' /\ Continued'
    BY <1>1, <1>2 DEF Families, Tidings, Swept, Continued
  <1>4. Unseen' /\ Loose' /\ Bindable'
    BY <1>1, <1>2 DEF Unseen, Loose, Bindable
  <1>5. Tables'
    BY <1>1 DEF Tables, ModemKeys, SimKeys, Cached
  <1>6. Silent'
    BY <1>1 DEF Silent
  <1> QED  BY <1>3, <1>4, <1>5, <1>6 DEF Heard

(* What happens around the daemon reaches it through signals only.         *)
LEMMA AroundHushed ==
    ASSUME Environment, ~Crash
    PROVE  Hushed /\ UNCHANGED <<runVars, provVars>>
  BY DEF Environment, Plug, Unplug, SwapSim, MMRestart, Report, Hushed, provVars, historyVars

(* What the provider and the runner have not done yet.                     *)
LEMMA SilentProvider ==
    ASSUME Phases, Silent, Provider
    PROVE  Silent'
  <1>1. CASE Start \/ GetManagedObjects
    BY <1>1 DEF Start, GetManagedObjects, Silent, runVars
  <1>2. CASE ReadListed \/ ReadAnnounced \/ Listen \/ OnModemRemoved \/ OnModemChanged \/ OnSignal
    BY <1>2 DEF ReadListed, ReadAnnounced, Listen, OnModemRemoved, OnModemChanged, OnSignal,
                Next1, Silent, provVars
  <1>3. CASE EnterModem
    BY <1>3 DEF EnterModem, Phases, Silent
  <1> QED  BY <1>1, <1>2, <1>3 DEF Provider

(* Nor does it start the daemon.                                           *)
LEMMA SilentAround ==
    ASSUME Silent, Environment, ~Crash
    PROVE  Silent'
  BY AroundHushed DEF Hushed, provVars, runVars, Silent

(* One object per module.                                                  *)
LEMMA ApartKept ==
    ASSUME TypeOK, Apart, [Next]_vars
    PROVE  Apart'
  <1> USE DEF TypeOK, MMTypeOK, ProviderTypeOK
  <1>1. CASE UNCHANGED <<object, toAdd>>
    BY <1>1 DEF Apart
  <1>2. CASE UNCHANGED toAdd /\ \A p \in Paths : object'[p] \in {object[p], None}
    BY <1>2 DEF Apart
  <1>3. ASSUME NEW m \in Modules, NEW d \in IdsOf[m], NEW imei, Plug(m, d, imei) PROVE Apart'
    <2>1. PICK o, n : o = [module |-> m, dev |-> d, imei |-> imei] /\ n = nextPath'
      OBVIOUS
    <2>2. object' = [object EXCEPT ![n] = o] /\ UNCHANGED toAdd /\ o.module = m
      BY <1>3, <2>1 DEF Plug, provVars
    <2>3. \A p \in Paths : object[p] # None => object[p].module # m
      BY <1>3 DEF Plug, Exported
    <2> QED  BY <2>2, <2>3 DEF Apart
  <1>4. CASE Environment
    BY <1>1, <1>2, <1>3, <1>4 DEF Environment, Unplug, SwapSim, MMRestart, Report, Crash,
       provVars, mmVars, Apart
  <1>5. CASE GetManagedObjects
    <2>1. UNCHANGED object
      BY <1>5 DEF GetManagedObjects, mmVars
    <2>2. CASE UNCHANGED toAdd
      BY <1>1, <2>1, <2>2
    <2>3. CASE toAdd' = {Signal("InterfacesAdded", p, object[p], slot[object[p].module]) :
                            p \in {q \in Paths : object[q] # None}}
      <3>1. ASSUME NEW x \in toAdd'
            PROVE  /\ x.path \in Paths /\ object[x.path] # None /\ x.object = object[x.path]
                   /\ x = Signal("InterfacesAdded", x.path, object[x.path],
                                 slot[object[x.path].module])
        <4>1. PICK p \in Paths : /\ object[p] # None
                                 /\ x = Signal("InterfacesAdded", p, object[p],
                                               slot[object[p].module])
          BY <2>3
        <4>2. x.path = p /\ x.object = object[p]
          BY <4>1 DEF Signal
        <4> QED  BY <4>1, <4>2
      <3>2. ASSUME NEW x \in toAdd', NEW y \in toAdd',
                   x.path = y.path \/ x.object.module = y.object.module
            PROVE  x = y
        <4>1. x.path = y.path
          BY <3>1, <3>2 DEF Apart
        <4> QED  BY <3>1, <4>1
      <3> QED  BY <2>1, <3>2 DEF Apart
    <2> QED  BY <1>5, <2>2, <2>3 DEF GetManagedObjects
  <1>6. CASE ReadListed
    <2>1. UNCHANGED object /\ toAdd' \subseteq toAdd
      BY <1>6 DEF ReadListed, mmVars
    <2> QED  BY <2>1 DEF Apart
  <1>7. CASE Start \/ ReadAnnounced \/ EnterModem \/ Listen \/ OnModemRemoved \/ OnModemChanged \/ OnSignal
    BY <1>1, <1>7 DEF Start, ReadAnnounced, EnterModem, Listen, OnModemRemoved, OnModemChanged,
       OnSignal, mmVars, provVars
  <1>8. CASE Runner \/ Http \/ UNCHANGED vars
    BY <1>1, <1>8, QuietLeaves DEF Quiet
  <1> QED  BY <1>4, <1>5, <1>6, <1>7, <1>8 DEF Next, Provider

-----------------------------------------------------------------------------
(* What is said of a modem, or will be, is the last that is said of its    *)
(* module.  A path that leads to it leads to no other module.              *)
LEMMA LeadsNotLed ==
    ASSUME NEW p, NEW o, NEW n \in Nat, Leads(p, o, n), o.module \in Modules,
           o.dev \in IdsOf[o.module], NEW m \in Modules, m # o.module
    PROVE  ~Led(p, n, m)
  <1>1. ASSUME NEW k \in 1..n-1, Announced(p, k), sigs[k].object.module = m,
               \A l \in k+1..n-1 : ~Announced(p, l)
        PROVE  FALSE
    <2>1. PICK l \in k..n-1 : Announced(p, l) /\ sigs[l].object = o
      BY <1>1 DEF Leads
    <2>2. l = k \/ l \in k+1..n-1
      BY <2>1
    <2> QED  BY <1>1, <2>1, <2>2
  <1>2. ASSUME \A k \in 1..n-1 : ~Announced(p, k), LedNow(p, m) PROVE FALSE
    <2>1. Route(p, o)
      BY <1>2 DEF Leads
    <2>2. None \notin IdsOf[m] /\ o.dev \notin IdsOf[m]
      BY OneModule, NoneIsNothing, IdsAssumption
    <2> QED  BY <1>2, <2>1, <2>2 DEF Route, LedNow
  <1> QED  BY <1>1, <1>2 DEF Led

(* A signal of the object at one path is about no module at another.       *)
LEMMA NotElsewhere ==
    ASSUME TypeOK, Homeward, Apart, Honesty, app # "down", Untouched,
           NEW x \in SignalType, sigs' = Append(sigs, x), NEW n, n = Len(sigs) + 1,
           x.type # "InterfacesAdded", x.path \in Paths, object[x.path] # None,
           NEW p \in Paths, NEW o \in Object, object[p] = o, o # None, p # x.path
    PROVE  ~Elsewhere(n, p, o.module)'
  <1>1. PICK r, c, m : r = x.path /\ c = object[r] /\ m = o.module
    OBVIOUS
  <1>2. /\ n \in Nat /\ n \in 1..Len(sigs)+1 /\ sigs'[n] = x /\ r \in Paths
        /\ c \in Object /\ m \in Modules
    BY <1>1 DEF TypeOK, ProviderTypeOK, MMTypeOK, Object
  <1>3. Leads(r, c, n)
    BY <1>1, <1>2 DEF Homeward
  <1>4. c.module # m /\ c.module \in Modules /\ c.dev \in IdsOf[c.module]
    BY <1>1, <1>2 DEF Apart, Honesty, Honest, Of, Object
  <1>5. ~Led(r, n, m)
    BY <1>2, <1>3, <1>4, LeadsNotLed
  <1>6. ~Led(r, n, m)'
    BY <1>2, <1>5, LedOn DEF Untouched
  <1> QED  BY <1>1, <1>2, <1>6 DEF Elsewhere

(* A signal is added.                                                      *)
LEMMA ForemostGrows ==
    ASSUME TypeOK, Foremost, app # "down", UNCHANGED app, Untouched,
           NEW x \in SignalType, sigs' = Append(sigs, x), NEW n, n = Len(sigs) + 1,
           \A p \in Paths : \A o \in Object : object'[p] = o /\ o # None =>
               \/ /\ object[p] = o /\ ~(x.type = "InterfacesAdded" /\ x.path = p)
                  /\ ~Elsewhere(n, p, o.module)'
               \/ x.type = "InterfacesAdded" /\ x.path = p /\ x.object = o,
           x.type \in OfModem => x.object = object[x.path] /\ x.object # None
    PROVE  Foremost'
  <1>1. /\ n \in Nat /\ Len(sigs') = n /\ sigs'[n] = x /\ n \in 1..Len(sigs)+1
        /\ \A k \in 1..Len(sigs) : sigs'[k] = sigs[k]
        /\ DOMAIN sigs' = 1..n /\ DOMAIN sigs = 1..Len(sigs)
    BY DEF TypeOK, ProviderTypeOK
  <1>2. ASSUME NEW p \in Paths, NEW o \in Object, NEW i \in 1..n+1, Claim(p, o, i)'
        PROVE  Newest(p, o, i)'
    <2>1. CASE object'[p] = o /\ o # None /\ i = n + 1
      <3>1. CASE /\ object[p] = o /\ ~(x.type = "InterfacesAdded" /\ x.path = p)
                 /\ ~Elsewhere(n, p, o.module)'
        <4>1. Claim(p, o, n)
          BY <2>1, <3>1 DEF Claim
        <4>2. Newest(p, o, n)
          BY <1>1, <4>1 DEF Foremost
        <4>3. ~Announced(p, n)'
          BY <1>1, <3>1 DEF Announced
        <4>4. Newest(p, o, n + 1)'
          BY <3>1, <4>2, <4>3, NewestPast
        <4> QED  BY <2>1, <4>4
      <3>2. CASE x.type = "InterfacesAdded" /\ x.path = p /\ x.object = o
        <4>1. Newest(p, o, n + 1)'
          BY <3>2, NewestFresh
        <4> QED  BY <2>1, <4>1
      <3> QED  BY <2>1, <3>1, <3>2
    <2>2. CASE /\ i \in DOMAIN sigs' /\ sigs'[i].type \in OfModem
               /\ sigs'[i].path = p /\ sigs'[i].object = o
      <3>1. i \in 1..Len(sigs)+1
        BY <1>1, <2>2
      <3>2. Claim(p, o, i)
        <4>1. CASE i = n
          BY <1>1, <2>2, <4>1 DEF Claim
        <4>2. CASE i # n
          BY <1>1, <2>2, <4>2 DEF Claim
        <4> QED  BY <4>1, <4>2
      <3>3. Newest(p, o, i)
        BY <3>1, <3>2 DEF Foremost
      <3> QED  BY <3>1, <3>3, NewestOn
    <2>3. Len(sigs') + 1 = n + 1
      BY <1>1
    <2> QED  BY <1>1, <1>2, <2>1, <2>2, <2>3 DEF Claim
  <1>3. ASSUME NEW i \in 1..Len(sigs')+1 PROVE i \in 1..n+1
    BY <1>1
  <1> QED  BY <1>2, <1>3 DEF Foremost

(* The queue stays.                                                        *)
LEMMA ForemostStays ==
    ASSUME TypeOK, Homeward, Honesty, Foremost, app # "down", UNCHANGED sigs,
           \A p \in Paths : object'[p] \in {object[p], None},
           \A q \in Paths : \A m \in Modules : LedNow(q, m)' => LedNow(q, m),
           \A p \in Paths : \A o \in Object :
               Honest(o) /\ Route(p, o) /\ Ends(p, o) => Ends(p, o)'
    PROVE  Foremost'
  <1>1. ASSUME NEW p \in Paths, NEW o \in Object, NEW i \in 1..Len(sigs)+1, Claim(p, o, i)'
        PROVE  Newest(p, o, i)'
    <2>1. Claim(p, o, i)
      BY <1>1 DEF Claim
    <2>2. Newest(p, o, i)
      BY <2>1 DEF Foremost
    <2>3. Leads(p, o, i) /\ Honest(o)
      BY <2>1 DEF Claim, Homeward, Honesty, SignalsHonest
    <2>4. \A q \in Paths : LedNow(q, o.module)' => LedNow(q, o.module)
      BY DEF Object
    <2> QED  BY <2>2, <2>3, <2>4, NewestStill
  <1> QED  BY <1>1 DEF Foremost

(* The head is done with.                                                  *)
LEMMA ForemostShrinks ==
    ASSUME TypeOK, Homeward, Honesty, Foremost, app # "down", sigs # <<>>,
           sigs' = Tail(sigs), UNCHANGED object,
           \A p \in Paths : \A o \in Object : \A i \in 2..Len(sigs)+1 :
               Honest(o) /\ Leads(p, o, i) /\ Newest(p, o, i) => Newest(p, o, i-1)'
    PROVE  Foremost'
  <1>1. /\ Len(sigs) \in Nat /\ Len(sigs') = Len(sigs) - 1
        /\ \A k \in 1..Len(sigs') : k+1 \in DOMAIN sigs /\ sigs'[k] = sigs[k+1]
        /\ DOMAIN sigs' = 1..Len(sigs')
    BY DEF TypeOK, ProviderTypeOK
  <1>2. ASSUME NEW p \in Paths, NEW o \in Object, NEW i \in 1..Len(sigs')+1, Claim(p, o, i)'
        PROVE  Newest(p, o, i)'
    <2>1. PICK j : j = i + 1
      OBVIOUS
    <2>2. j \in 2..Len(sigs)+1 /\ j \in 1..Len(sigs)+1 /\ j - 1 = i
      BY <1>1, <2>1
    <2>3. Claim(p, o, j)
      <3>1. CASE object'[p] = o /\ o # None /\ i = Len(sigs') + 1
        BY <1>1, <2>1, <3>1 DEF Claim
      <3>2. CASE /\ i \in DOMAIN sigs' /\ sigs'[i].type \in OfModem
                 /\ sigs'[i].path = p /\ sigs'[i].object = o
        BY <1>1, <2>1, <3>2 DEF Claim
      <3> QED  BY <1>2, <3>1, <3>2 DEF Claim
    <2>4. Newest(p, o, j)
      BY <2>2, <2>3 DEF Foremost
    <2>5. Leads(p, o, j) /\ Honest(o)
      BY <2>3 DEF Claim, Homeward, Honesty, SignalsHonest
    <2>6. Newest(p, o, j-1)'
      BY <2>2, <2>4, <2>5
    <2> QED  BY <2>2, <2>6
  <1> QED  BY <1>2 DEF Foremost

(* What ModemManager and the hands that move modules do.                   *)
LEMMA ForemostAround ==
    ASSUME TypeOK, Homeward, Apart, Honesty, Foremost, Environment
    PROVE  Foremost'
  <1> USE DEF TypeOK, MMTypeOK, ProviderTypeOK
  <1>1. CASE Crash
    BY <1>1 DEF Crash, Foremost
  <1>2. ASSUME ~Crash PROVE Untouched /\ UNCHANGED app
    BY <1>2, AroundHushed DEF Hushed, provVars, runVars, cacheVars, dbVars, Untouched
  <1>3. CASE app = "down" /\ ~Crash
    BY <1>2, <1>3 DEF Foremost
  <1>4. CASE app # "down" /\ ~Crash
    <2>0. Untouched /\ UNCHANGED app
      BY <1>2, <1>4
    <2>1. ASSUME UNCHANGED sigs, \A p \in Paths : object'[p] \in {object[p], None}
          PROVE  Foremost'
      <3>1. \A q \in Paths : \A m \in Modules : LedNow(q, m)' => LedNow(q, m)
        BY <2>0 DEF Untouched, LedNow
      <3>2. \A p \in Paths : \A o \in Object :
                Honest(o) /\ Route(p, o) /\ Ends(p, o) => Ends(p, o)'
        BY <2>0, EndsOn DEF Untouched
      <3> QED  BY <1>4, <2>1, <3>1, <3>2, ForemostStays
    <2>2. ASSUME NEW r \in Paths, object[r] # None, UNCHANGED object,
                 NEW x \in SignalType, x.type \in OfModem, x.path = r, x.object = object[r],
                 sigs' = Append(sigs, x)
          PROVE  Foremost'
      <3>1. PICK n : n = Len(sigs) + 1
        OBVIOUS
      <3>2. sigs'[n] = x /\ x.type # "InterfacesAdded" /\ x.type # "InterfacesRemoved"
        BY <2>2, <3>1 DEF OfModem
      <3>3. ASSUME NEW p \in Paths, NEW o \in Object, object'[p] = o, o # None
            PROVE  ~Elsewhere(n, p, o.module)'
        <4>1. CASE p = r
          BY <2>2, <3>2, <4>1 DEF Elsewhere
        <4>2. CASE p # r
          BY <1>4, <2>0, <2>2, <3>1, <3>2, <3>3, <4>2, NotElsewhere
        <4> QED  BY <4>1, <4>2
      <3> QED  BY <1>4, <2>0, <2>2, <3>1, <3>2, <3>3, ForemostGrows
    <2>3. ASSUME NEW m \in Modules, NEW d \in IdsOf[m], NEW imei \in Modules \cup {None},
                 Plug(m, d, imei)
          PROVE  Foremost'
      <3>1. PICK c, r, x : /\ c = [module |-> m, dev |-> d, imei |-> imei] /\ r = nextPath'
                           /\ x = Signal("InterfacesAdded", r, c, slot[m])
        OBVIOUS
      <3>2. /\ d \in Ids /\ r \in Paths /\ object' = [object EXCEPT ![r] = c]
            /\ \A p \in Paths : object[p] # None => object[p].module # m
            /\ Deliver(x)
        BY <2>3, <3>1, IdsAssumption, BoundsAssumption DEF Plug, Exported, Paths
      <3>3. c \in Object /\ c.module = m
        BY <3>1, <3>2 DEF Object
      <3>4. x \in SignalType /\ x.type = "InterfacesAdded" /\ x.path = r /\ x.object = c
        BY <3>1, <3>2, <3>3, SignalTypes DEF Signal
      <3>5. sigs' = Append(sigs, x)
        BY <1>4, <3>2 DEF Deliver
      <3>6. PICK n : n = Len(sigs) + 1
        OBVIOUS
      <3>7. sigs'[n] = x
        BY <3>5, <3>6
      <3>8. ASSUME NEW p \in Paths, NEW o \in Object, object'[p] = o, o # None, p # r
            PROVE  object[p] = o /\ ~Elsewhere(n, p, o.module)'
        BY <3>2, <3>3, <3>4, <3>7, <3>8 DEF Elsewhere
      <3>9. object'[r] = c
        BY <3>2
      <3>10. x.type \notin OfModem
        BY <3>4 DEF OfModem
      <3> QED  BY <1>4, <2>0, <3>4, <3>5, <3>6, <3>8, <3>9, <3>10, ForemostGrows
    <2>4. ASSUME NEW r \in Paths, Unplug(r) PROVE Foremost'
      <3>1. PICK x : x = Signal("InterfacesRemoved", r, None, None)
        OBVIOUS
      <3>2. x \in SignalType /\ x.type = "InterfacesRemoved" /\ x.path = r
        BY <3>1, SignalTypes DEF Signal
      <3>3. /\ object[r] # None /\ object' = [object EXCEPT ![r] = None]
            /\ sigs' = Append(sigs, x)
        BY <1>4, <2>4, <3>1 DEF Unplug, Deliver
      <3>4. PICK n : n = Len(sigs) + 1
        OBVIOUS
      <3>5. ASSUME NEW p \in Paths, NEW o \in Object, object'[p] = o, o # None
            PROVE  object[p] = o /\ ~Elsewhere(n, p, o.module)'
        <4>1. p # r /\ object[p] = o
          BY <3>3, <3>5
        <4> QED  BY <1>4, <2>0, <3>2, <3>3, <3>4, <3>5, <4>1, NotElsewhere
      <3>6. x.type \notin OfModem
        BY <3>2 DEF OfModem
      <3> QED  BY <1>4, <2>0, <3>2, <3>3, <3>4, <3>5, <3>6, ForemostGrows
    <2>5. ASSUME NEW r \in Paths, Report(r) PROVE Foremost'
      <3>1. PICK x : x = Signal("Signal", r, object[r], None)
        OBVIOUS
      <3>2. object[r] # None /\ object[r] \in Object /\ UNCHANGED object
        BY <2>5 DEF Report, mmVars
      <3>3. x \in SignalType /\ x.type \in OfModem /\ x.path = r /\ x.object = object[r]
        BY <3>1, <3>2, SignalTypes DEF Signal, OfModem
      <3>4. sigs' = Append(sigs, x)
        BY <1>4, <2>5, <3>1 DEF Report, Deliver
      <3> QED  BY <2>2, <3>2, <3>3, <3>4
    <2>6. ASSUME NEW m \in Modules, NEW s \in Sims \cup {None}, SwapSim(m, s) PROVE Foremost'
      <3>1. UNCHANGED object
        BY <2>6 DEF SwapSim
      <3>2. CASE UNCHANGED sigs
        BY <2>1, <3>1, <3>2
      <3>3. CASE ~UNCHANGED sigs
        <4>1. PICK r \in Paths : object[r] # None /\ Notify(r, Signal("Modem", r, object[r], s))
          BY <2>6, <3>3 DEF SwapSim
        <4>2. PICK x : x = Signal("Modem", r, object[r], s)
          OBVIOUS
        <4>3. object[r] \in Object
          BY <4>1
        <4>4. x \in SignalType /\ x.type \in OfModem /\ x.path = r /\ x.object = object[r]
          BY <4>2, <4>3, SignalTypes DEF Signal, OfModem
        <4>5. sigs' = Append(sigs, x)
          BY <1>4, <3>3, <4>1, <4>2 DEF Notify, Deliver
        <4> QED  BY <2>2, <3>1, <4>1, <4>4, <4>5
      <3> QED  BY <3>2, <3>3
    <2>7. CASE MMRestart
      BY <2>1, <2>7 DEF MMRestart
    <2> QED  BY <1>4, <2>3, <2>4, <2>5, <2>6, <2>7 DEF Environment
  <1> QED  BY <1>1, <1>3, <1>4

(* What the steps of the provider do to what comes before the signals.     *)
LEMMA EndsHushed ==
    ASSUME Hushed, UNCHANGED <<runVars, toAdd, adding>>, NEW p, NEW o
    PROVE  Ends(p, o) => Ends(p, o)'
  <1>1. Current(o.dev)' <=> Current(o.dev)
    BY OnlineStays
  <1> QED  BY <1>1 DEF Ends, Hushed

(* A modem of the list is read.                                            *)
LEMMA ListedReads ==
    ASSUME TypeOK, ReadListed
    PROVE  /\ app # "down" /\ UNCHANGED <<object, sigs, byPath, runVars>> /\ Hushed
           /\ adding = None /\ adding' # None
           /\ \E x \in toAdd : /\ toAdd' = toAdd \ {x}
                               /\ adding'.path = x.path /\ adding'.object = x.object
  <1>1. PICK x \in toAdd : toAdd' = toAdd \ {x} /\ ReadModem(x)
    BY DEF ReadListed
  <1>2. adding' # None /\ adding'.path = x.path /\ adding'.object = x.object
    BY <1>1, ReadModemType, NoneIsNoRecord DEF ReadModem, TypeOK, ProviderTypeOK
  <1>3. app # "down" /\ adding = None /\ UNCHANGED <<object, sigs, byPath, runVars>> /\ Hushed
    BY DEF ReadListed, mmVars, historyVars, Hushed
  <1> QED  BY <1>1, <1>2, <1>3

(* A modem of the list moves on to being added.                            *)
LEMMA EndsListed ==
    ASSUME TypeOK, ReadListed, NEW p, NEW o, Ends(p, o)
    PROVE  Ends(p, o)'
  <1>1. PICK x \in toAdd : /\ toAdd' = toAdd \ {x}
                           /\ adding'.path = x.path /\ adding'.object = x.object
    BY ListedReads
  <1>2. adding = None /\ adding' # None /\ UNCHANGED entries
    BY ListedReads DEF Hushed
  <1>3. Current(o.dev)' <=> Current(o.dev)
    BY ListedReads, OnlineStays
  <1>4. adding'.object.module = o.module => adding'.path = p
    BY <1>1 DEF Ends
  <1>5. ASSUME \A y \in toAdd' : y.path # p, adding'.path # p PROVE \A y \in toAdd : y.path # p
    BY <1>1, <1>5
  <1> QED  BY <1>1, <1>2, <1>3, <1>4, <1>5 DEF Ends

(* It is entered: its event is the last of its module.                     *)
LEMMA EndsEntered ==
    ASSUME TypeOK, TypeOK', Phases, Unmixed, EnterModem, NEW p, NEW o \in Object, Honest(o),
           Route(p, o), Ends(p, o)
    PROVE  Ends(p, o)'
  <1>1. PICK a, d : a = adding.object /\ d = adding.object.dev
    OBVIOUS
  <1>2. /\ adding # None /\ adding' = None /\ d \in Ids /\ Tells(d)
        /\ entries' = [entries EXCEPT ![d] = adding.entry]
        /\ UNCHANGED <<toAdd, runVars>>
    BY <1>1, EnterTells
  <1>3. /\ a \in Object /\ d \in IdsOf[a.module] /\ a.module \in Modules
        /\ o.dev \in Ids /\ o.module \in Modules /\ o.dev \in IdsOf[o.module]
    BY <1>1, <1>2 DEF TypeOK, ProviderTypeOK, Reading, Unmixed, Honesty, Honest, Of, Object
  <1>4. d \in Siblings(d) /\ Siblings(d) = IdsOf[a.module]
    BY <1>3, KinMeans
  <1>5. ASSUME \A x \in toAdd : x.path # p, entries'[o.dev] # None, entries'[o.dev].path = p
        PROVE  Current(o.dev)'
    <2>1. CASE adding.path = p
      <3>1. d = o.dev
        BY <1>1, <1>2, <1>5, <2>1 DEF Route
      <3> QED  BY <1>2, <1>3, <1>4, <1>5, <3>1, CurrentTold
    <2>2. CASE adding.path # p
      <3>1. a.module # o.module
        BY <1>1, <1>2, <1>5, <2>2 DEF Ends
      <3>2. o.dev \notin Siblings(d)
        BY <1>3, <1>4, <3>1, OneModule
      <3>3. entries'[o.dev] = entries[o.dev]
        BY <1>2, <1>3, <1>4, <3>2 DEF TypeOK, ProviderTypeOK
      <3>4. Current(o.dev)
        BY <1>2, <1>5, <2>2, <3>3 DEF Ends
      <3> QED  BY <1>2, <1>3, <1>4, <3>2, <3>4, CurrentTold
    <2> QED  BY <2>1, <2>2
  <1> QED  BY <1>2, <1>5 DEF Ends

\* The steps of the dispatcher that are about a path only.
LEMMA EndsLooked ==
    ASSUME IInv, TypeOK', Phases, Unmixed, OnModemRemoved \/ OnModemChanged \/ OnSignal,
           NEW p \in Paths, NEW o \in Object, Honest(o),
           Route(p, o), ~Elsewhere(1, p, o.module), Ends(p, o)
    PROVE  Ends(p, o)'
  <1> USE DEF IInv
  <1>1. PICK r, c : r = Head(sigs).path /\ c = byPath[r]
    OBVIOUS
  <1>2. /\ \E type \in {"InterfacesRemoved", "Modem", "Signal"} : Next1(type)
        /\ UNCHANGED <<toAdd, adding, runVars>>
        /\ \/ Hushed
           \/ /\ c \in Ids /\ Tells(c)
              /\ OnModemRemoved \/ (entries[c] # None /\ entries'[c] # None)
    <2>1. CASE OnModemRemoved
      BY <1>1, <2>1, RemovedTells
    <2>2. CASE OnModemChanged
      BY <1>1, <2>2, ChangedTells
    <2>3. CASE OnSignal
      BY <1>1, <2>3, SampleTells
    <2> QED  BY <2>1, <2>2, <2>3
  <1>3. CASE Hushed
    BY <1>2, <1>3, EndsHushed
  <1>4. CASE c \in Ids /\ Tells(c) /\ (OnModemRemoved \/ (entries[c] # None /\ entries'[c] # None))
    <2>1. /\ app = "running" /\ toAdd = {} /\ adding = None /\ sigs # <<>>
          /\ sigs[1].path = r /\ sigs[1].type # "InterfacesAdded" /\ r \in Paths
      BY <1>1, <1>2, HeadType, HeadPaths DEF Next1, Phases
    <2>2. o.dev \in Ids /\ o.module \in Modules /\ o.dev \in IdsOf[o.module]
      BY DEF Honest, Of, Object
    <2>3. c # None /\ entries[c] # None /\ c \in Siblings(c)
      <3>1. c # None
        BY <1>4, NoneIsNothing
      <3>2. entries[c] # None
        BY <1>1, <2>1, <3>1 DEF RoutesAreKnown
      <3> QED  BY <1>4, <3>1, <3>2, KinOfAll
    <2>4. CASE r = p
      <3>1. c = o.dev
        BY <1>1, <2>1, <2>3, <2>4 DEF Route
      <3>2. ~OnModemRemoved
        BY <2>1, <2>4 DEF Elsewhere, OnModemRemoved, Next1
      <3>3. Current(o.dev)'
        BY <1>2, <1>4, <2>3, <3>1, <3>2, CurrentTold
      <3> QED  BY <1>2, <2>1, <3>3 DEF Ends
    <2>5. CASE r # p
      <3>1. c \notin IdsOf[o.module]
        <4>1. ~Led(r, 1, o.module)
          BY <2>1, <2>5 DEF Elsewhere
        <4>2. ~LedNow(r, o.module)
          BY <4>1 DEF Led
        <4> QED  BY <1>1, <2>1, <4>2 DEF LedNow
      <3>2. o.dev \notin Siblings(c)
        BY <2>2, <3>1, KinMeans, OneModule
      <3>3. entries'[o.dev] = entries[o.dev]
        BY <1>4, <2>2, <2>3, <3>2 DEF Tells
      <3>4. Current(o.dev) => Current(o.dev)'
        BY <1>2, <1>4, <2>2, <2>3, <3>2, CurrentTold
      <3> QED  BY <1>2, <2>1, <3>3, <3>4 DEF Ends
    <2> QED  BY <2>4, <2>5
  <1> QED  BY <1>2, <1>3, <1>4

(* No step of the provider but the listing leads a path to one more module.*)
LEMMA LedListed ==
    ASSUME TypeOK, ReadListed, NEW q, NEW m, LedNow(q, m)'
    PROVE  LedNow(q, m)
  <1>1. PICK x \in toAdd : /\ toAdd' = toAdd \ {x}
                           /\ adding'.path = x.path /\ adding'.object = x.object
    BY ListedReads
  <1>2. adding = None /\ adding' # None /\ UNCHANGED byPath
    BY ListedReads
  <1>3. CASE \E y \in toAdd' : y.path = q /\ y.object.module = m
    BY <1>1, <1>3 DEF LedNow
  <1>4. CASE x.path = q /\ x.object.module = m
    BY <1>4 DEF LedNow
  <1>5. CASE (\A y \in toAdd' : y.path # q) /\ x.path # q /\ byPath[q] \in IdsOf[m]
    <2>1. \A y \in toAdd : y.path # q
      BY <1>1, <1>5
    <2> QED  BY <1>2, <1>5, <2>1 DEF LedNow
  <1> QED  BY <1>1, <1>2, <1>3, <1>4, <1>5 DEF LedNow

(* It is entered under its own path.                                       *)
LEMMA LedEntered ==
    ASSUME TypeOK, Phases, Unmixed, EnterModem, NEW q \in Paths, NEW m \in Modules,
           LedNow(q, m)'
    PROVE  LedNow(q, m)
  <1>1. PICK a, d : a = adding.object /\ d = adding.object.dev
    OBVIOUS
  <1>2. /\ adding # None /\ adding' = None /\ UNCHANGED toAdd
        /\ byPath' = Routed(d, adding.entry.path) /\ adding.entry.path = adding.path
    BY <1>1, EnterTells DEF Phases
  <1>3. d \in IdsOf[a.module] /\ a.module \in Modules
    BY <1>1, <1>2 DEF TypeOK, ProviderTypeOK, Reading, Unmixed, Honesty, Honest, Of, Object
  <1>4. None \notin IdsOf[m]
    BY IdsAssumption, NoneIsNothing
  <1>5. CASE \E x \in toAdd : x.path = q /\ x.object.module = m
    BY <1>5 DEF LedNow
  <1>6. CASE (\A x \in toAdd : x.path # q) /\ byPath'[q] \in IdsOf[m]
    <2>1. CASE adding.path = q
      <3>1. byPath'[q] = d
        BY <1>2, <2>1 DEF Routed
      <3>2. a.module = m
        BY <1>3, <1>6, <3>1, OneModule
      <3> QED  BY <1>1, <1>2, <1>6, <2>1, <3>2 DEF LedNow
    <2>2. CASE adding.path # q
      <3>1. byPath'[q] = byPath[q]
        BY <1>2, <1>4, <1>6, <2>2 DEF Routed
      <3> QED  BY <1>6, <2>2, <3>1 DEF LedNow
    <2> QED  BY <2>1, <2>2
  <1> QED  BY <1>2, <1>5, <1>6 DEF LedNow

(* A removal leads a path nowhere.                                         *)
LEMMA LedLooked ==
    ASSUME TypeOK, OnModemRemoved \/ OnModemChanged \/ OnSignal,
           NEW q \in Paths, NEW m \in Modules, LedNow(q, m)'
    PROVE  LedNow(q, m)
  <1>1. None \notin IdsOf[m]
    BY IdsAssumption, NoneIsNothing
  <1>2. UNCHANGED <<toAdd, adding>> /\ byPath'[q] \in {None, byPath[q]}
    BY HeadType DEF OnModemRemoved, OnModemChanged, OnSignal, provVars, TypeOK, ProviderTypeOK
  <1> QED  BY <1>1, <1>2 DEF LedNow

(* What the provider does.                                                 *)
LEMMA ForemostProvider ==
    ASSUME IInv, IInv', Phases, Homeward, Unmixed, Apart, Silent, Foremost, Provider
    PROVE  Foremost'
  <1> USE DEF IInv
  <1>0. Honesty
    BY DEF Unmixed
  <1>1. CASE Start
    <2>1. /\ sigs' = <<>> /\ toAdd' = {} /\ adding' = None /\ \A d \in Ids : entries'[d] = None
      BY <1>1 DEF Start, Phases, Silent
    <2>2. ASSUME NEW p \in Paths, NEW o \in Object PROVE Newest(p, o, 1)'
      <3>1. o.dev \in Ids
        BY DEF Object
      <3>2. Ends(p, o)'
        BY <2>1, <3>1 DEF Ends
      <3> QED  BY <3>2 DEF Newest
    <2>3. \A i \in 1..Len(sigs')+1 : i = 1
      BY <2>1
    <2> QED  BY <2>2, <2>3 DEF Foremost
  <1>2. CASE GetManagedObjects
    <2>1. /\ app = "matching" /\ UNCHANGED <<object, sigs, byPath>>
          /\ adding' = None /\ \A p \in Paths : byPath'[p] = None
          /\ \A d \in Ids : entries'[d] = None
          /\ \A k \in DOMAIN sigs : sigs[k].type \notin OfModem
      BY <1>2 DEF GetManagedObjects, Phases, Silent, mmVars
    <2>2. \/ toAdd' = {}
          \/ toAdd' = {Signal("InterfacesAdded", p, object[p], slot[object[p].module]) :
                          p \in {q \in Paths : object[q] # None}}
      BY <1>2 DEF GetManagedObjects, Phases
    <2>3. \A x \in toAdd' : /\ x.path \in Paths /\ x.object = object[x.path]
                            /\ object[x.path] # None
      BY <2>2 DEF Signal
    <2>4. ASSUME NEW p \in Paths, NEW o \in Object, NEW i \in 1..Len(sigs)+1, Claim(p, o, i)'
          PROVE  Newest(p, o, i)'
      <3>1. object[p] = o /\ o # None /\ i = Len(sigs) + 1
        BY <2>1, <2>4 DEF Claim
      <3>2. Newest(p, o, i) /\ Leads(p, o, i)
        BY <2>1, <2>4, <3>1 DEF Claim, Foremost, Homeward
      <3>3. \A x \in toAdd' : x.object.module = o.module => x.path = p
        BY <2>3, <3>1 DEF Apart
      <3>4. o.dev \in Ids /\ None \notin IdsOf[o.module]
        BY IdsAssumption, NoneIsNothing DEF Object
      <3>5. \A q \in Paths \ {p} : ~LedNow(q, o.module)'
        BY <2>1, <3>3, <3>4 DEF LedNow
      <3>6. Ends(p, o)'
        BY <2>1, <3>3, <3>4 DEF Ends
      <3> QED  BY <2>1, <3>2, <3>5, <3>6, NewestStill
    <2> QED  BY <2>1, <2>4 DEF Foremost
  <1>3. CASE ReadListed
    <2>1. app # "down" /\ UNCHANGED <<object, sigs>>
      BY <1>3, ListedReads
    <2>2. \A q \in Paths : \A m \in Modules : LedNow(q, m)' => LedNow(q, m)
      BY <1>3, LedListed
    <2>3. \A p \in Paths : \A o \in Object : Ends(p, o) => Ends(p, o)'
      BY <1>3, EndsListed
    <2> QED  BY <1>0, <2>1, <2>2, <2>3, ForemostStays
  <1>4. CASE EnterModem
    <2>1. app # "down" /\ UNCHANGED <<object, sigs>>
      BY <1>4 DEF EnterModem, Phases, mmVars
    <2>2. \A q \in Paths : \A m \in Modules : LedNow(q, m)' => LedNow(q, m)
      BY <1>4, LedEntered
    <2>3. \A p \in Paths : \A o \in Object :
              Honest(o) /\ Route(p, o) /\ Ends(p, o) => Ends(p, o)'
      BY <1>4, EndsEntered
    <2> QED  BY <1>0, <2>1, <2>2, <2>3, ForemostStays
  <1>5. CASE Listen
    <2>1. /\ app # "down" /\ UNCHANGED <<object, sigs, byPath, toAdd, adding, runVars>>
          /\ Hushed
      BY <1>5 DEF Listen, mmVars, historyVars, Hushed
    <2>2. \A q \in Paths : \A m \in Modules : LedNow(q, m)' => LedNow(q, m)
      BY <2>1 DEF LedNow
    <2>3. \A p \in Paths : \A o \in Object : Ends(p, o) => Ends(p, o)'
      BY <2>1, EndsHushed
    <2> QED  BY <1>0, <2>1, <2>2, <2>3, ForemostStays
  <1>6. CASE ReadAnnounced
    <2>1. /\ app = "running" /\ adding = None /\ toAdd = {} /\ toAdd' = {}
          /\ sigs # <<>> /\ Head(sigs).type = "InterfacesAdded" /\ sigs' = Tail(sigs)
          /\ ReadModem(Head(sigs)) /\ UNCHANGED <<object, byPath, runVars>> /\ Hushed
      BY <1>6 DEF ReadAnnounced, Phases, mmVars, historyVars, Hushed
    <2>2. Head(sigs) = sigs[1] /\ Head(sigs) \in Announcement
      BY <2>1, HeadType DEF TypeOK, ProviderTypeOK
    <2>3. adding' # None /\ adding'.path = sigs[1].path /\ adding'.object = sigs[1].object
      BY <2>1, <2>2, ReadModemType, NoneIsNoRecord DEF ReadModem
    <2>4. ASSUME NEW p, NEW o, Ends(p, o), adding'.path # p, adding'.object.module # o.module
          PROVE  Ends(p, o)'
      <3>1. Current(o.dev)' <=> Current(o.dev)
        BY <2>1, OnlineStays
      <3>2. UNCHANGED entries
        BY <2>1 DEF Hushed
      <3> QED  BY <2>1, <2>4, <3>1, <3>2 DEF Ends
    <2>5. ASSUME NEW p \in Paths, NEW o \in Object, NEW i \in 2..Len(sigs)+1, Newest(p, o, i)
          PROVE  Newest(p, o, i-1)'
      BY <2>1, <2>2, <2>3, <2>4, <2>5, NewestRead
    <2> QED  BY <1>0, <2>1, <2>5, ForemostShrinks
  <1>7. CASE OnModemRemoved \/ OnModemChanged \/ OnSignal
    <2>1. /\ app # "down" /\ sigs # <<>> /\ sigs' = Tail(sigs) /\ UNCHANGED object
          /\ sigs[1].type # "InterfacesAdded"
      BY <1>7 DEF OnModemRemoved, OnModemChanged, OnSignal, Next1, mmVars
    <2>2. ASSUME NEW p \in Paths, NEW o \in Object, NEW i \in 2..Len(sigs)+1,
                 Honest(o), Leads(p, o, i), Newest(p, o, i)
          PROVE  Newest(p, o, i-1)'
      <3>1. o.module \in Modules
        BY DEF Object
      <3>2. \A q \in Paths : LedNow(q, o.module)' => LedNow(q, o.module)
        BY <1>7, <3>1, LedLooked
      <3>3. Route(p, o) /\ ~Elsewhere(1, p, o.module) /\ Ends(p, o) => Ends(p, o)'
        BY <1>7, <2>2, EndsLooked
      <3> QED  BY <2>1, <2>2, <3>2, <3>3, NewestLess
    <2> QED  BY <1>0, <2>1, <2>2, ForemostShrinks
  <1> QED  BY <1>1, <1>2, <1>3, <1>4, <1>5, <1>6, <1>7 DEF Provider

(* What the runner and requests do.                                        *)
LEMMA ForemostRunner ==
    ASSUME IInv, IInv', Unmixed, Homeward, Tables, Bindable, Unseen, Continued, Foremost,
           Handles \/ Pauses
    PROVE  Foremost'
  <1> USE DEF IInv
  <1>1. UNCHANGED <<object, app, entries, byPath, toAdd, adding, sigs>>
    BY RunnerLeaves
  <1>2. CASE app = "down"
    BY <1>1, <1>2 DEF Foremost
  <1>3. CASE app # "down"
    <2>1. \A q \in Paths : \A m \in Modules : LedNow(q, m)' => LedNow(q, m)
      BY <1>1 DEF LedNow
    <2>2. ASSUME NEW p \in Paths, NEW o \in Object, Ends(p, o) PROVE Ends(p, o)'
      <3>1. o.dev \in Ids
        BY DEF Object
      <3>2. entries[o.dev] # None /\ Current(o.dev) => Current(o.dev)'
        BY <3>1, CurrentKept DEF Tables
      <3> QED  BY <1>1, <2>2, <3>2 DEF Ends
    <2> QED  BY <1>1, <1>3, <2>1, <2>2, ForemostStays DEF Unmixed
  <1> QED  BY <1>2, <1>3

(* What a signal of a modem is about is what the runner will have handled. *)
LEMMA LookedUpIsCurrent ==
    ASSUME IInv, Phases, Homeward, Foremost, NEW type \in OfModem, Next1(type),
           NEW c \in Ids, byPath[Head(sigs).path] = c
    PROVE  Current(c)
  <1> USE DEF IInv
  <1>1. PICK r, o : r = Head(sigs).path /\ o = Head(sigs).object
    OBVIOUS
  <1>2. /\ app = "running" /\ toAdd = {} /\ adding = None /\ sigs # <<>>
        /\ sigs[1].path = r /\ sigs[1].object = o /\ sigs[1].type \in OfModem
        /\ r \in Paths /\ o \in Object
    BY <1>1, HeadType DEF Next1, Phases, TypeOK, ProviderTypeOK
  <1>3. 1 \in DOMAIN sigs /\ 1 \in 1..Len(sigs)+1
    BY <1>2 DEF TypeOK, ProviderTypeOK
  <1>4. Claim(r, o, 1)
    BY <1>2, <1>3 DEF Claim
  <1>5. Newest(r, o, 1)
    BY <1>2, <1>3, <1>4 DEF Foremost
  <1>6. Leads(r, o, 1)
    BY <1>2, <1>3 DEF Homeward
  <1>7. Ends(r, o) /\ Route(r, o)
    BY <1>5, <1>6 DEF Newest, Leads
  <1>8. c # None /\ entries[c] # None /\ entries[c].path = r
    BY <1>1, <1>2, NoneIsNothing DEF RoutesAreKnown
  <1>9. c = o.dev
    BY <1>1, <1>2, <1>7, <1>8 DEF Route
  <1> QED  BY <1>2, <1>7, <1>8, <1>9 DEF Ends

(* emit adds nothing that follows on what was said.                        *)
LEMMA EmitsNoFollower ==
    ASSUME TypeOK, NEW x \in EventType, Emit(<<x>>), x.kind \notin Following
    PROVE  \A k \in DOMAIN events' : k \in DOMAIN events \/ events'[k].kind \notin Following
  <1>1. events' \in {events, Append(events, x)}
    BY EmitOnce
  <1>2. \A k \in DOMAIN events' : k \in DOMAIN events \/ events'[k] = x
    BY <1>1 DEF TypeOK, ProviderTypeOK
  <1> QED  BY <1>2

(* What the provider says follows on what it said.                         *)
LEMMA ContinuedProvider ==
    ASSUME IInv, IInv', Phases, Homeward, Unmixed, Foremost, Continued, Provider
    PROVE  Continued'
  <1> USE DEF IInv
  <1>1. UNCHANGED runVars
    BY ProviderTells
  <1>2. CASE Hushed
    BY <1>1, <1>2, HushedKeeps
  <1>3. CASE EnterModem
    <2>1. PICK d : d = adding.object.dev
      OBVIOUS
    <2>2. d \in Ids /\ Tells(d) /\ adding # None
      BY <1>3, <2>1, EnterTells
    <2>3. PICK x : x = Event("ModemAdded", d, adding.entry, adding.object.module)
      OBVIOUS
    <2>4. x \in EventType /\ x.kind \notin Following
      <3>1. adding.entry \in Entry /\ adding.object.module \in Modules
        BY <2>2 DEF TypeOK, ProviderTypeOK, Reading, Object
      <3> QED  BY <2>2, <2>3, <3>1 DEF Event, EventType, Entry, Following
    <2>5. Emit(<<x>>)
      BY <1>3, <2>1, <2>3 DEF EnterModem
    <2>6. \A k \in DOMAIN events' : k \in DOMAIN events \/ events'[k].kind \notin Following
      BY <2>4, <2>5, EmitsNoFollower
    <2> QED  BY <1>1, <2>2, <2>6, ContinuedTold
  <1>4. CASE OnModemRemoved /\ ~Hushed
    <2>1. PICK d : d = byPath[Head(sigs).path]
      OBVIOUS
    <2>2. d \in Ids /\ Tells(d)
      BY <1>4, <2>1, RemovedTells
    <2>3. PICK x : x = Event("ModemRemoved", d, NoEntry, None)
      OBVIOUS
    <2>4. x \in EventType /\ x.kind \notin Following
      BY <2>2, <2>3 DEF Event, EventType, NoEntry, Following
    <2>5. Emit(<<x>>)
      BY <1>4, <2>1, <2>2, <2>3, NoneIsNothing DEF OnModemRemoved
    <2>6. \A k \in DOMAIN events' : k \in DOMAIN events \/ events'[k].kind \notin Following
      BY <2>4, <2>5, EmitsNoFollower
    <2> QED  BY <1>1, <2>2, <2>6, ContinuedTold
  <1>5. CASE (OnModemChanged \/ OnSignal) /\ ~Hushed
    <2>1. PICK d : d = byPath[Head(sigs).path]
      OBVIOUS
    <2>2. /\ d \in Ids /\ Tells(d)
          /\ \E type \in OfModem : Next1(type)
      BY <1>5, <2>1, ChangedTells, SampleTells DEF OfModem
    <2>3. Current(d)
      BY <2>1, <2>2, LookedUpIsCurrent
    <2> QED  BY <1>1, <2>2, <2>3, ContinuedTold
  <1>6. CASE Start \/ GetManagedObjects \/ ReadListed \/ ReadAnnounced \/ Listen
    <2>1. Hushed
      BY <1>6 DEF Start, GetManagedObjects, ReadListed, ReadAnnounced, Listen, provVars,
                  historyVars, Hushed
    <2> QED  BY <1>2, <2>1
  <1> QED  BY <1>2, <1>3, <1>4, <1>5, <1>6 DEF Provider

(* What is heard, and the tables.                                          *)
LEMMA HeardProvider ==
    ASSUME IInv, IInv', Unmixed, Heard, Tables, Provider
    PROVE  Heard' /\ Tables'
  <1> USE DEF IInv
  <1>1. UNCHANGED runVars /\ (Hushed \/ \E d \in Ids : Tells(d))
    BY ProviderTells
  <1>2. CASE Hushed
    BY <1>1, <1>2, HushedKeeps
  <1>3. ASSUME NEW d \in Ids, Tells(d) PROVE Heard' /\ Tables'
    <2>1. Tables'
      BY <1>1 DEF Tables, ModemKeys, SimKeys, Cached, runVars, cacheVars, dbVars
    <2>2. Families'
      BY <1>3, FamiliesTold DEF Heard
    <2>3. Tidings'
      BY <1>3, TidingsTold DEF Heard
    <2>4. Swept'
      BY <1>1, <1>3, SweptTold DEF Heard
    <2>5. Unseen'
      BY <1>1, <1>3, UnseenTold DEF Heard
    <2>6. Loose' /\ Bindable'
      BY <1>1, <1>3, BindingsTold DEF Heard
    <2> QED  BY <2>1, <2>2, <2>3, <2>4, <2>5, <2>6 DEF Heard
  <1> QED  BY <1>1, <1>2, <1>3

(* The same for the runner and requests.                                   *)
LEMMA HeardRunner ==
    ASSUME IInv, Unmixed, Heard, Tables, Continued, Handles \/ Pauses
    PROVE  Heard' /\ Tables'
  <1> USE DEF IInv
  <1>1. Tables'
    BY TablesKept DEF Tables
  <1>2. Families' /\ Tidings' /\ Swept' /\ Unseen'
    BY FamiliesKept, TidingsKept, SweptKept, UnseenKept DEF Heard
  <1>3. Loose'
    BY LooseKept DEF Heard, Tables
  <1>4. Bindable'
    BY HeadStood, BindableKept DEF Heard, Tables
  <1> QED  BY <1>1, <1>2, <1>3, <1>4 DEF Heard

-----------------------------------------------------------------------------
(* All of it, on top of where the signals lead and whose events and rows   *)
(* are.                                                                    *)
Informed == Apart /\ Silent /\ Heard /\ Tables /\ Continued /\ Foremost

(* In the beginning nothing was said.                                      *)
LEMMA InitInformed == Init => Informed
  <1> SUFFICES ASSUME Init PROVE Informed
    OBVIOUS
  <1>1. Apart /\ Silent /\ Tables
    BY DEF Init, Apart, Silent, Tables, ModemKeys, SimKeys, Cached, EmptyTable
  <1>2. Heard
    BY DEF Init, Heard, Families, Tidings, Swept, Unseen, Loose, Bindable, Idle, EmptyTable
  <1>3. Continued /\ Foremost
    BY DEF Init, Continued, Foremost
  <1> QED  BY <1>1, <1>2, <1>3 DEF Informed

(* Every step keeps all of it.                                             *)
LEMMA InformedKept ==
    ASSUME IInv, IInv', Phases, Homeward, Unmixed, Informed, [Next]_vars
    PROVE  Informed'
  <1> USE DEF IInv
  <1>0. /\ Apart /\ Silent /\ Heard /\ Tables /\ Continued /\ Foremost /\ Honesty
        /\ Bindable /\ Unseen
    BY DEF Informed, Heard, Unmixed
  <1>1. Apart'
    BY <1>0, ApartKept
  <1>2. CASE Crash
    <2>1. Environment
      BY <1>2 DEF Environment
    <2> QED  BY <1>0, <1>1, <1>2, <2>1, CrashKeeps, ForemostAround DEF Informed
  <1>3. CASE Environment /\ ~Crash
    BY <1>0, <1>1, <1>3, AroundHushed, HushedKeeps, SilentAround, ForemostAround DEF Informed
  <1>4. CASE Provider
    BY <1>0, <1>1, <1>4, SilentProvider, HeardProvider, ContinuedProvider, ForemostProvider
       DEF Informed
  <1>5. CASE Runner \/ Http
    <2>1. Handles \/ Pauses
      BY <1>5 DEF Runner, Handles, Pauses
    <2>2. ModemKeys /\ SimKeys /\ Cached
      BY <1>0 DEF Tables
    <2>3. Continued'
      BY <1>0, <2>1, <2>2, ContinuedKept
    <2> QED  BY <1>0, <1>1, <2>1, <2>3, SilentKept, HeardRunner, ForemostRunner DEF Informed
  <1>6. CASE UNCHANGED vars
    <2>1. Hushed /\ UNCHANGED <<app, runVars, toAdd, adding, byPath, sigs, object>>
      BY <1>6 DEF vars, provVars, mmVars, historyVars, Hushed
    <2>2. Silent' /\ Heard' /\ Tables' /\ Continued'
      BY <1>0, <2>1, HushedKeeps DEF Silent, runVars, Hushed
    <2>3. Foremost'
      <3>1. CASE app = "down"
        BY <2>1, <3>1 DEF Foremost
      <3>2. CASE app # "down"
        <4>1. \A q \in Paths : \A m \in Modules : LedNow(q, m)' => LedNow(q, m)
          BY <2>1 DEF LedNow
        <4>2. \A p \in Paths : \A o \in Object : Ends(p, o) => Ends(p, o)'
          BY <2>1, EndsHushed
        <4> QED  BY <1>0, <2>1, <3>2, <4>1, <4>2, ForemostStays
      <3> QED  BY <3>1, <3>2
    <2> QED  BY <1>1, <2>2, <2>3 DEF Informed
  <1> QED  BY <1>2, <1>3, <1>4, <1>5, <1>6 DEF Next

(* What the provider says last of a module is what it has of it, and the   *)
(* runner has handled, or will have when it comes to the end of the        *)
(* channel, just that: whatever modems, SIMs, signals, requests and        *)
(* crashes come in between (mmprovider.go:483-619, runner.go:150-258).     *)
THEOREM TheLastWordHolds == Spec => []Informed
  <1>1. Spec => [](IInv /\ Phases /\ Homeward /\ Unmixed)
    <2>1. Spec => []IInv
      BY InitIInv, NextIInv, PTL DEF Spec
    <2> QED  BY <2>1, SignalsFindTheirModem, NoTwoModulesMix, PTL
  <1>2. IInv /\ IInv' /\ Phases /\ Homeward /\ Unmixed /\ Informed /\ [Next]_vars => Informed'
    BY InformedKept
  <1> QED  BY <1>1, <1>2, InitInformed, PTL DEF Spec

(* With the queue empty, the object that is there is the last word ...     *)
LEMMA SettledOnline ==
    ASSUME IInv, Phases, Informed
    PROVE  ListedIsOnline
  <1> USE DEF IInv
  <1> SUFFICES ASSUME Settled, NEW d \in Ids, Live(d), d \notin unsure
               PROVE  \E i \in WithDevice(modems, d) :
                          /\ modems[i].present
                          /\ entries[d].sim = None => i \notin DOMAIN bound
                          /\ entries[d].sim \in Sims \ Locked =>
                                i \in DOMAIN bound /\ sims[bound[i]] = entries[d].sim
    BY DEF ListedIsOnline
  <1>1. PICK p, o, s : p = entries[d].path /\ o = object[p] /\ s = entries[d].sim
    OBVIOUS
  <1>2. /\ entries[d] # None /\ o # None /\ o.dev = d /\ app = "running" /\ adding = None
        /\ toAdd = {} /\ events = <<>> /\ sigs = <<>> /\ task.at = "idle"
    BY <1>1 DEF Settled, Live, Phases, Idle
  <1>3. p \in Paths /\ o \in Object
    BY <1>1, <1>2 DEF TypeOK, MMTypeOK, ProviderTypeOK, Entry
  <1>4. Claim(p, o, 1) /\ 1 \in 1..Len(sigs)+1
    BY <1>1, <1>2 DEF Claim
  <1>5. Newest(p, o, 1)
    BY <1>2, <1>3, <1>4 DEF Informed, Foremost
  <1>6. Ends(p, o)
    BY <1>5 DEF Newest
  <1>7. Stand(d, 1, s)
    BY <1>1, <1>2, <1>6 DEF Ends, Current, Sure
  <1>8. Online(d, s) /\ ~Leaving(d) /\ ~Binding(d)
    BY <1>2, <1>7 DEF Stand, Leaving, Binding
  <1>9. PICK i : i = modemIDs[d]
    OBVIOUS
  <1>10. i \in DOMAIN modems /\ modems[i].present /\ modems[i].dev = d
    BY <1>8, <1>9 DEF Online, Shown, Kept
  <1>11. /\ s = None => i \notin DOMAIN bound
         /\ s \in Sims \ Locked => i \in DOMAIN bound /\ sims[bound[i]] = s
    BY <1>8, <1>9 DEF Online, Shown, Holds
  <1> QED  BY <1>1, <1>10, <1>11 DEF WithDevice

(* ... and a modem that left has been heard to leave.                      *)
LEMMA SettledOffline ==
    ASSUME Informed
    PROVE  UnlistedIsOffline
  <1> SUFFICES ASSUME Settled, sweep = "done", NEW i \in DOMAIN modems,
                      entries[modems[i].dev] = None, modems[i].dev \notin unsure
               PROVE  ~modems[i].present /\ (i \in DOMAIN bound => i \in scars)
    BY DEF UnlistedIsOffline
  <1>1. task.at = "idle" /\ ~Leaving(modems[i].dev) /\ Sure(modems[i].dev)
    BY DEF Settled, Idle, Leaving, Sure
  <1>2. ~modems[i].present
    BY <1>1 DEF Informed, Heard, Swept
  <1> QED  BY <1>1, <1>2 DEF Informed, Heard, Loose

(* A sample follows on what was said of the SIM.                           *)
LEMMA FilingBySim ==
    ASSUME IInv, Informed
    PROVE  FiledUnderItsSim
  <1> USE DEF IInv
  <1> SUFFICES ASSUME Filing, NEW ev, ev = Head(events), NEW j, j = SampleRow(ev).sim,
                      j # 0, ev.dev \notin unsure, ev.sim \notin Locked
               PROVE  sims[j] = ev.sim
    BY DEF FiledUnderItsSim
  <1>1. PICK d, i : d = ev.dev /\ i = ModemID(d)
    OBVIOUS
  <1>2. /\ events # <<>> /\ ev.kind = "SignalSampled" /\ task.at = "idle"
        /\ i \in DOMAIN modems /\ j = SimID(d, i) /\ j \in DOMAIN sims
    BY <1>1 DEF Filing, SampleRow, CanFile, Idle
  <1>3. 1 \in DOMAIN events /\ events[1] = ev
    BY <1>2 DEF TypeOK, ProviderTypeOK
  <1>4. PICK s \in Sims \cup {None} : Stand(d, 1, s) /\ ev.sim = s
    BY <1>1, <1>2, <1>3 DEF Informed, Continued, FollowsOn, Following, Sure
  <1>5. Online(d, s) /\ ~Binding(d)
    BY <1>2, <1>4 DEF Stand, Binding
  <1>6. i = modemIDs[d] /\ s # None
    <2>1. i = modemIDs[d]
      BY <1>1, <1>5 DEF Online, Kept, ModemID
    <2>2. ASSUME s = None PROVE FALSE
      <3>1. simIDs[d] = 0 /\ i \notin DOMAIN bound
        BY <1>5, <2>1, <2>2 DEF Online, Holds
      <3> QED  BY <1>2, <3>1 DEF SimID, SimIDByModem
    <2> QED  BY <2>1, <2>2
  <1>7. s \in Sims \ Locked
    BY <1>4, <1>6
  <1>8. simIDs[d] # 0 /\ (simIDs[d] \in DOMAIN sims => sims[simIDs[d]] = s)
    BY <1>5, <1>7 DEF Online, Holds
  <1> QED  BY <1>2, <1>4, <1>8 DEF SimID

(* Once everything that has happened is dealt with, a modem that MM has    *)
(* and the provider lists has a row that is online and names its SIM, or   *)
(* none if it has none (runner.go:163-189).                                *)
THEOREM ModemsThereAreOnline == Spec => []ListedIsOnline
  <1>1. Spec => []IInv
    BY InitIInv, NextIInv, PTL DEF Spec
  <1>2. IInv /\ Phases /\ Informed => ListedIsOnline
    BY SettledOnline
  <1> QED  BY <1>1, <1>2, SignalsFindTheirModem, TheLastWordHolds, PTL

(* Once everything that has happened is dealt with and the stale rows are  *)
(* swept, the row of a modem the provider does not list is offline, and    *)
(* has no SIM but one that a crash left there (runner.go:79-82, 196-207).  *)
THEOREM ModemsGoneAreOffline == Spec => []UnlistedIsOffline
  <1>1. Informed => UnlistedIsOffline
    BY SettledOffline
  <1> QED  BY <1>1, TheLastWordHolds, PTL

(* What a module reports is filed under the row of that module and of the  *)
(* SIM the provider saw in it, however identifiers, paths, rows and cached *)
(* ids have changed since (runner.go:222-234, 338-369).                    *)
THEOREM SamplesFindTheirSim == Spec => []FiledWhereMeasured
  <1>1. Spec => []IInv
    BY InitIInv, NextIInv, PTL DEF Spec
  <1>2. IInv /\ Informed => FiledUnderItsSim
    BY FilingBySim
  <1>3. FiledUnderItsModem /\ FiledUnderItsSim => FiledWhereMeasured
    BY DEF FiledWhereMeasured
  <1> QED  BY <1>1, <1>2, <1>3, SamplesStayHome, TheLastWordHolds, PTL
=============================================================================
