-------------------------- MODULE SmsPipelineProofs --------------------------
(* Every safety property of the SMS pipeline, for any number of messages,  *)
(* paths, crashes, faults and deletions.  Types and unique source keys are *)
(* one invariant (TypeInv).  PipeInv, on top of it, follows a message from *)
(* its path through signals, reads and events to its row (World), and the  *)
(* row through merges and claims (History); it holds while MM has not      *)
(* restarted, and the refinement of SmsInbox is read off it.               *)
EXTENDS SmsPipeline, SmsStoreProofs, SequenceTheorems

-----------------------------------------------------------------------------
(* Type correctness.                                                       *)

(* emit keeps the channel within its capacity.                             *)
LEMMA EmitType ==
    ASSUME events \in Seq(Event), Len(events) <= EventCap, NEW e \in Event,
           Emit(e)
    PROVE  events' \in Seq(Event) /\ Len(events') <= EventCap
  BY BoundsAssumption DEF Emit

(* A signal delivered is queued behind the others.                         *)
LEMMA DeliverType ==
    ASSUME ChannelsTypeOK, NEW s \in SignalType, Deliver(s)
    PROVE  sigs' \in Seq(SignalType)
  BY DEF Deliver, ChannelsTypeOK

(* What readSMS returns is a record.                                       *)
LEMMA ReadType ==
    ASSUME NEW m \in Msgs, NEW p \in SmsPaths
    PROVE  Read(m, p) \in Record
  BY MsgsAssumption DEF Read, Record, Dir, Directions, SmsStates

(* The events emitted are of the type of the channel.                      *)
LEMMA EventTypes ==
    /\ \A rec \in Record, m \in Msgs, k \in {"SMSReceived", "SMSStateChanged"} :
          SmsEvent(k, rec, m) \in Event
    /\ \A s \in Sims \cup {None}, k \in {"ModemAdded", "ModemRemoved"} :
          ModemEvent(k, s) \in Event
  BY DEF SmsEvent, ModemEvent, Event

(* Calls that fail stay within their bound.                                *)
LEMMA BusType ==
    ASSUME busFaults \in 0..MaxBusFaults
    PROVE  /\ BusOk \/ BusFails => busFaults' \in 0..MaxBusFaults
           /\ \A p : CallOk(p) \/ CallFails(p) => busFaults' \in 0..MaxBusFaults
  <1>1. BusOk \/ BusFails => busFaults' \in 0..MaxBusFaults
    BY BoundsAssumption DEF BusOk, BusFails
  <1> QED  BY <1>1 DEF CallOk, CallFails

(* After a successful read.                                                *)
LEMMA ObserveType ==
    ASSUME TypeOK, NEW p \in exported, NEW prev \in Observation,
           NEW live \in BOOLEAN, Observe(p, prev, live)
    PROVE  /\ seen' \in [SmsPaths -> Observation]
           /\ events' \in Seq(Event) /\ Len(events') <= EventCap
  <1> DEFINE m    == at[p]
             rec  == Read(m, p)
             news == IsNews(prev, rec, m, live)
  <1>1. p \in SmsPaths /\ m \in Msgs
    BY DEF TypeOK, MMTypeOK
  <1>2. rec \in Record
    BY <1>1, ReadType
  <1>3. Observed(prev, rec, news) \in Observation
    <2>1. news \in BOOLEAN /\ Candidate(rec) \in BOOLEAN
      BY DEF IsNews, Candidate
    <2> HIDE DEF rec, news
    <2> QED  BY <1>2, <2>1 DEF Observed, Observation, Record
  <1>4. SmsEvent(IF news THEN "SMSReceived" ELSE "SMSStateChanged", rec, m)
           \in Event
    BY <1>1, <1>2, EventTypes
  <1>5. Emit(SmsEvent(IF news THEN "SMSReceived" ELSE "SMSStateChanged", rec, m))
        /\ seen' = [seen EXCEPT ![p] = Observed(prev, rec, news)]
    BY DEF Observe
  <1> HIDE DEF rec, news
  <1>6. events' \in Seq(Event) /\ Len(events') <= EventCap
    BY <1>4, <1>5, EmitType DEF TypeOK, ChannelsTypeOK
  <1> QED  BY <1>1, <1>3, <1>5, <1>6 DEF TypeOK, ProviderTypeOK

(* onSmsAppearedForModem.                                                  *)
LEMMA SmsAppearedType ==
    ASSUME TypeOK, NEW p \in SmsPaths, NEW live \in BOOLEAN,
           SmsAppeared(p, live)
    PROVE  /\ subs' \subseteq SmsPaths
           /\ seen' \in [SmsPaths -> Observation]
           /\ events' \in Seq(Event) /\ Len(events') <= EventCap
           /\ busFaults' \in 0..MaxBusFaults
  <1>0. /\ [Unseen EXCEPT !.live = live] \in Observation
        /\ [seen[p] EXCEPT !.live = TRUE] \in Observation
    BY DEF Unseen, Observation, TypeOK, ProviderTypeOK
  <1>1. ASSUME CallOk(p)
        PROVE  p \in exported /\ busFaults' \in 0..MaxBusFaults
    BY <1>1, BusType DEF CallOk, TypeOK, CountersTypeOK
  <1>2. ASSUME CallFails(p) \/ BusOk \/ BusFails
        PROVE  busFaults' \in 0..MaxBusFaults
    BY <1>2, BusType DEF TypeOK, CountersTypeOK
  <1>3. CASE FirstSight(p, live)
    <2>1. subs' \subseteq SmsPaths
      BY <1>3 DEF FirstSight, TypeOK, ProviderTypeOK
    <2>2. CASE CallOk(p) /\ Observe(p, [Unseen EXCEPT !.live = live], live)
      BY <1>0, <1>1, <2>1, <2>2, ObserveType
    <2>3. CASE /\ CallFails(p)
               /\ seen' = IF live THEN [seen EXCEPT ![p].live = TRUE] ELSE seen
               /\ UNCHANGED events
      <3>1. seen' \in [SmsPaths -> Observation]
        BY <1>0, <2>3 DEF TypeOK, ProviderTypeOK
      <3> QED  BY <1>2, <2>1, <2>3, <3>1 DEF TypeOK, ChannelsTypeOK
    <2>4. CASE BusFails /\ UNCHANGED <<subs, seen, events>>
      BY <1>2, <2>4 DEF TypeOK, ProviderTypeOK, ChannelsTypeOK
    <2> QED  BY <1>3, <2>2, <2>3, <2>4 DEF FirstSight
  <1>4. CASE SeenAgain(p, live)
    <2>1. subs' \subseteq SmsPaths
      BY <1>4 DEF SeenAgain, TypeOK, ProviderTypeOK
    <2>2. CASE /\ live /\ CallOk(p)
               /\ Observe(p, [seen[p] EXCEPT !.live = TRUE], TRUE)
      BY <1>0, <1>1, <2>1, <2>2, ObserveType
    <2>3. CASE /\ live /\ CallFails(p)
               /\ seen' = [seen EXCEPT ![p] = [seen[p] EXCEPT !.live = TRUE]]
               /\ UNCHANGED events
      <3>1. seen' \in [SmsPaths -> Observation]
        BY <1>0, <2>3 DEF TypeOK, ProviderTypeOK
      <3> QED  BY <1>2, <2>1, <2>3, <3>1 DEF TypeOK, ChannelsTypeOK
    <2>4. CASE ~live /\ BusOk /\ UNCHANGED <<seen, events>>
      BY <1>2, <2>1, <2>4 DEF TypeOK, ProviderTypeOK, ChannelsTypeOK, CountersTypeOK
    <2> QED  BY <1>4, <2>2, <2>3, <2>4 DEF SeenAgain
  <1> QED  BY <1>3, <1>4 DEF SmsAppeared

(* onModemAdded.                                                           *)
LEMMA ModemAddedType ==
    ASSUME TypeOK, NEW mp \in ModemPaths, NEW s \in Sims \cup {None},
           ModemAdded(mp, s)
    PROVE  /\ known' \in ModemPaths \cup {0} /\ matched' \subseteq ModemPaths
           /\ subs' \subseteq SmsPaths
           /\ seen' \in [SmsPaths -> Observation]
           /\ events' \in Seq(Event) /\ Len(events') <= EventCap
           /\ busFaults' \in 0..MaxBusFaults
  <1>1. NothingSeen \in [SmsPaths -> Observation]
    BY DEF NothingSeen, Unseen, Observation
  <1>2. events' \in Seq(Event) /\ Len(events') <= EventCap
    BY EventTypes, EmitType DEF ModemAdded, TypeOK, ChannelsTypeOK
  <1>3. busFaults' \in 0..MaxBusFaults
    BY BusType DEF ModemAdded, TypeOK, CountersTypeOK
  <1> QED  BY <1>1, <1>2, <1>3 DEF ModemAdded, TypeOK, ProviderTypeOK

-----------------------------------------------------------------------------
(* Steps of MM keep the types.                                             *)
LEMMA EnvironmentType ==
    ASSUME TypeOK, Environment
    PROVE  TypeOK'
  <1> USE DEF TypeOK
  <1>1. ASSUME NEW s \in Sims \cup {None}, ModemAppears(s) PROVE TypeOK'
    <2>1. nextModem + 1 \in ModemPaths
      BY <1>1, BoundsAssumption DEF ModemAppears, MMTypeOK, ModemPaths
    <2>2. Signal("InterfacesAdded", nextModem + 1, 0, s) \in SignalType
      BY <2>1 DEF Signal, SignalType
    <2>3. ChannelsTypeOK'
      BY <1>1, <2>2, DeliverType DEF ModemAppears, ChannelsTypeOK
    <2>4. MMTypeOK'
      BY <1>1, <2>1 DEF ModemAppears, MMTypeOK, ModemPaths
    <2> QED  BY <1>1, <2>3, <2>4
             DEF ModemAppears, ProviderTypeOK, DbTypeOK, CountersTypeOK,
                 provVars, runVars, boundVars, historyVars
  <1>2. ASSUME ModemLeaves PROVE TypeOK'
    <2>1. Signal("InterfacesRemoved", modem, 0, None) \in SignalType
      BY <1>2 DEF ModemLeaves, MMTypeOK, Signal, SignalType
    <2>2. ChannelsTypeOK'
      BY <1>2, <2>1, DeliverType DEF ModemLeaves, ChannelsTypeOK
    <2> QED  BY <1>2, <2>2
             DEF ModemLeaves, MMTypeOK, ProviderTypeOK, DbTypeOK, CountersTypeOK,
                 provVars, runVars, boundVars, historyVars
  <1>3. ASSUME NEW announced \in BOOLEAN, MMRestart(announced) PROVE TypeOK'
    <2>1. modem # 0 => Signal("InterfacesRemoved", modem, 0, None) \in SignalType
      BY DEF MMTypeOK, Signal, SignalType
    <2>2. ChannelsTypeOK'
      BY <1>3, <2>1, DeliverType DEF MMRestart, ChannelsTypeOK
    <2>3. MMTypeOK' /\ CountersTypeOK'
      BY <1>3, BoundsAssumption, NoneAssumption
      DEF MMRestart, MMTypeOK, CountersTypeOK, historyVars
    <2> QED  BY <1>3, <2>2, <2>3
             DEF MMRestart, ProviderTypeOK, DbTypeOK, provVars, runVars
  <1>4. ASSUME NEW m \in Msgs, NEW ph \in {"partial", "complete"}, Export(m, ph)
        PROVE  TypeOK'
    <2>1. nextPath + 1 \in SmsPaths
      BY <1>4, NoneAssumption DEF Export, MMTypeOK, SmsPaths
    <2>2. Signal("Added", modem, nextPath + 1, None) \in SignalType
      BY <1>4, <2>1 DEF Export, MMTypeOK, Signal, SignalType
    <2>3. ChannelsTypeOK'
      BY <1>4, <2>1, <2>2, DeliverType DEF Export, ChannelsTypeOK
    <2>4. MMTypeOK'
      BY <1>4, <2>1 DEF Export, MMTypeOK, SmsPaths
    <2> QED  BY <1>4, <2>3, <2>4
             DEF Export, ProviderTypeOK, DbTypeOK, CountersTypeOK,
                 provVars, runVars, boundVars, historyVars
  <1>5. ASSUME NEW m \in Msgs, Complete(m) PROVE TypeOK'
    <2>1. \A p \in SmsPaths :
             Signal("PropertiesChanged", modem, p, None) \in SignalType
      BY <1>5 DEF Complete, MMTypeOK, Signal, SignalType
    <2>2. ChannelsTypeOK'
      BY <1>5, <2>1, DeliverType DEF Complete, ChannelsTypeOK
    <2> QED  BY <1>5, <2>2
             DEF Complete, MMTypeOK, ProviderTypeOK, DbTypeOK, CountersTypeOK,
                 provVars, runVars, boundVars, historyVars
  <1>6. ASSUME NEW m \in Msgs, Age(m) PROVE TypeOK'
    BY <1>6 DEF Age, MMTypeOK, ProviderTypeOK, ChannelsTypeOK, DbTypeOK,
                CountersTypeOK, provVars, runVars, boundVars, historyVars
  <1>7. ASSUME NEW m \in Msgs, Arrive(m) PROVE TypeOK'
    BY <1>4, <1>7 DEF Arrive
  <1>8. ASSUME NEW m \in Msgs, Reexport(m) PROVE TypeOK'
    BY <1>4, <1>8 DEF Reexport
  <1> QED  BY <1>1, <1>2, <1>3, <1>5, <1>6, <1>7, <1>8 DEF Environment

(* Steps of the provider keep the types.                                   *)
LEMMA ProviderType ==
    ASSUME TypeOK, Provider
    PROVE  TypeOK'
  <1> USE DEF TypeOK
  <1>0. NothingSeen \in [SmsPaths -> Observation]
    BY DEF NothingSeen, Unseen, Observation
  <1>1. CASE Start
    BY <1>1 DEF Start, MMTypeOK, ProviderTypeOK, ChannelsTypeOK, DbTypeOK,
                CountersTypeOK, mmVars, runVars, boundVars, historyVars
  <1>2. CASE GetManagedObjects
    <2>1. /\ ProviderTypeOK' /\ busFaults' \in 0..MaxBusFaults
          /\ events' \in Seq(Event) /\ Len(events') <= EventCap
      <3>1. CASE modem # 0 /\ ModemAdded(modem, card) /\ app' = "listing"
        <4>1. modem \in ModemPaths /\ card \in Sims \cup {None}
          BY <3>1 DEF MMTypeOK
        <4> QED  BY <1>2, <3>1, <4>1, ModemAddedType
                 DEF GetManagedObjects, ProviderTypeOK
      <3>2. CASE /\ UNCHANGED <<known, matched, subs, seen, events>>
                 /\ BusOk \/ BusFails
                 /\ app' \in {"listing", "running"}
        <4>1. busFaults' \in 0..MaxBusFaults
          BY <3>2, BusType DEF CountersTypeOK
        <4> QED  BY <1>2, <3>2, <4>1
                 DEF GetManagedObjects, ProviderTypeOK, ChannelsTypeOK
      <3> QED  BY <1>2, <3>1, <3>2 DEF GetManagedObjects
    <2> QED  BY <1>2, <2>1
      DEF GetManagedObjects, MMTypeOK, ChannelsTypeOK, DbTypeOK,
          CountersTypeOK, mmVars, runVars, historyVars
  <1>3. CASE ListSms
    <2>1. busFaults' \in 0..MaxBusFaults /\ toRead' \subseteq SmsPaths
      BY <1>3, BusType DEF ListSms, MMTypeOK, CountersTypeOK
    <2> QED  BY <1>3, <2>1
      DEF ListSms, MMTypeOK, ProviderTypeOK, ChannelsTypeOK, DbTypeOK,
          CountersTypeOK, mmVars, runVars, historyVars
  <1>4. ASSUME NEW p \in SmsPaths, ReadListed(p) PROVE TypeOK'
    BY <1>4, SmsAppearedType
    DEF ReadListed, MMTypeOK, ProviderTypeOK, ChannelsTypeOK, DbTypeOK,
        CountersTypeOK, mmVars, runVars, historyVars
  <1>5. CASE EndReconcile
    BY <1>5 DEF EndReconcile, MMTypeOK, ProviderTypeOK, ChannelsTypeOK, DbTypeOK,
                CountersTypeOK, mmVars, runVars, boundVars, historyVars
  <1>6. ASSUME NEW type, TakeSignal(type)
        PROVE  /\ Head(sigs) \in SignalType /\ Head(sigs).type = type
               /\ sigs' \in Seq(SignalType)
    BY <1>6 DEF TakeSignal, ChannelsTypeOK
  <1>7. CASE OnInterfacesAdded
    <2>1. Head(sigs) \in SignalType /\ Head(sigs).type = "InterfacesAdded"
      BY <1>6, <1>7 DEF OnInterfacesAdded
    <2>2. /\ Head(sigs).modem \in ModemPaths
          /\ Head(sigs).sim \in Sims \cup {None}
      BY <2>1 DEF SignalType
    <2>3. /\ known' \in ModemPaths \cup {0} /\ matched' \subseteq ModemPaths
          /\ subs' \subseteq SmsPaths
          /\ seen' \in [SmsPaths -> Observation]
          /\ events' \in Seq(Event) /\ Len(events') <= EventCap
          /\ busFaults' \in 0..MaxBusFaults
      BY <1>7, <2>2, ModemAddedType DEF OnInterfacesAdded
    <2> QED  BY <1>6, <1>7, <2>3
        DEF OnInterfacesAdded, TakeSignal, MMTypeOK, ProviderTypeOK, ChannelsTypeOK,
            DbTypeOK, CountersTypeOK, mmVars, runVars, historyVars
  <1>8. CASE OnInterfacesRemoved
    <2>1. events' \in Seq(Event) /\ Len(events') <= EventCap
      BY <1>8, EventTypes, EmitType DEF OnInterfacesRemoved, ChannelsTypeOK
    <2>2. ProviderTypeOK'
      BY <1>0, <1>8 DEF OnInterfacesRemoved, TakeSignal, ProviderTypeOK
    <2> QED  BY <1>6, <1>8, <2>1, <2>2
        DEF OnInterfacesRemoved, TakeSignal, MMTypeOK, ChannelsTypeOK,
            DbTypeOK, CountersTypeOK, mmVars, runVars, historyVars
  <1>9. CASE OnMessagingAdded
    <2>1. Head(sigs).path \in SmsPaths
      BY <1>6, <1>9 DEF OnMessagingAdded, SignalType
    <2>2. CASE SmsAppeared(Head(sigs).path, TRUE)
      BY <1>6, <1>9, <2>1, <2>2, SmsAppearedType
      DEF OnMessagingAdded, TakeSignal, MMTypeOK, ProviderTypeOK, ChannelsTypeOK,
          DbTypeOK, CountersTypeOK, mmVars, runVars, historyVars
    <2>3. CASE UNCHANGED <<subs, seen, events, busFaults>>
      BY <1>6, <1>9, <2>3
      DEF OnMessagingAdded, TakeSignal, MMTypeOK, ProviderTypeOK, ChannelsTypeOK,
          DbTypeOK, CountersTypeOK, mmVars, runVars, historyVars
    <2> QED  BY <1>9, <2>2, <2>3 DEF OnMessagingAdded
  <1>10. CASE OnMessagingDeleted
    <2>1. Unseen \in Observation
      BY DEF Unseen, Observation
    <2>2. Head(sigs).path \in SmsPaths
      BY <1>6, <1>10 DEF OnMessagingDeleted, SignalType
    <2> QED  BY <1>6, <1>10, <2>1, <2>2
        DEF OnMessagingDeleted, TakeSignal, MMTypeOK, ProviderTypeOK, ChannelsTypeOK,
            DbTypeOK, CountersTypeOK, mmVars, runVars, historyVars
  <1>11. CASE OnSmsPropsChanged
    <2> DEFINE p == Head(sigs).path
    <2>1. p \in SmsPaths /\ seen[p] \in Observation
      BY <1>6, <1>11 DEF OnSmsPropsChanged, SignalType, ProviderTypeOK
    <2>2. /\ seen' \in [SmsPaths -> Observation]
          /\ events' \in Seq(Event) /\ Len(events') <= EventCap
          /\ busFaults' \in 0..MaxBusFaults
      <3>1. CASE CallOk(p) /\ Observe(p, seen[p], FALSE)
        BY <2>1, <3>1, ObserveType, BusType DEF CallOk, CountersTypeOK
      <3>2. CASE CallFails(p) /\ UNCHANGED <<seen, events>>
        BY <3>2, BusType DEF ProviderTypeOK, ChannelsTypeOK, CountersTypeOK
      <3>3. CASE UNCHANGED <<seen, events, busFaults>>
        BY <3>3 DEF ProviderTypeOK, ChannelsTypeOK, CountersTypeOK
      <3> QED  BY <1>11, <3>1, <3>2, <3>3 DEF OnSmsPropsChanged
    <2> QED  BY <1>6, <1>11, <2>2
        DEF OnSmsPropsChanged, TakeSignal, MMTypeOK, ProviderTypeOK, ChannelsTypeOK,
            DbTypeOK, CountersTypeOK, mmVars, runVars, historyVars
  <1> QED  BY <1>1, <1>2, <1>3, <1>4, <1>5, <1>7, <1>8, <1>9, <1>10, <1>11
           DEF Provider, HandleSignal

(* The table stays a table, its ids within sqlite_sequence, whatever the   *)
(* runner does to it.  Unique source keys are needed to know which row is  *)
(* written, so they are part of the invariant.                             *)
TableOK(t, n) == /\ Table(t) /\ DOMAIN t \subseteq 1..n /\ UniquePaths(t)

(* insertSMS leaves a table of rows whose ids were given before.           *)
LEMMA InsertedTable ==
    ASSUME NEW t, NEW n \in Nat, TableOK(t, n), NEW rec \in Record,
           NEW sim \in Sims \cup {None}, NEW mo \in BOOLEAN
    PROVE  LET R == Inserted(t, n + 1, rec, sim, mo)
           IN  IF NeedsNewRow(t, rec, sim, mo) THEN TableOK(R, n + 1)
               ELSE TableOK(R, n)
  <1> DEFINE R == Inserted(t, n + 1, rec, sim, mo)
  <1>1. n + 1 \in Nat \ {0} /\ n + 1 \notin DOMAIN t
    BY DEF TableOK
  <1>2. PICK k \in DOMAIN R : Written(t, R, k, n + 1, rec, sim, mo)
    BY <1>1, InsertedShape DEF TableOK
  <1> HIDE DEF R
  <1>3. /\ k \in DOMAIN R /\ DOMAIN R \subseteq DOMAIN t \cup {n + 1}
        /\ R[k] \in Row /\ R[k].path = rec.path
        /\ \A j \in DOMAIN R \ {k} :
              j \in DOMAIN t /\ R[j] = t[j] /\ t[j].path # rec.path
        /\ k \notin DOMAIN t => NeedsNewRow(t, rec, sim, mo)
    BY <1>2 DEF Written
  <1>4. UniquePaths(R)
    BY <1>3 DEF UniquePaths, TableOK
  <1>5. \A j \in DOMAIN R : R[j] \in Row
    BY <1>3 DEF TableOK, Table
  <1>6. R = [j \in DOMAIN R |-> R[j]]
    BY DEF R, Inserted, WithRow, Merged
  <1>7. R \in [DOMAIN R -> Row]
    BY <1>5, <1>6
  <1>8. DOMAIN R \subseteq 1..(n + 1)
        /\ (~NeedsNewRow(t, rec, sim, mo) => DOMAIN R \subseteq 1..n)
    BY <1>3 DEF TableOK
  <1> QED  BY <1>4, <1>7, <1>8 DEF TableOK, Table, R

(* UpdateSMSState changes no source key.                                   *)
LEMMA StateUpdatedTable ==
    ASSUME NEW t, NEW n \in Nat, TableOK(t, n), NEW p \in SmsPaths,
           NEW s \in SmsStates
    PROVE  TableOK(StateUpdated(t, p, s), n)
  <1> DEFINE R == StateUpdated(t, p, s)
  <1>1. DOMAIN R = DOMAIN t
        /\ \A i \in DOMAIN t : R[i] = IF t[i].path = p
                                      THEN [t[i] EXCEPT !.state = s] ELSE t[i]
    BY DEF StateUpdated
  <1>2. \A i \in DOMAIN t : t[i] \in Row
    BY DEF TableOK, Table
  <1>3. \A i \in DOMAIN t : R[i] \in Row /\ R[i].path = t[i].path
    BY <1>1, <1>2 DEF Row
  <1>4. R \in [DOMAIN t -> Row]
    BY <1>3 DEF StateUpdated
  <1> HIDE DEF R
  <1> QED  BY <1>1, <1>3, <1>4 DEF TableOK, Table, UniquePaths, R

TypeInv == TypeOK /\ SourceKeysUnique

(* The table of the pipeline is one of the store.                          *)
LEMMA TypeInvTable == ASSUME TypeInv PROVE TableOK(sms, lastId)
  BY DEF TypeInv, TypeOK, DbTypeOK, SourceKeysUnique, TableOK, UniquePaths

(* The event taken, and what is left of the channel.                       *)
LEMMA TakeEventType ==
    ASSUME TypeOK, NEW kind, TakeEvent(kind)
    PROVE  /\ Head(events) \in Event /\ Head(events).kind = kind
           /\ events' \in Seq(Event) /\ Len(events') <= EventCap
           /\ Len(events') = Len(events) - 1
           /\ Head(events) = events[1] /\ 1 \in DOMAIN events
           /\ \A i \in DOMAIN events' :
                 i + 1 \in DOMAIN events /\ events'[i] = events[i + 1]
  BY BoundsAssumption DEF TakeEvent, TypeOK, ChannelsTypeOK

(* A step of the runner leaves a table, with one id more or none.          *)
LEMMA StepTable ==
    ASSUME TypeInv, NEW rec \in Record, NextId(rec),
           \/ sms' = Insertion(rec)
           \/ sms' = StateUpdated(Insertion(rec), rec.path, rec.state)
    PROVE  lastId' \in Nat /\ TableOK(sms', lastId')
  <1>1. lastId \in Nat /\ simBound \in Sims \cup {None} /\ modemRow \in BOOLEAN
    BY DEF TypeInv, TypeOK, DbTypeOK
  <1>2. lastId' \in Nat /\ TableOK(Insertion(rec), lastId')
    BY <1>1, TypeInvTable, InsertedTable DEF NextId, Insertion
  <1>3. rec.path \in SmsPaths /\ rec.state \in SmsStates
    BY DEF Record
  <1> QED  BY <1>2, <1>3, StateUpdatedTable

(* Steps of the runner keep the types and the uniqueness of source keys.   *)
LEMMA HandleEventType ==
    ASSUME TypeInv, HandleEvent
    PROVE  TypeInv'
  <1> USE DEF TypeOK
  <1>0. TypeOK
    BY DEF TypeInv
  <1>t. ASSUME lastId' \in Nat, TableOK(sms', lastId'),
               pending' \in Msgs \cup {None}, UNCHANGED <<idVars, deleting>>
        PROVE  DbTypeOK' /\ SourceKeysUnique'
    BY <1>0, <1>t
    DEF DbTypeOK, SourceKeysUnique, TableOK, UniquePaths, idVars
  <1>1. CASE OnModemAdded
    <2>1. Head(events).sim \in Sims \cup {None}
      BY <1>0, <1>1, TakeEventType DEF OnModemAdded, Event
    <2>2. events' \in Seq(Event) /\ Len(events') <= EventCap
      BY <1>0, <1>1, TakeEventType DEF OnModemAdded
    <2> QED  BY <1>0, <1>1, <2>1, <2>2
        DEF OnModemAdded, TakeEvent, TypeInv, MMTypeOK, ProviderTypeOK,
            ChannelsTypeOK, DbTypeOK, CountersTypeOK, SourceKeysUnique,
            mmVars, provVars, dbVars, historyVars
  <1>2. CASE OnModemRemoved
    <2>1. events' \in Seq(Event) /\ Len(events') <= EventCap
      BY <1>0, <1>2, TakeEventType DEF OnModemRemoved
    <2> QED  BY <1>0, <1>2, <2>1
        DEF OnModemRemoved, TakeEvent, TypeInv, MMTypeOK, ProviderTypeOK,
            ChannelsTypeOK, DbTypeOK, CountersTypeOK, SourceKeysUnique,
            mmVars, provVars, dbVars, historyVars
  <1>3. CASE OnSmsReceived
    <2> DEFINE e == Head(events)
    <2>1. e.rec \in Record /\ e.msg \in Msgs
      BY <1>0, <1>3, TakeEventType DEF OnSmsReceived, Event
    <2>2. events' \in Seq(Event) /\ Len(events') <= EventCap
      BY <1>0, <1>3, TakeEventType DEF OnSmsReceived
    <2>3. DbTypeOK' /\ SourceKeysUnique' /\ dbFaults' \in 0..MaxDbFaults
      <3>1. CASE /\ sms' = Insertion(e.rec) /\ NextId(e.rec)
                 /\ pending' = IF MayNotify(sms, e.rec, simBound, modemRow)
                               THEN e.msg ELSE None
                 /\ UNCHANGED dbFaults
        <4>1. lastId' \in Nat /\ TableOK(sms', lastId')
          BY <2>1, <3>1, StepTable
        <4> QED  BY <1>0, <1>3, <1>t, <2>1, <3>1, <4>1
            DEF OnSmsReceived, TakeEvent, CountersTypeOK
      <3>2. CASE DbFails /\ UNCHANGED <<pending, dbVars>>
        BY <1>0, <1>3, <3>2, BoundsAssumption
        DEF OnSmsReceived, TakeEvent, DbFails, TypeInv, DbTypeOK, CountersTypeOK,
            SourceKeysUnique, dbVars, idVars
      <3> QED  BY <1>3, <3>1, <3>2 DEF OnSmsReceived
    <2> QED  BY <1>0, <1>3, <2>2, <2>3
        DEF OnSmsReceived, TakeEvent, TypeInv, MMTypeOK, ProviderTypeOK,
            ChannelsTypeOK, CountersTypeOK, mmVars, provVars, historyVars
  <1>4. CASE OnSmsStateChanged
    <2> DEFINE rec == Head(events).rec
    <2>1. rec \in Record
      BY <1>0, <1>4, TakeEventType DEF OnSmsStateChanged, Event
    <2>2. events' \in Seq(Event) /\ Len(events') <= EventCap
      BY <1>0, <1>4, TakeEventType DEF OnSmsStateChanged
    <2>3. DbTypeOK' /\ SourceKeysUnique' /\ dbFaults' \in 0..MaxDbFaults
      <3>1. CASE /\ sms' = StateUpdated(Insertion(rec), rec.path, rec.state)
                 /\ NextId(rec) /\ UNCHANGED dbFaults
        <4>1. lastId' \in Nat /\ TableOK(sms', lastId')
          BY <2>1, <3>1, StepTable
        <4> QED  BY <1>0, <1>4, <1>t, <2>1, <3>1, <4>1
            DEF OnSmsStateChanged, TakeEvent, CountersTypeOK, DbTypeOK
      <3>2. CASE /\ DbFails /\ UNCHANGED lastId
                 /\ sms' \in {sms, StateUpdated(sms, rec.path, rec.state)}
        <4>1. rec.path \in SmsPaths /\ rec.state \in SmsStates
          BY <2>1 DEF Record
        <4>2. lastId' \in Nat /\ TableOK(sms', lastId')
          BY <1>0, <3>2, <4>1, TypeInvTable, StateUpdatedTable DEF DbTypeOK
        <4> QED  BY <1>0, <1>4, <1>t, <3>2, <4>2, BoundsAssumption
            DEF OnSmsStateChanged, TakeEvent, DbFails, CountersTypeOK, DbTypeOK
      <3> QED  BY <1>4, <3>1, <3>2 DEF OnSmsStateChanged, Upserted
    <2> QED  BY <1>0, <1>4, <2>2, <2>3
        DEF OnSmsStateChanged, TakeEvent, TypeInv, MMTypeOK, ProviderTypeOK,
            ChannelsTypeOK, CountersTypeOK, mmVars, provVars, historyVars
  <1>5. CASE Fanout
    BY <1>0, <1>5
    DEF Fanout, TypeInv, MMTypeOK, ProviderTypeOK, ChannelsTypeOK, DbTypeOK,
        CountersTypeOK, SourceKeysUnique, mmVars, provVars, idVars, dbVars,
        boundVars
  <1> QED  BY <1>1, <1>2, <1>3, <1>4, <1>5 DEF HandleEvent

(* A deleted row leaves a table.                                           *)
LEMMA WithoutRowTable ==
    ASSUME NEW t, NEW n \in Nat, TableOK(t, n), NEW i
    PROVE  TableOK(WithoutRow(t, i), n)
  BY DEF WithoutRow, TableOK, Table, UniquePaths

(* Requests and crashes keep the types, too.                               *)
LEMMA RequestType ==
    ASSUME TypeInv, Request \/ Crash
    PROVE  TypeInv'
  <1> USE DEF TypeOK
  <1>0. TypeOK
    BY DEF TypeInv
  <1>1. ASSUME NEW i \in DOMAIN sms, ReadRow(i) PROVE TypeInv'
    <2>1. i \in Nat /\ sms[i] \in Row
      BY <1>0 DEF DbTypeOK, Table
    <2>2. /\ deleting' \in [at : {"modem", "table"}, id : Nat, row : Row]
          /\ deletes' \in 0..MaxDeletes
          /\ UNCHANGED <<mmVars, provVars, sigs, events, runVars, mmRestarts, crashes,
                         busFaults, dbFaults, historyVars>>
      BY <1>0, <1>1, <2>1, BoundsAssumption DEF ReadRow, CountersTypeOK
    <2>3. DbTypeOK' /\ SourceKeysUnique'
      BY <1>0, <2>2 DEF TypeInv, DbTypeOK, SourceKeysUnique, runVars
    <2>4. MMTypeOK' /\ ProviderTypeOK' /\ ChannelsTypeOK' /\ CountersTypeOK'
      BY <1>0, <2>2
      DEF MMTypeOK, ProviderTypeOK, ChannelsTypeOK, CountersTypeOK, mmVars,
          provVars, historyVars
    <2> QED  BY <2>3, <2>4 DEF TypeInv
  <1>2. CASE DeleteOnModem
    <2> DEFINE p == deleting.row.path
    <2>0. deleting \in [at : {"modem", "table"}, id : Nat, row : Row]
      BY <1>0, <1>2 DEF DeleteOnModem, NoRequest, DbTypeOK
    <2>1. p \in SmsPaths
      BY <2>0 DEF Row
    <2>2. MMTypeOK' /\ ChannelsTypeOK' /\ busFaults' \in 0..MaxBusFaults
      <3>1. CASE /\ CallOk(p) /\ known # 0 /\ known = modem
                 /\ phase' = [phase EXCEPT ![at[p]] = "gone"]
                 /\ exported' = exported \ {p}
                 /\ IF modem \in matched
                    THEN Deliver(Signal("Deleted", modem, p, None))
                    ELSE UNCHANGED sigs
        <4>1. Signal("Deleted", modem, p, None) \in SignalType
          BY <1>0, <2>1, <3>1 DEF Signal, SignalType, MMTypeOK
        <4>2. ChannelsTypeOK'
          BY <1>0, <1>2, <3>1, <4>1, DeliverType DEF DeleteOnModem, ChannelsTypeOK
        <4>3. MMTypeOK'
          BY <1>0, <1>2, <3>1 DEF DeleteOnModem, MMTypeOK
        <4> QED  BY <1>0, <3>1, <4>2, <4>3, BusType DEF CountersTypeOK
      <3>2. CASE CallFails(p) /\ UNCHANGED <<phase, exported, sigs>>
        BY <1>0, <1>2, <3>2, BusType
        DEF DeleteOnModem, MMTypeOK, ChannelsTypeOK, CountersTypeOK
      <3>3. CASE UNCHANGED <<phase, exported, sigs, busFaults>>
        BY <1>0, <1>2, <3>3
        DEF DeleteOnModem, MMTypeOK, ChannelsTypeOK, CountersTypeOK
      <3> QED  BY <1>2, <3>1, <3>2, <3>3 DEF DeleteOnModem, ExtId
    <2>3. /\ deleting' \in [at : {"modem", "table"}, id : Nat, row : Row]
          /\ UNCHANGED <<provVars, runVars, mmRestarts, crashes, dbFaults, deletes,
                         historyVars>>
      BY <1>2, <2>0 DEF DeleteOnModem
    <2>4. DbTypeOK' /\ SourceKeysUnique'
      BY <1>0, <2>3 DEF TypeInv, DbTypeOK, SourceKeysUnique, runVars
    <2>5. ProviderTypeOK' /\ CountersTypeOK'
      BY <1>0, <2>2, <2>3
      DEF ProviderTypeOK, CountersTypeOK, provVars, historyVars
    <2> QED  BY <2>2, <2>4, <2>5 DEF TypeInv
  <1>3. CASE DeleteRow
    <2>1. TableOK(sms', lastId') /\ lastId' \in Nat
      BY <1>0, <1>3, TypeInvTable, WithoutRowTable DEF DeleteRow, DbTypeOK
    <2>2. DbTypeOK' /\ SourceKeysUnique'
      BY <1>0, <1>3, <2>1
      DEF DeleteRow, DbTypeOK, SourceKeysUnique, TableOK, UniquePaths, idVars
    <2>3. CountersTypeOK'
      BY <1>0, <1>3, BoundsAssumption DEF DeleteRow, DbFails, CountersTypeOK
    <2> QED  BY <1>0, <1>3, <2>2, <2>3
        DEF DeleteRow, TypeInv, MMTypeOK, ProviderTypeOK, ChannelsTypeOK,
            mmVars, provVars
  <1>4. CASE Crash
    <2>1. NothingSeen \in [SmsPaths -> Observation]
      BY DEF NothingSeen, Unseen, Observation
    <2>2. <<>> \in Seq(Event) /\ <<>> \in Seq(SignalType)
          /\ Len(<<>>) <= EventCap
      BY BoundsAssumption
    <2>3. ProviderTypeOK' /\ ChannelsTypeOK' /\ DbTypeOK'
      BY <1>0, <1>4, <2>1, <2>2
      DEF Crash, ProviderTypeOK, ChannelsTypeOK, DbTypeOK, idVars, dbVars
    <2> QED  BY <1>0, <1>4, <2>3, BoundsAssumption
        DEF Crash, TypeInv, MMTypeOK, CountersTypeOK, SourceKeysUnique,
            mmVars, dbVars, historyVars
  <1> QED  BY <1>1, <1>2, <1>3, <1>4 DEF Request

(* The types and the uniqueness of source keys are inductive.              *)
LEMMA TypeInvInit == Init => TypeInv
  <1> SUFFICES ASSUME Init PROVE TypeInv
    OBVIOUS
  <1>1. Table(sms) /\ DOMAIN sms = {}
    BY DEF Init, EmptyTable, Table
  <1>2. MMTypeOK /\ ProviderTypeOK
    BY NoneAssumption, BoundsAssumption
    DEF Init, MMTypeOK, ProviderTypeOK, Unseen, Observation
  <1>3. ChannelsTypeOK
    BY BoundsAssumption DEF Init, ChannelsTypeOK
  <1>4. DbTypeOK /\ SourceKeysUnique
    BY <1>1 DEF Init, DbTypeOK, SourceKeysUnique
  <1>5. CountersTypeOK
    BY BoundsAssumption DEF Init, CountersTypeOK
  <1> QED  BY <1>2, <1>3, <1>4, <1>5 DEF TypeInv, TypeOK

(* Every step keeps the types.                                             *)
LEMMA TypeInvNext == TypeInv /\ [Next]_vars => TypeInv'
  <1> SUFFICES ASSUME TypeInv, [Next]_vars PROVE TypeInv'
    OBVIOUS
  <1>0. TypeOK
    BY DEF TypeInv
  <1>1. CASE Environment
    <2>1. UNCHANGED sms
      BY <1>1 DEF Environment, ModemAppears, ModemLeaves, MMRestart, Arrive,
                  Reexport, Export, Complete, Age, runVars
    <2> QED  BY <1>0, <1>1, <2>1, EnvironmentType DEF TypeInv, SourceKeysUnique
  <1>2. CASE Provider
    <2>1. UNCHANGED sms
      BY <1>2 DEF Provider, Start, GetManagedObjects, ListSms, ReadListed,
                  EndReconcile, HandleSignal, OnInterfacesAdded,
                  OnInterfacesRemoved, OnMessagingAdded, OnMessagingDeleted,
                  OnSmsPropsChanged, TakeSignal, runVars
    <2> QED  BY <1>0, <1>2, <2>1, ProviderType DEF TypeInv, SourceKeysUnique
  <1>3. CASE HandleEvent
    BY <1>3, HandleEventType
  <1>4. CASE Request \/ Crash
    BY <1>4, RequestType
  <1>5. CASE UNCHANGED vars
    BY <1>5
    DEF TypeInv, TypeOK, MMTypeOK, ProviderTypeOK, ChannelsTypeOK, DbTypeOK,
        CountersTypeOK, SourceKeysUnique, vars, mmVars, provVars, idVars, dbVars,
        boundVars, historyVars
  <1> QED  BY <1>1, <1>2, <1>3, <1>4, <1>5 DEF Next

(* The pipeline is type-correct: in particular the event channel never     *)
(* exceeds its capacity, and the ids of the table stay below the sequence. *)
THEOREM TypeCorrect == Spec => []TypeOK
  <1>1. TypeInv => TypeOK
    BY DEF TypeInv
  <1> QED  BY <1>1, TypeInvInit, TypeInvNext, PTL DEF Spec

(* No two rows ever have the same source key, whatever paths MM hands out, *)
(* so that the UNIQUE constraint of sms.source_key never fails.            *)
THEOREM SourceKeysAreUnique == Spec => []SourceKeysUnique
  <1>1. TypeInv => SourceKeysUnique
    BY DEF TypeInv
  <1> QED  BY <1>1, TypeInvInit, TypeInvNext, PTL DEF Spec

-----------------------------------------------------------------------------
(* What a message is known by.  While MM has not restarted a path belongs  *)
(* to one message; what is read at it, what waits in the channel and what  *)
(* is in the table agree with that message, and the further down the line, *)
(* the older the news.                                                     *)
Done(state) == state \in {"received", "sent"}
IsSms(e)    == e.kind \in {"SMSReceived", "SMSStateChanged"}

\* readSMS on the object of m at p, before or after m is complete.
ReadAs(m, p, done) ==
    [path |-> p, dir |-> Dir(m),
     state |-> IF m \in Outbound
               THEN IF done THEN "sent" ELSE "sending"
               ELSE IF done THEN "received" ELSE "receiving",
     peer  |-> IF done THEN Peer[m] ELSE None,
     body  |-> IF done THEN Body[m] ELSE None,
     stamp |-> IF done THEN Stamp[m] ELSE None]

\* A path handed out has its message, and a message is exported once.
PathsOK == /\ \A p \in 1..nextPath : at[p] \in Msgs
           /\ \A p \in exported : p <= nextPath /\ phase[at[p]] \in {"partial", "complete"}
           /\ \A p, q \in exported : at[p] = at[q] => p = q

\* The event tells of the message at its path what was read there.
Faithful(e) == /\ e.rec.path \in 1..nextPath /\ e.msg = at[e.rec.path]
               /\ e.rec = ReadAs(e.msg, e.rec.path, Done(e.rec.state))

\* From the k-th event on, all there is to come of path p is complete.
CompleteFrom(p, k) ==
    /\ \A j \in DOMAIN events :
          j >= k /\ IsSms(events[j]) /\ events[j].rec.path = p => Done(events[j].rec.state)
    /\ p \in exported => phase[at[p]] = "complete"

EventOK(i) == IsSms(events[i]) =>
                 /\ Faithful(events[i])
                 /\ Done(events[i].rec.state) => CompleteFrom(events[i].rec.path, i + 1)
EventsOK == \A i \in DOMAIN events : EventOK(i)

\* A row is about the message at its path: a complete one shows it, or has
\* no content because the transaction with the content failed.
Describes(r, m) ==
    /\ r.dir = Dir(m)
    /\ r.state \in IF m \in Outbound THEN {"sending", "sent"} ELSE {"receiving", "received"}
    /\ ~Done(r.state) => r.body = None
    /\ Done(r.state) => Shows(r, m) \/ r.body = None
    /\ r.dir = "inbound" /\ r.body # None => r.pushed
RowOK(r) ==
    /\ r.path \in 1..nextPath
    /\ Describes(r, at[r.path])
    /\ Done(r.state) => CompleteFrom(r.path, 1)
RowsOK == \A i \in DOMAIN sms : RowOK(sms[i])

\* A tracked message is in one row.
OneRow == \A m \in Msgs : Tracked(m) =>
             \A i, j \in DOMAIN sms : Holds(sms[i], m) /\ Holds(sms[j], m) => i = j

\* An announcement is claimed once, by the row.
Claims == \A m \in Msgs : Tracked(m) /\ m \notin erased =>
             /\ notified[m] <= 1
             /\ notified[m] > 0 \/ pending = m => InHistory(m)
             /\ pending = m => notified[m] = 0

World   == PathsOK /\ EventsOK /\ RowsOK
History == OneRow /\ Claims
PipeInv == mmRestarts = 0 => World /\ History

\* The row read as rec is of the same message still: its content has not
\* changed, or it had none and has got that of the message n at its path.
SameMessage(rec, r, n) ==
    IF rec.body = None
    THEN IF r.body = None THEN r.path = rec.path ELSE Shows(r, n)
    ELSE r.dir = rec.dir /\ r.peer = rec.peer /\ r.body = rec.body /\ r.stamp = rec.stamp

\* What a request has read is of the message at its path, and its row, if
\* it is there, is of that message still.
Asked ==
    mmRestarts = 0 /\ deleting.at # "idle" =>
        /\ deleting.row.path \in 1..nextPath
        /\ deleting.row.body # None => Shows(deleting.row, at[deleting.row.path])
        /\ deleting.id \in 1..lastId
        /\ deleting.id \in DOMAIN sms =>
              SameMessage(deleting.row, sms[deleting.id], at[deleting.row.path])

(* The facts of the types that the steps below need.                       *)
LEMMA PipeTypes ==
    ASSUME TypeInv
    PROVE  /\ exported \subseteq SmsPaths /\ nextPath \in Nat /\ SmsPaths \subseteq Nat \ {0}
           /\ at \in [SmsPaths -> Msgs \cup {None}] /\ 1..nextPath \subseteq SmsPaths
           /\ phase \in [Msgs -> {"unsent", "partial", "complete", "gone"}]
           /\ events \in Seq(Event) /\ DOMAIN events = 1..Len(events) /\ Len(events) \in Nat
           /\ \A i \in DOMAIN sms : sms[i] \in Row
           /\ pending \in Msgs \cup {None} /\ notified \in [Msgs -> Nat] /\ erased \subseteq Msgs
           /\ mmRestarts \in Nat /\ dbFaults \in Nat
  <1>1. /\ exported \subseteq SmsPaths /\ nextPath \in 0..MaxPaths
        /\ at \in [SmsPaths -> Msgs \cup {None}]
        /\ phase \in [Msgs -> {"unsent", "partial", "complete", "gone"}]
    BY DEF TypeInv, TypeOK, MMTypeOK
  <1>2. MaxPaths \in Nat /\ SmsPaths = 1..MaxPaths
    BY NoneAssumption DEF SmsPaths
  <1>3. nextPath \in Nat /\ SmsPaths \subseteq Nat \ {0} /\ 1..nextPath \subseteq SmsPaths
    BY <1>1, <1>2
  <1>4. events \in Seq(Event) /\ DOMAIN events = 1..Len(events) /\ Len(events) \in Nat
    BY LenProperties DEF TypeInv, TypeOK, ChannelsTypeOK
  <1>5. /\ \A i \in DOMAIN sms : sms[i] \in Row
        /\ pending \in Msgs \cup {None}
    BY DEF TypeInv, TypeOK, DbTypeOK, Table
  <1>6. /\ notified \in [Msgs -> Nat] /\ erased \subseteq Msgs
        /\ mmRestarts \in Nat /\ dbFaults \in Nat
    BY BoundsAssumption DEF TypeInv, TypeOK, CountersTypeOK
  <1> QED  BY <1>1, <1>3, <1>4, <1>5, <1>6

(* What is in the history depends on the rows alone.                       *)
LEMMA HistoryStays ==
    ASSUME History, UNCHANGED <<sms, pending, notified, erased>>
    PROVE  History'
  BY DEF History, OneRow, Claims, InHistory, Holds, Shows

(* MM moves on: paths keep their messages, and a message that is complete  *)
(* stays so as long as it is exported.                                     *)
LEMMA MMMoves ==
    ASSUME TypeInv, World, PathsOK', UNCHANGED <<events, sms>>,
           nextPath' \in Nat, nextPath' >= nextPath,
           \A p \in 1..nextPath :
              /\ at'[p] = at[p]
              /\ p \in exported' => /\ p \in exported
                                    /\ phase[at[p]] = "complete" => phase'[at[p]] = "complete"
    PROVE  World'
  <1> USE PipeTypes
  <1>1. ASSUME NEW p \in 1..nextPath, NEW k, CompleteFrom(p, k)
        PROVE  CompleteFrom(p, k)'
    BY <1>1 DEF CompleteFrom
  <1>2. ASSUME NEW i \in DOMAIN events PROVE EventOK(i)'
    <2>1. CASE IsSms(events[i])
      <3>1. EventOK(i) /\ Faithful(events[i])
        BY <2>1 DEF World, EventsOK, EventOK
      <3>2. events[i].rec.path \in 1..nextPath
        BY <3>1 DEF Faithful
      <3>3. Faithful(events[i])'
        BY <3>1, <3>2 DEF Faithful
      <3> QED  BY <1>1, <2>1, <3>1, <3>2, <3>3 DEF EventOK
    <2>2. CASE ~IsSms(events[i])
      BY <2>2 DEF EventOK
    <2> QED  BY <2>1, <2>2
  <1>3. EventsOK'
    BY <1>2 DEF EventsOK
  <1>4. ASSUME NEW i \in DOMAIN sms PROVE RowOK(sms[i])'
    <2>1. RowOK(sms[i]) /\ sms[i].path \in 1..nextPath
      BY DEF World, RowsOK, RowOK
    <2>2. at'[sms[i].path] = at[sms[i].path]
      BY <2>1
    <2> QED  BY <1>1, <2>1, <2>2 DEF RowOK, Describes, Shows
  <1>5. RowsOK'
    BY <1>4 DEF RowsOK
  <1> QED  BY <1>3, <1>5 DEF World

LEMMA EnvironmentPipe ==
    ASSUME TypeInv, PipeInv, Environment
    PROVE  PipeInv'
  <1> USE PipeTypes
  <1> SUFFICES ASSUME mmRestarts' = 0 PROVE World' /\ History'
    BY DEF PipeInv
  <1>1. /\ UNCHANGED <<events, sms, pending, notified, erased>>
        /\ mmRestarts = 0
    BY DEF Environment, ModemAppears, ModemLeaves, MMRestart, Arrive, Reexport,
           Export, Complete, Age, runVars, historyVars, boundVars
  <1>2. World /\ History
    BY <1>1 DEF PipeInv
  <1>3. History'
    BY <1>1, <1>2, HistoryStays
  <1>4. PathsOK
    BY <1>2 DEF World
  <1>5. ASSUME NEW s \in Sims \cup {None}, ModemAppears(s) PROVE World'
    <2>1. UNCHANGED <<nextPath, at, exported, phase>>
      BY <1>5 DEF ModemAppears
    <2>2. PathsOK'
      BY <1>4, <2>1 DEF PathsOK
    <2> QED  BY <1>1, <1>2, <2>1, <2>2, MMMoves
  <1>6. ASSUME ModemLeaves PROVE World'
    <2>1. exported' = {} /\ UNCHANGED <<nextPath, at, phase>>
      BY <1>6 DEF ModemLeaves
    <2>2. PathsOK'
      BY <1>4, <2>1 DEF PathsOK
    <2> QED  BY <1>1, <1>2, <2>1, <2>2, MMMoves
  <1>7. ASSUME NEW announced \in BOOLEAN, MMRestart(announced) PROVE FALSE
    BY <1>1, <1>7 DEF MMRestart
  <1>8. ASSUME NEW m \in Msgs, NEW ph \in {"partial", "complete"}, Export(m, ph),
               \A p \in exported : at[p] # m
        PROVE  World'
    <2>1. /\ nextPath < MaxPaths /\ nextPath' = nextPath + 1
          /\ at' = [at EXCEPT ![nextPath + 1] = m]
          /\ exported' = exported \cup {nextPath + 1}
          /\ phase' = [phase EXCEPT ![m] = ph]
      BY <1>8 DEF Export
    <2>2. nextPath + 1 \in SmsPaths /\ MaxPaths \in Nat
      BY <2>1, NoneAssumption DEF SmsPaths
    <2>3. /\ at'[nextPath + 1] = m
          /\ \A p \in 1..nextPath : at'[p] = at[p] /\ p # nextPath + 1
      BY <2>1, <2>2
    <2>4. \A p \in exported : p \in 1..nextPath /\ at'[p] = at[p] /\ phase'[at[p]] = phase[at[p]]
      BY <1>4, <1>8, <2>1, <2>3 DEF PathsOK
    <2>5. PathsOK'
      <3>1. \A p \in 1..nextPath' : at'[p] \in Msgs
        BY <1>4, <2>1, <2>3 DEF PathsOK
      <3>2. \A p \in exported' : p <= nextPath' /\ phase'[at'[p]] \in {"partial", "complete"}
        BY <1>4, <2>1, <2>3, <2>4 DEF PathsOK
      <3>3. \A p, q \in exported' : at'[p] = at'[q] => p = q
        BY <1>4, <1>8, <2>1, <2>3, <2>4 DEF PathsOK
      <3> QED  BY <3>1, <3>2, <3>3 DEF PathsOK
    <2>6. \A p \in 1..nextPath : p \in exported' => p \in exported
      BY <2>1, <2>3
    <2>7. nextPath' \in Nat /\ nextPath' >= nextPath
      BY <2>1
    <2> QED  BY <1>1, <1>2, <2>3, <2>4, <2>5, <2>6, <2>7, MMMoves
  <1>9. ASSUME NEW m \in Msgs, Arrive(m) PROVE World'
    <2>1. \A p \in exported : at[p] # m
      BY <1>4, <1>9 DEF Arrive, PathsOK
    <2> QED  BY <1>8, <1>9, <2>1 DEF Arrive
  <1>10. ASSUME NEW m \in Msgs, Reexport(m) PROVE World'
    <2>1. \A p \in exported : at[p] # m
      BY <1>10 DEF Reexport, IsExported
    <2> QED  BY <1>8, <1>10, <2>1 DEF Reexport
  <1>11. ASSUME NEW m \in Msgs, Complete(m) PROVE World'
    <2>1. phase' = [phase EXCEPT ![m] = "complete"] /\ UNCHANGED <<nextPath, at, exported>>
      BY <1>11 DEF Complete
    <2>2. \A p \in exported : p \in 1..nextPath /\ at[p] \in Msgs
      BY <1>4 DEF PathsOK
    <2>3. PathsOK'
      BY <1>4, <2>1, <2>2 DEF PathsOK
    <2>4. \A p \in 1..nextPath : phase[at[p]] = "complete" => phase'[at[p]] = "complete"
      BY <1>4, <2>1 DEF PathsOK
    <2> QED  BY <1>1, <1>2, <2>1, <2>3, <2>4, MMMoves
  <1>12. ASSUME NEW m \in Msgs, Age(m) PROVE World'
    <2>1. UNCHANGED <<nextPath, at, exported, phase>>
      BY <1>12 DEF Age
    <2>2. PathsOK'
      BY <1>4, <2>1 DEF PathsOK
    <2> QED  BY <1>1, <1>2, <2>1, <2>2, MMMoves
  <1>13. World'
    BY <1>5, <1>6, <1>7, <1>9, <1>10, <1>11, <1>12 DEF Environment
  <1> QED  BY <1>3, <1>13

-----------------------------------------------------------------------------
(* The provider puts what it reads at the end of the channel.              *)

LEMMA ReadIsFaithful ==
    ASSUME NEW m \in Msgs, NEW p
    PROVE  /\ Read(m, p) = ReadAs(m, p, phase[m] = "complete")
           /\ Done(Read(m, p).state) <=> phase[m] = "complete"
           /\ Read(m, p).path = p
  BY DEF Read, ReadAs, Done

\* What the provider may do to the channel: nothing, or one event more.
Emits == \/ UNCHANGED events
         \/ \E e \in Event : Emit(e) /\ ~IsSms(e)
         \/ \E p \in exported, k \in {"SMSReceived", "SMSStateChanged"} :
               Emit(SmsEvent(k, Read(at[p], p), at[p]))

(* An observation is what is read there and then.                          *)
LEMMA ObserveEmits ==
    ASSUME NEW p \in exported, NEW prev, NEW live, Observe(p, prev, live)
    PROVE  Emits
  BY DEF Observe, Emits

LEMMA SmsAppearedEmits ==
    ASSUME NEW p, NEW live, SmsAppeared(p, live)
    PROVE  Emits
  <1>1. CASE p \in exported /\ \E prev, l : Observe(p, prev, l)
    BY <1>1, ObserveEmits
  <1>2. CASE UNCHANGED events
    BY <1>2 DEF Emits
  <1> QED  BY <1>1, <1>2 DEF SmsAppeared, FirstSight, SeenAgain, CallOk

LEMMA ModemAddedEmits ==
    ASSUME TypeInv, NEW mp, NEW s \in Sims \cup {None}, ModemAdded(mp, s)
    PROVE  Emits
  <1>1. Emit(ModemEvent("ModemAdded", s)) /\ ModemEvent("ModemAdded", s) \in Event
    BY EventTypes DEF ModemAdded
  <1>2. ~IsSms(ModemEvent("ModemAdded", s))
    BY DEF IsSms, ModemEvent
  <1> QED  BY <1>1, <1>2 DEF Emits

LEMMA ProviderEmits ==
    ASSUME TypeInv, Provider
    PROVE  /\ Emits
           /\ UNCHANGED <<nextPath, at, exported, phase, sms, pending, notified, erased, mmRestarts>>
  <1>0. UNCHANGED <<nextPath, at, exported, phase, sms, pending, notified, erased, mmRestarts>>
    BY DEF Provider, Start, GetManagedObjects, ListSms, ReadListed, EndReconcile,
           HandleSignal, OnInterfacesAdded, OnInterfacesRemoved, OnMessagingAdded,
           OnMessagingDeleted, OnSmsPropsChanged, TakeSignal, mmVars, runVars,
           boundVars, historyVars
  <1> SUFFICES Emits
    BY <1>0
  <1>1. CASE Start \/ ListSms \/ EndReconcile
    BY <1>1 DEF Start, ListSms, EndReconcile, Emits
  <1>2. CASE GetManagedObjects
    <2>1. CASE ModemAdded(modem, card)
      <3>1. card \in Sims \cup {None}
        BY DEF TypeInv, TypeOK, MMTypeOK
      <3> QED  BY <2>1, <3>1, ModemAddedEmits
    <2>2. CASE UNCHANGED events
      BY <2>2 DEF Emits
    <2> QED  BY <1>2, <2>1, <2>2 DEF GetManagedObjects
  <1>3. ASSUME NEW p \in SmsPaths, ReadListed(p) PROVE Emits
    BY <1>3, SmsAppearedEmits DEF ReadListed
  <1>4. CASE OnInterfacesAdded
    <2>1. Head(sigs) \in SignalType /\ Head(sigs).type = "InterfacesAdded"
      BY <1>4 DEF OnInterfacesAdded, TakeSignal, TypeInv, TypeOK, ChannelsTypeOK
    <2>2. Head(sigs).sim \in Sims \cup {None}
      BY <2>1 DEF SignalType
    <2> QED  BY <1>4, <2>2, ModemAddedEmits DEF OnInterfacesAdded
  <1>5. CASE OnInterfacesRemoved
    <2>1. /\ ModemEvent("ModemRemoved", None) \in Event
          /\ ~IsSms(ModemEvent("ModemRemoved", None))
      BY EventTypes DEF IsSms, ModemEvent
    <2> QED  BY <1>5, <2>1 DEF OnInterfacesRemoved, Emits
  <1>6. CASE OnMessagingAdded
    <2>1. CASE UNCHANGED events
      BY <2>1 DEF Emits
    <2>2. CASE SmsAppeared(Head(sigs).path, TRUE)
      BY <2>2, SmsAppearedEmits
    <2> QED  BY <1>6, <2>1, <2>2 DEF OnMessagingAdded
  <1>7. CASE OnMessagingDeleted
    BY <1>7 DEF OnMessagingDeleted, Emits
  <1>8. CASE OnSmsPropsChanged
    <2>1. CASE UNCHANGED events
      BY <2>1 DEF Emits
    <2>2. CASE /\ CallOk(Head(sigs).path)
               /\ Observe(Head(sigs).path, seen[Head(sigs).path], FALSE)
      BY <2>2, ObserveEmits DEF CallOk
    <2> QED  BY <1>8, <2>1, <2>2 DEF OnSmsPropsChanged
  <1> QED  BY <1>0, <1>1, <1>2, <1>3, <1>4, <1>5, <1>6, <1>7, <1>8
           DEF Provider, HandleSignal

\* The channel has e at its end.
Appends(e) == events' = Append(events, e)

LEMMA EmitsOne ==
    ASSUME TypeInv, PathsOK, Emits
    PROVE  \/ UNCHANGED events
           \/ \E e \in Event :
                 /\ Appends(e)
                 /\ IsSms(e) => /\ Faithful(e) /\ e.rec.path \in exported
                                /\ Done(e.rec.state) <=> phase[at[e.rec.path]] = "complete"
  <1> USE PipeTypes
  <1>1. ASSUME NEW e, Emit(e) PROVE UNCHANGED events \/ Appends(e)
    BY <1>1 DEF Emit, Appends
  <1>2. CASE \E e \in Event : Emit(e) /\ ~IsSms(e)
    BY <1>1, <1>2
  <1>3. ASSUME NEW p \in exported, NEW k \in {"SMSReceived", "SMSStateChanged"},
               Emit(SmsEvent(k, Read(at[p], p), at[p]))
        PROVE  \/ UNCHANGED events
               \/ \E e \in Event :
                     /\ Appends(e)
                     /\ IsSms(e) => /\ Faithful(e) /\ e.rec.path \in exported
                                    /\ Done(e.rec.state) <=> phase[at[e.rec.path]] = "complete"
    <2> DEFINE rec == Read(at[p], p)
               e == SmsEvent(k, rec, at[p])
    <2>1. at[p] \in Msgs /\ p \in SmsPaths /\ p \in 1..nextPath
      BY DEF PathsOK
    <2>2. rec \in Record /\ e \in Event
      BY <2>1, ReadType, EventTypes
    <2>3. /\ rec = ReadAs(at[p], p, phase[at[p]] = "complete")
          /\ Done(rec.state) <=> phase[at[p]] = "complete"
          /\ rec.path = p
      BY <2>1, ReadIsFaithful
    <2>4. rec = ReadAs(at[p], p, Done(rec.state))
      BY <2>3 DEF ReadAs
    <2>5. e.rec = rec /\ e.msg = at[p]
      BY DEF SmsEvent
    <2>6. Faithful(e)
      BY <2>1, <2>3, <2>4, <2>5 DEF Faithful
    <2>7. UNCHANGED events \/ Appends(e)
      BY <1>1, <1>3
    <2> HIDE DEF e, rec
    <2> QED  BY <2>2, <2>3, <2>5, <2>6, <2>7
  <1> QED  BY <1>2, <1>3 DEF Emits

LEMMA ProviderPipe ==
    ASSUME TypeInv, PipeInv, Provider
    PROVE  PipeInv'
  <1> USE PipeTypes
  <1> SUFFICES ASSUME mmRestarts' = 0 PROVE World' /\ History'
    BY DEF PipeInv
  <1>1. /\ Emits
        /\ UNCHANGED <<nextPath, at, exported, phase, sms, pending, notified, erased, mmRestarts>>
    BY ProviderEmits
  <1>2. World /\ History
    BY <1>1 DEF PipeInv
  <1>3. History'
    BY <1>1, <1>2, HistoryStays
  <1>4. PathsOK'
    BY <1>1, <1>2 DEF World, PathsOK
  <1>5. CASE UNCHANGED events
    <2>1. nextPath' \in Nat /\ nextPath' >= nextPath
      BY <1>1
    <2>2. \A p \in 1..nextPath :
             /\ at'[p] = at[p]
             /\ p \in exported' => /\ p \in exported
                                   /\ phase[at[p]] = "complete" => phase'[at[p]] = "complete"
      BY <1>1
    <2>3. UNCHANGED <<events, sms>> /\ World
      BY <1>1, <1>2, <1>5
    <2> QED
      BY <1>3, <1>4, <2>1, <2>2, <2>3, MMMoves
  <1>6. ASSUME NEW e \in Event, Appends(e),
               IsSms(e) => /\ Faithful(e) /\ e.rec.path \in exported
                           /\ Done(e.rec.state) <=> phase[at[e.rec.path]] = "complete"
        PROVE  World'
    <2>0. PICK n \in Nat : n = Len(events)
      OBVIOUS
    <2>1. /\ DOMAIN events' = 1..(n + 1) /\ events'[n + 1] = e
          /\ \A i \in 1..n : events'[i] = events[i]
      <3>1. /\ events' \in Seq(Event) /\ Len(events') = n + 1 /\ events'[n + 1] = e
            /\ \A i \in 1..n : events'[i] = events[i]
        BY <1>6, <2>0, AppendProperties DEF Appends
      <3> QED  BY <3>1, LenProperties
    <2>2. n \in Nat /\ DOMAIN events = 1..n
      BY <2>0
    <2>3. ASSUME NEW p, NEW k, CompleteFrom(p, k) PROVE CompleteFrom(p, k)'
      <3>1. ASSUME NEW j \in 1..(n + 1), j >= k, IsSms(events'[j]), events'[j].rec.path = p
            PROVE  Done(events'[j].rec.state)
        <4>1. CASE j = n + 1
          BY <1>6, <2>1, <2>3, <3>1, <4>1 DEF CompleteFrom
        <4>2. CASE j # n + 1
          <5>1. j \in 1..n
            BY <2>2, <4>2
          <5> QED  BY <2>1, <2>2, <2>3, <3>1, <5>1 DEF CompleteFrom
        <4> QED  BY <4>1, <4>2
      <3>2. \A j \in DOMAIN events' :
               j >= k /\ IsSms(events'[j]) /\ events'[j].rec.path = p => Done(events'[j].rec.state)
        BY <2>1, <3>1
      <3>3. p \in exported' => phase'[at'[p]] = "complete"
        BY <1>1, <2>3 DEF CompleteFrom
      <3> QED  BY <3>2, <3>3 DEF CompleteFrom
    <2>4. ASSUME NEW i \in 1..n PROVE EventOK(i)'
      <3>1. EventOK(i) /\ events'[i] = events[i]
        BY <1>2, <2>1, <2>2 DEF World, EventsOK
      <3>2. Faithful(events[i]) => Faithful(events[i])'
        BY <1>1, <3>1 DEF Faithful
      <3> QED  BY <2>3, <3>1, <3>2 DEF EventOK, Faithful
    <2>5. EventOK(n + 1)'
      <3>1. IsSms(e) /\ Done(e.rec.state) => CompleteFrom(e.rec.path, (n + 1) + 1)'
        <4>1. \A j \in DOMAIN events' : ~(j >= (n + 1) + 1)
          BY <2>1, <2>2
        <4>2. IsSms(e) /\ Done(e.rec.state) => phase'[at'[e.rec.path]] = "complete"
          BY <1>1, <1>6
        <4> QED  BY <4>1, <4>2 DEF CompleteFrom
      <3>2. IsSms(e) => Faithful(e)'
        BY <1>1, <1>6 DEF Faithful
      <3> QED  BY <2>1, <3>1, <3>2 DEF EventOK, Faithful
    <2>6. EventsOK'
      <3>1. \A i \in DOMAIN events' : i \in 1..n \/ i = n + 1
        BY <2>1, <2>2
      <3> QED  BY <2>4, <2>5, <3>1 DEF EventsOK
    <2>7. RowsOK'
      BY <1>1, <1>2, <2>3 DEF World, RowsOK, RowOK, Describes, Shows
    <2> QED  BY <1>4, <2>6, <2>7 DEF World
  <1> QED  BY <1>1, <1>2, <1>3, <1>5, <1>6, EmitsOne DEF World

-----------------------------------------------------------------------------
(* The runner takes the first event.                                       *)

\* Received messages with the same content: the table cannot tell them apart.
Twins(m, n) == /\ n \notin Outbound
               /\ Peer[n] = Peer[m] /\ Body[n] = Body[m] /\ Stamp[n] = Stamp[m]

(* The first event, what it says of its message, and what that means for   *)
(* the rows at its path.                                                   *)
LEMMA FirstEvent ==
    ASSUME TypeInv, World, events # <<>>, IsSms(events[1])
    PROVE  LET rec == events[1].rec
               n   == events[1].msg
           IN  /\ n \in Msgs /\ n = at[rec.path] /\ rec \in Record
               /\ rec.path \in 1..nextPath /\ rec.dir = Dir(n)
               /\ rec.state \in IF n \in Outbound THEN {"sending", "sent"}
                                ELSE {"receiving", "received"}
               /\ ~Done(rec.state) => rec.body = None
               /\ Done(rec.state) => /\ rec.peer = Peer[n] /\ rec.body = Body[n]
                                     /\ rec.stamp = Stamp[n]
                                     /\ CompleteFrom(rec.path, 2)
               /\ Candidate(rec) <=> (n \notin Outbound /\ Done(rec.state))
               /\ \A i \in DOMAIN sms :
                     sms[i].path = rec.path /\ Done(sms[i].state) => Done(rec.state)
  <1> USE PipeTypes
  <1> DEFINE rec == events[1].rec
             n   == events[1].msg
  <1>1. 1 \in DOMAIN events
    BY EmptySeq
  <1>2. events[1] \in Event /\ EventOK(1)
    BY <1>1 DEF World, EventsOK
  <1>3. /\ rec.path \in 1..nextPath /\ n = at[rec.path]
        /\ rec = ReadAs(n, rec.path, Done(rec.state))
        /\ Done(rec.state) => CompleteFrom(rec.path, 1 + 1)
    BY <1>2 DEF EventOK, Faithful
  <1>4. n \in Msgs /\ rec \in Record
    BY <1>2 DEF Event, IsSms
  <1>5. /\ rec.dir = Dir(n)
        /\ rec.state = (IF n \in Outbound
                        THEN IF Done(rec.state) THEN "sent" ELSE "sending"
                        ELSE IF Done(rec.state) THEN "received" ELSE "receiving")
        /\ rec.peer = (IF Done(rec.state) THEN Peer[n] ELSE None)
        /\ rec.body = (IF Done(rec.state) THEN Body[n] ELSE None)
        /\ rec.stamp = (IF Done(rec.state) THEN Stamp[n] ELSE None)
    BY <1>3 DEF ReadAs
  <1>6. \A i \in DOMAIN sms :
           sms[i].path = rec.path /\ Done(sms[i].state) => Done(rec.state)
    <2> SUFFICES ASSUME NEW i \in DOMAIN sms, sms[i].path = rec.path, Done(sms[i].state)
                 PROVE  Done(rec.state)
      OBVIOUS
    <2>1. CompleteFrom(rec.path, 1)
      BY DEF World, RowsOK, RowOK
    <2> QED  BY <1>1, <2>1 DEF CompleteFrom
  <1>7. Candidate(rec) <=> (n \notin Outbound /\ Done(rec.state))
    BY <1>5 DEF Candidate, Dir, Done
  <1>8. 1 + 1 = 2
    OBVIOUS
  <1> HIDE DEF rec, n
  <1> QED  BY <1>3, <1>4, <1>5, <1>6, <1>7, <1>8 DEF rec, n

(* A row that holds a tracked message and is at the path, or has the       *)
(* content, of what was read of n: n is a twin.                            *)
LEMMA TwinsByRow ==
    ASSUME NEW m \in Msgs, Tracked(m), NEW n \in Msgs \ Outbound,
           NEW r, Holds(r, m),
           \/ Describes(r, n)
           \/ /\ r.peer = Peer[n] /\ r.body = Body[n]
              /\ Stamp[n] # None => r.stamp = Stamp[n]
    PROVE  Twins(m, n)
  <1>1. /\ r.state = "received" /\ r.peer = Peer[m] /\ r.body = Body[m] /\ r.stamp = Stamp[m]
        /\ Body[m] # None
    BY DEF Holds, Shows, Tracked
  <1>2. /\ Peer[n] = Peer[m] /\ Body[n] = Body[m]
        /\ Stamp[n] # None => r.stamp = Stamp[n]
    BY <1>1 DEF Describes, Done, Shows
  <1>3. Stamp[n] # None
    BY <1>2 DEF Tracked
  <1> QED  BY <1>1, <1>2, <1>3 DEF Twins

(* A tracked message in the table is found by the content of its twin.     *)
LEMMA TwinIsFound ==
    ASSUME TypeInv, OneRow, NEW m \in Msgs, Tracked(m), NEW n \in Msgs, Twins(m, n),
           NEW rec, Candidate(rec), rec.peer = Peer[n], rec.body = Body[n],
           rec.stamp = Stamp[n],
           NEW i \in DOMAIN sms, Holds(sms[i], m)
    PROVE  ContentDuplicate(sms, rec, simBound, modemRow) = {i}
  <1>1. rec.body # None /\ rec.stamp # None
    BY DEF Twins, Tracked
  <1>2. \A j \in DOMAIN sms : j \in SameContent(sms, rec) <=> Holds(sms[j], m)
    BY <1>1 DEF SameContent, Holds, Shows, Twins, Tracked, Dir
  <1>3. SameContent(sms, rec) \subseteq DOMAIN sms
    BY DEF SameContent
  <1>4. \A j \in SameContent(sms, rec) : j = i
    BY <1>2, <1>3 DEF OneRow
  <1>5. DOMAIN sms \subseteq Nat
    BY DEF TypeInv, TypeOK, DbTypeOK, Table
  <1> QED  BY <1>1, <1>2, <1>4, <1>5, ContentDuplicateFindsTheOnly

(* insertSMS on the first event: the rows go on describing their messages, *)
(* a tracked message stays in one row, and it does not disappear.  It may  *)
(* be announced only if it was not there.                                  *)
LEMMA InsertionTells ==
    ASSUME TypeInv, World, OneRow, events # <<>>, IsSms(events[1]),
           NEW R, R = Insertion(events[1].rec)
    PROVE  LET rec == events[1].rec
               n   == events[1].msg
           IN  /\ StateUpdated(R, rec.path, rec.state) = R
               /\ \A i \in DOMAIN R :
                     /\ R[i].path \in 1..nextPath /\ Describes(R[i], at[R[i].path])
                     /\ Done(R[i].state) => CompleteFrom(R[i].path, 2)
               /\ \A m \in Msgs : Tracked(m) =>
                     /\ \A i, j \in DOMAIN R : Holds(R[i], m) /\ Holds(R[j], m) => i = j
                     /\ InHistory(m) => \E i \in DOMAIN R : Holds(R[i], m)
               /\ MayNotify(sms, rec, simBound, modemRow) /\ Tracked(n) =>
                     /\ ~InHistory(n)
                     /\ \E i \in DOMAIN R : Holds(R[i], n)
               /\ \A i \in DOMAIN R : \/ Done(R[i].state) => Shows(R[i], at[R[i].path])
                                      \/ i \in DOMAIN sms /\ R[i] = sms[i]
  <1> USE PipeTypes
  <1> DEFINE rec == events[1].rec
             n   == events[1].msg
             content == ContentDuplicate(sms, rec, simBound, modemRow)
  <1>1. /\ n \in Msgs /\ n = at[rec.path] /\ rec \in Record
        /\ rec.path \in 1..nextPath /\ rec.dir = Dir(n)
        /\ rec.state \in IF n \in Outbound THEN {"sending", "sent"}
                         ELSE {"receiving", "received"}
        /\ ~Done(rec.state) => rec.body = None
        /\ Done(rec.state) => /\ rec.peer = Peer[n] /\ rec.body = Body[n]
                              /\ rec.stamp = Stamp[n]
                              /\ CompleteFrom(rec.path, 2)
        /\ Candidate(rec) <=> (n \notin Outbound /\ Done(rec.state))
        /\ \A i \in DOMAIN sms :
              sms[i].path = rec.path /\ Done(sms[i].state) => Done(rec.state)
    BY FirstEvent
  <1> HIDE DEF rec, n
  <1>2. PICK k \in DOMAIN R : Written(sms, R, k, lastId + 1, rec, simBound, modemRow)
    <2>1. Table(sms) /\ UniquePaths(sms) /\ lastId \in Nat /\ DOMAIN sms \subseteq 1..lastId
      BY TypeInvTable DEF TableOK, TypeInv, TypeOK, DbTypeOK
    <2>2. lastId + 1 \in Nat \ {0} /\ lastId + 1 \notin DOMAIN sms
      BY <2>1
    <2>3. simBound \in Sims \cup {None} /\ modemRow \in BOOLEAN
      BY DEF TypeInv, TypeOK, DbTypeOK
    <2> QED  BY <1>1, <2>1, <2>2, <2>3, InsertedShape DEF Insertion, rec
  <1>3. /\ R[k] \in Row /\ R[k].path = rec.path /\ R[k].dir = rec.dir
        /\ R[k].state = rec.state /\ R[k].peer = rec.peer
        /\ k \in DOMAIN sms =>
              /\ sms[k].path = rec.path \/ k \in content
              /\ R[k].body = IF rec.body # None THEN rec.body ELSE sms[k].body
              /\ R[k].stamp = IF rec.stamp # None THEN rec.stamp ELSE sms[k].stamp
              /\ R[k].pushed <=> (sms[k].pushed \/ Candidate(rec))
        /\ k \notin DOMAIN sms =>
              /\ R[k].body = rec.body /\ R[k].stamp = rec.stamp
              /\ R[k].pushed <=> Candidate(rec)
        /\ content # {} => k \in content
        /\ \A j \in DOMAIN R \ {k} : j \in DOMAIN sms /\ R[j] = sms[j] /\ sms[j].path # rec.path
        /\ \A j \in DOMAIN sms \ DOMAIN R : sms[j].path = rec.path /\ content # {} /\ j # k
    BY <1>2 DEF Written
  <1>4. \A i \in content : /\ Candidate(rec) /\ rec.body # None /\ i \in DOMAIN sms
                           /\ sms[i].peer = rec.peer /\ sms[i].body = rec.body
                           /\ rec.stamp # None => sms[i].stamp = rec.stamp
    BY ContentDuplicateSound DEF SameContent
  <1> HIDE DEF content
  <1>5. StateUpdated(R, rec.path, rec.state) = R
    <2>1. \A i \in DOMAIN R : R[i].path = rec.path => i = k
      BY <1>3
    <2>2. [R[k] EXCEPT !.state = rec.state] = R[k]
      BY <1>3 DEF Row
    <2>3. R = [i \in DOMAIN R |-> R[i]]
      BY DEF Insertion, Inserted, WithRow, Merged
    <2> QED  BY <2>1, <2>2, <2>3 DEF StateUpdated
  <1>6. \A i \in DOMAIN sms : RowOK(sms[i])
    BY DEF World, RowsOK
  <1>7. Describes(R[k], n)
    <2>1. CASE Done(rec.state)
      <3>1. R[k].body = Body[n]
        <4>1. CASE rec.body # None
          BY <1>1, <1>3, <2>1, <4>1
        <4>2. CASE rec.body = None /\ k \in DOMAIN sms
          <5>1. sms[k].path = rec.path
            BY <1>3, <1>4, <4>2
          <5>2. Describes(sms[k], n)
            BY <1>1, <1>6, <4>2, <5>1 DEF RowOK
          <5>3. sms[k].body = None
            BY <1>1, <2>1, <4>2, <5>2 DEF Describes, Shows
          <5> QED  BY <1>1, <1>3, <2>1, <4>2, <5>3
        <4>3. CASE rec.body = None /\ k \notin DOMAIN sms
          BY <1>1, <1>3, <2>1, <4>3
        <4> QED  BY <4>1, <4>2, <4>3
      <3>2. Stamp[n] # None => R[k].stamp = Stamp[n]
        BY <1>1, <1>3, <2>1
      <3>3. Shows(R[k], n)
        BY <1>1, <1>3, <2>1, <3>1, <3>2 DEF Shows
      <3>4. R[k].dir = "inbound" => R[k].pushed
        BY <1>1, <1>3, <2>1 DEF Dir
      <3> QED  BY <1>1, <1>3, <2>1, <3>3, <3>4 DEF Describes
    <2>2. CASE ~Done(rec.state)
      <3>1. content = {}
        BY <1>1, <1>4, <2>2
      <3>2. R[k].body = None
        <4>1. CASE k \in DOMAIN sms
          <5>1. sms[k].path = rec.path
            BY <1>3, <3>1, <4>1
          <5>2. ~Done(sms[k].state) /\ Describes(sms[k], n)
            BY <1>1, <1>6, <2>2, <4>1, <5>1 DEF RowOK
          <5> QED  BY <1>1, <1>3, <2>2, <4>1, <5>2 DEF Describes
        <4>2. CASE k \notin DOMAIN sms
          BY <1>1, <1>3, <2>2, <4>2
        <4> QED  BY <4>1, <4>2
      <3> QED  BY <1>1, <1>3, <2>2, <3>2 DEF Describes
    <2> QED  BY <2>1, <2>2
  <1>8. Done(rec.state) => Shows(R[k], n)
    <2>1. CASE Body[n] # None
      <3>1. Done(rec.state) => R[k].body # None
        BY <1>1, <1>3, <2>1
      <3> QED  BY <1>3, <1>7, <3>1 DEF Describes
    <2>2. CASE Body[n] = None
      BY <1>1, <1>3, <1>7, <2>2 DEF Describes, Shows
    <2> QED  BY <2>1, <2>2
  <1>9. \A i \in DOMAIN R :
           /\ R[i].path \in 1..nextPath /\ Describes(R[i], at[R[i].path])
           /\ Done(R[i].state) => CompleteFrom(R[i].path, 2)
    <2> SUFFICES ASSUME NEW i \in DOMAIN R
                 PROVE  /\ R[i].path \in 1..nextPath /\ Describes(R[i], at[R[i].path])
                        /\ Done(R[i].state) => CompleteFrom(R[i].path, 2)
      OBVIOUS
    <2>1. CASE i = k
      BY <1>1, <1>3, <1>7, <2>1
    <2>2. CASE i # k
      <3>1. R[i] = sms[i] /\ RowOK(sms[i])
        BY <1>3, <1>6, <2>2
      <3>2. CompleteFrom(sms[i].path, 1) => CompleteFrom(sms[i].path, 2)
        BY DEF CompleteFrom
      <3> QED  BY <3>1, <3>2 DEF RowOK
    <2> QED  BY <2>1, <2>2
  \* A row that holds a tracked message and has to do with this event.
  <1>10. ASSUME NEW m \in Msgs, Tracked(m), NEW i \in DOMAIN sms, Holds(sms[i], m),
                sms[i].path = rec.path \/ i \in content
         PROVE  Twins(m, n) /\ Candidate(rec) /\ content = {i}
    <2>1. sms[i].state = "received" /\ sms[i].dir = "inbound"
      BY <1>10 DEF Holds, Shows, Dir, Tracked
    <2>2. Done(rec.state) /\ n \notin Outbound
      <3>1. CASE i \in content
        BY <1>1, <1>4, <3>1
      <3>2. CASE sms[i].path = rec.path
        <4>1. Done(rec.state)
          BY <1>1, <2>1, <3>2 DEF Done
        <4>2. Describes(sms[i], n)
          BY <1>1, <1>6, <3>2 DEF RowOK
        <4> QED  BY <2>1, <4>1, <4>2 DEF Describes, Dir
      <3> QED  BY <1>10, <3>1, <3>2
    <2>3. \/ Describes(sms[i], n)
          \/ /\ sms[i].peer = Peer[n] /\ sms[i].body = Body[n]
             /\ Stamp[n] # None => sms[i].stamp = Stamp[n]
      BY <1>1, <1>4, <1>6, <1>10, <2>2 DEF RowOK
    <2>4. Twins(m, n)
      BY <1>1, <1>10, <2>2, <2>3, TwinsByRow
    <2> QED  BY <1>1, <1>10, <2>2, <2>4, TwinIsFound DEF content
  <1>11. ASSUME NEW m \in Msgs, Tracked(m), Holds(R[k], m)
         PROVE  Twins(m, n) /\ Candidate(rec)
    <2>1. rec.state = "received" /\ n \notin Outbound /\ Done(rec.state)
      BY <1>1, <1>3, <1>11 DEF Holds, Done
    <2> QED  BY <1>1, <1>7, <1>11, <2>1, TwinsByRow
  <1>12. ASSUME NEW m \in Msgs, Tracked(m), NEW i \in DOMAIN R, Holds(R[i], m), Holds(R[k], m)
         PROVE  i = k
    <2> SUFFICES ASSUME i # k PROVE FALSE
      OBVIOUS
    <2>1. i \in DOMAIN sms /\ Holds(sms[i], m)
      BY <1>3, <1>12
    <2>2. content = {i}
      BY <1>1, <1>11, <1>12, <2>1, TwinIsFound DEF content
    <2> QED  BY <1>3, <2>2
  <1>13. ASSUME NEW m \in Msgs, Tracked(m), NEW i \in DOMAIN R, NEW j \in DOMAIN R,
                Holds(R[i], m), Holds(R[j], m)
         PROVE  i = j
    <2>1. CASE i = k \/ j = k
      BY <1>12, <1>13, <2>1
    <2>2. CASE i # k /\ j # k
      BY <1>3, <1>13, <2>2 DEF OneRow
    <2> QED  BY <2>1, <2>2
  <1>14. ASSUME NEW m \in Msgs, Twins(m, n), Candidate(rec), m \notin Outbound
         PROVE  Holds(R[k], m)
    <2>1. R[k].state = "received" /\ Shows(R[k], n)
      BY <1>1, <1>3, <1>8, <1>14 DEF Candidate
    <2> QED  BY <1>14, <2>1 DEF Holds, Shows, Twins, Dir
  <1>15. ASSUME NEW m \in Msgs, Tracked(m), InHistory(m)
         PROVE  \E i \in DOMAIN R : Holds(R[i], m)
    <2>1. PICK i \in DOMAIN sms : Holds(sms[i], m)
      BY <1>15 DEF InHistory
    <2>2. CASE i \in DOMAIN R \ {k}
      BY <1>3, <2>1, <2>2
    <2>3. CASE i \notin DOMAIN R \ {k}
      <3>1. sms[i].path = rec.path \/ i \in content
        BY <1>3, <2>1, <2>3
      <3>2. Twins(m, n) /\ Candidate(rec)
        BY <1>10, <1>15, <2>1, <3>1
      <3> QED  BY <1>14, <1>15, <3>2 DEF Tracked
    <2> QED  BY <2>2, <2>3
  <1>16. ASSUME MayNotify(sms, rec, simBound, modemRow), Tracked(n)
         PROVE  ~InHistory(n) /\ \E i \in DOMAIN R : Holds(R[i], n)
    <2>1. /\ Candidate(rec) /\ Twins(n, n)
          /\ content = {} \/ content = AtSourceKey(sms, rec.path)
          /\ \A i \in AtSourceKey(sms, rec.path) : ~sms[i].pushed
      <3>1. n \notin Outbound
        BY <1>16 DEF Tracked
      <3> QED  BY <1>16, <3>1 DEF MayNotify, Twins, content
    <2>2. ASSUME NEW i \in DOMAIN sms, Holds(sms[i], n) PROVE FALSE
      <3>1. content = {i}
        <4>1. /\ n \in Msgs /\ rec.peer = Peer[n] /\ rec.body = Body[n]
              /\ rec.stamp = Stamp[n]
          BY <1>1, <2>1
        <4> QED  BY <1>16, <2>1, <2>2, <4>1, TwinIsFound DEF content
      <3>2. ~sms[i].pushed
        BY <2>1, <3>1
      <3>3. sms[i].dir = "inbound" /\ sms[i].body # None
        BY <1>16, <2>2 DEF Holds, Shows, Tracked, Dir
      <3> QED  BY <1>6, <3>2, <3>3 DEF RowOK, Describes
    <2>3. ~InHistory(n)
      BY <2>2 DEF InHistory
    <2>4. Holds(R[k], n)
      BY <1>1, <1>14, <1>16, <2>1 DEF Tracked
    <2> QED  BY <2>3, <2>4
  <1>17. \A i \in DOMAIN R : \/ Done(R[i].state) => Shows(R[i], at[R[i].path])
                             \/ i \in DOMAIN sms /\ R[i] = sms[i]
    BY <1>1, <1>3, <1>8
  <1> QED  BY <1>5, <1>9, <1>13, <1>15, <1>16, <1>17 DEF rec, n

\* What a step does to the messages, seen from the users: a tracked message
\* leaves the history only when it is erased, and only what is there is; the
\* announcement of one that was not there is claimed, made, or lost.
Serves ==
    /\ \A m \in Msgs : Tracked(m) =>
          /\ InHistory(m) /\ m \notin erased' => InHistory(m)'
          /\ m \in erased' \ erased => InHistory(m)
          /\ m \in erased => m \in erased'
    /\ \/ UNCHANGED notified /\ pending' \in {pending, None}
       \/ /\ UNCHANGED <<notified, erased>> /\ pending = None /\ pending' \in Msgs
          /\ Tracked(pending') => ~InHistory(pending') /\ \E i \in DOMAIN sms' : Holds(sms'[i], pending')
       \/ /\ pending \in Msgs /\ pending' = None
          /\ notified' = [notified EXCEPT ![pending] = @ + 1]
          /\ UNCHANGED <<sms, erased>>

(* A claim is backed by the history, whatever a step does.                 *)
LEMMA ClaimsKept ==
    ASSUME TypeInv, Claims, Serves
    PROVE  Claims'
  <1> USE PipeTypes
  <1> SUFFICES ASSUME NEW m \in Msgs, Tracked(m), m \notin erased'
               PROVE  /\ notified'[m] <= 1
                      /\ notified'[m] > 0 \/ pending' = m => InHistory(m)'
                      /\ pending' = m => notified'[m] = 0
    BY DEF Claims, Tracked
  <1>1. /\ m \notin erased /\ (InHistory(m) => InHistory(m)')
        /\ notified[m] <= 1 /\ notified[m] \in Nat
        /\ notified[m] > 0 \/ pending = m => InHistory(m)
        /\ pending = m => notified[m] = 0
    BY DEF Claims, Serves
  <1>2. CASE UNCHANGED notified /\ pending' \in {pending, None}
    <2>1. m # None
      BY MsgsAssumption
    <2> QED  BY <1>1, <1>2, <2>1
  <1>3. CASE /\ UNCHANGED notified /\ pending = None
             /\ Tracked(pending') => ~InHistory(pending') /\ \E i \in DOMAIN sms' : Holds(sms'[i], pending')
    <2>1. CASE pending' = m
      <3>1. ~InHistory(m) /\ \E i \in DOMAIN sms' : Holds(sms'[i], m)
        BY <1>3, <2>1
      <3>2. InHistory(m)'
        BY <3>1 DEF InHistory, Holds, Shows
      <3>3. ~(notified[m] > 0)
        BY <1>1, <3>1
      <3> QED  BY <1>1, <1>3, <3>2, <3>3
    <2>2. CASE pending' # m
      BY <1>1, <1>3, <2>2
    <2> QED  BY <2>1, <2>2
  <1>4. CASE /\ pending \in Msgs /\ pending' = None
             /\ notified' = [notified EXCEPT ![pending] = @ + 1]
    <2>1. m # None
      BY MsgsAssumption
    <2>2. CASE pending = m
      <3>1. notified'[m] = notified[m] + 1
        BY <1>4, <2>2
      <3> QED  BY <1>1, <1>4, <2>1, <2>2, <3>1
    <2>3. CASE pending # m
      <3>1. notified'[m] = notified[m]
        BY <1>4, <2>3
      <3> QED  BY <1>1, <1>4, <2>1, <3>1
    <2> QED  BY <2>2, <2>3
  <1> QED  BY <1>2, <1>3, <1>4 DEF Serves

(* Nothing happens to the messages.                                        *)
LEMMA NothingServed ==
    ASSUME UNCHANGED <<sms, pending, notified, erased>>
    PROVE  Serves
  BY DEF Serves, InHistory, Holds, Shows

(* The event is off the channel: what it said of its path still holds.     *)
LEMMA TakenWorld ==
    ASSUME TypeInv, World, events # <<>>, events' = Tail(events),
           UNCHANGED <<nextPath, at, exported, phase>>
    PROVE  /\ PathsOK' /\ EventsOK'
           /\ \A p : CompleteFrom(p, 2) => CompleteFrom(p, 1)'
  <1> USE PipeTypes
  <1>1. /\ DOMAIN events' = 1..(Len(events) - 1)
        /\ \A i \in 1..(Len(events) - 1) : events'[i] = events[i + 1] /\ i + 1 \in DOMAIN events
    <2>1. /\ events' \in Seq(Event) /\ Len(events') = Len(events) - 1
          /\ \A i \in 1..Len(events') : events'[i] = events[i + 1]
      BY HeadTailProperties
    <2>2. DOMAIN events' = 1..(Len(events) - 1)
      BY <2>1, LenProperties
    <2> QED  BY <2>1, <2>2
  <1>2. ASSUME NEW p, NEW k \in Nat, CompleteFrom(p, k + 1) PROVE CompleteFrom(p, k)'
    <2>1. ASSUME NEW j \in DOMAIN events', j >= k, IsSms(events'[j]), events'[j].rec.path = p
          PROVE  Done(events'[j].rec.state)
      <3>1. j + 1 \in DOMAIN events /\ events'[j] = events[j + 1] /\ j + 1 >= k + 1
        BY <1>1, <2>1
      <3> QED  BY <1>2, <2>1, <3>1 DEF CompleteFrom
    <2>2. p \in exported' => phase'[at'[p]] = "complete"
      BY <1>2 DEF CompleteFrom
    <2> QED  BY <2>1, <2>2 DEF CompleteFrom
  <1>3. ASSUME NEW i \in DOMAIN events' PROVE EventOK(i)'
    <2>1. i \in Nat /\ i + 1 \in DOMAIN events /\ events'[i] = events[i + 1] /\ EventOK(i + 1)
      BY <1>1 DEF World, EventsOK
    <2>2. \A e : Faithful(e) => Faithful(e)'
      BY DEF Faithful
    <2>3. \A p : CompleteFrom(p, (i + 1) + 1) => CompleteFrom(p, i + 1)'
      BY <1>2, <2>1
    <2> QED  BY <2>1, <2>2, <2>3 DEF EventOK, Faithful
  <1>4. EventsOK'
    BY <1>3 DEF EventsOK
  <1>5. PathsOK'
    BY DEF World, PathsOK
  <1>6. ASSUME NEW p, CompleteFrom(p, 2) PROVE CompleteFrom(p, 1)'
    <2>1. 1 + 1 = 2 /\ 1 \in Nat
      OBVIOUS
    <2>2. CompleteFrom(p, 1 + 1)
      BY <1>6, <2>1
    <2> QED  BY <1>2, <2>1, <2>2
  <1> QED  BY <1>4, <1>5, <1>6

LEMMA TakeEventFacts ==
    ASSUME TypeInv, NEW kind, TakeEvent(kind)
    PROVE  /\ events # <<>> /\ events' = Tail(events) /\ Head(events) = events[1]
           /\ events[1].kind = kind /\ pending = None
           /\ UNCHANGED <<nextPath, at, exported, phase, notified, erased>>
  BY TakeEventType DEF TakeEvent, mmVars, historyVars, TypeInv

(* The transaction with the content failed: only the state is written, and *)
(* it is the one that the row has if it holds a tracked message.           *)
LEMMA StateOnlyTells ==
    ASSUME TypeInv, World, OneRow, events # <<>>, IsSms(events[1]),
           NEW R, R = StateUpdated(sms, events[1].rec.path, events[1].rec.state)
    PROVE  /\ \A i \in DOMAIN R :
                 /\ R[i].path \in 1..nextPath /\ Describes(R[i], at[R[i].path])
                 /\ Done(R[i].state) => CompleteFrom(R[i].path, 2)
           /\ DOMAIN R = DOMAIN sms
           /\ \A i \in DOMAIN R, m \in Msgs : Tracked(m) => (Holds(R[i], m) <=> Holds(sms[i], m))
  <1> USE PipeTypes
  <1> DEFINE rec == events[1].rec
             n   == events[1].msg
  <1>1. /\ n = at[rec.path] /\ rec.path \in 1..nextPath /\ rec \in Record
        /\ rec.state \in IF n \in Outbound THEN {"sending", "sent"}
                         ELSE {"receiving", "received"}
        /\ Done(rec.state) => CompleteFrom(rec.path, 2)
        /\ \A i \in DOMAIN sms :
              sms[i].path = rec.path /\ Done(sms[i].state) => Done(rec.state)
    BY FirstEvent
  <1>2. /\ DOMAIN R = DOMAIN sms
        /\ \A i \in DOMAIN sms :
              R[i] = IF sms[i].path = rec.path THEN [sms[i] EXCEPT !.state = rec.state]
                     ELSE sms[i]
    BY DEF StateUpdated
  <1> HIDE DEF rec, n
  <1>3. ASSUME NEW i \in DOMAIN sms
        PROVE  /\ R[i].path \in 1..nextPath /\ Describes(R[i], at[R[i].path])
               /\ Done(R[i].state) => CompleteFrom(R[i].path, 2)
               /\ \A m \in Msgs : Tracked(m) => (Holds(R[i], m) <=> Holds(sms[i], m))
    <2>1. RowOK(sms[i]) /\ sms[i] \in Row
      BY DEF World, RowsOK
    <2>2. CASE sms[i].path # rec.path
      <3>1. R[i] = sms[i]
        BY <1>2, <2>2
      <3>2. CompleteFrom(sms[i].path, 1) => CompleteFrom(sms[i].path, 2)
        BY DEF CompleteFrom
      <3> QED  BY <2>1, <3>1, <3>2 DEF RowOK
    <2>3. CASE sms[i].path = rec.path
      <3>1. R[i] = [sms[i] EXCEPT !.state = rec.state]
        BY <1>2, <2>3
      <3>2. /\ R[i].path = sms[i].path /\ R[i].dir = sms[i].dir /\ R[i].state = rec.state
            /\ R[i].peer = sms[i].peer /\ R[i].body = sms[i].body
            /\ R[i].stamp = sms[i].stamp /\ R[i].pushed = sms[i].pushed
        BY <2>1, <3>1 DEF Row
      <3>3. Describes(sms[i], n) /\ sms[i].path \in 1..nextPath
        BY <1>1, <2>1, <2>3 DEF RowOK
      <3>4. Done(sms[i].state) => Done(rec.state)
        BY <1>1, <2>3
      <3>5. Describes(R[i], n)
        <4>1. ~Done(rec.state) => R[i].body = None
          BY <3>2, <3>3, <3>4 DEF Describes
        <4>2. Done(rec.state) => Shows(R[i], n) \/ R[i].body = None
          BY <3>2, <3>3 DEF Describes, Shows
        <4> QED  BY <1>1, <3>2, <3>3, <4>1, <4>2 DEF Describes
      <3>6. ASSUME NEW m \in Msgs, Tracked(m) PROVE Holds(R[i], m) <=> Holds(sms[i], m)
        <4>1. Shows(R[i], m) <=> Shows(sms[i], m)
          BY <3>2 DEF Shows
        <4>2. Shows(sms[i], m) => /\ sms[i].body # None /\ sms[i].dir = "inbound"
          BY <3>6 DEF Shows, Tracked, Dir
        <4>3. Shows(sms[i], m) => Done(sms[i].state) /\ n \notin Outbound
          BY <3>3, <4>2 DEF Describes, Dir
        <4>4. Shows(sms[i], m) => sms[i].state = "received" /\ rec.state = "received"
          BY <1>1, <3>3, <3>4, <4>3 DEF Describes, Done
        <4> QED  BY <3>2, <4>1, <4>4 DEF Holds
      <3> QED  BY <1>1, <2>3, <3>2, <3>3, <3>5, <3>6
    <2> QED  BY <2>2, <2>3
  <1> QED  BY <1>2, <1>3

LEMMA RunnerPipe ==
    ASSUME TypeInv, World, History, HandleEvent
    PROVE  World' /\ OneRow' /\ Serves
  <1> USE PipeTypes
  <1>0. OneRow /\ Claims
    BY DEF History
  \* The rows that are left when the first event is taken.
  <1>1. ASSUME NEW kind, TakeEvent(kind),
               \A i \in DOMAIN sms' :
                  /\ sms'[i].path \in 1..nextPath /\ Describes(sms'[i], at[sms'[i].path])
                  /\ Done(sms'[i].state) => CompleteFrom(sms'[i].path, 2)
        PROVE  World'
    <2>1. /\ PathsOK' /\ EventsOK' /\ UNCHANGED <<nextPath, at>>
          /\ \A p : CompleteFrom(p, 2) => CompleteFrom(p, 1)'
      BY <1>1, TakeEventFacts, TakenWorld
    <2>2. RowsOK'
      BY <1>1, <2>1 DEF RowsOK, RowOK, Describes, Shows
    <2> QED  BY <2>1, <2>2 DEF World
  <1>2. ASSUME NEW kind, TakeEvent(kind), UNCHANGED <<sms, pending>>
        PROVE  World' /\ OneRow' /\ Serves
    <2>1. \A p : CompleteFrom(p, 1) => CompleteFrom(p, 2)
      BY DEF CompleteFrom
    <2>2. World'
      BY <1>1, <1>2, <2>1 DEF World, RowsOK, RowOK
    <2>3. OneRow'
      BY <1>0, <1>2 DEF OneRow, Holds, Shows
    <2>4. Serves
      BY <1>2, NothingServed, TakeEventFacts
    <2> QED  BY <2>2, <2>3, <2>4
  <1>3. CASE OnModemAdded \/ OnModemRemoved
    BY <1>2, <1>3 DEF OnModemAdded, OnModemRemoved, dbVars
  <1>4. ASSUME NEW kind \in {"SMSReceived", "SMSStateChanged"}, TakeEvent(kind),
               sms' = Insertion(events[1].rec),
               \/ UNCHANGED pending
               \/ pending' = IF MayNotify(sms, events[1].rec, simBound, modemRow)
                             THEN events[1].msg ELSE None
        PROVE  World' /\ OneRow' /\ Serves
    <2> DEFINE rec == events[1].rec
               n   == events[1].msg
    <2>1. /\ events # <<>> /\ IsSms(events[1]) /\ pending = None
          /\ UNCHANGED <<nextPath, at, notified, erased>>
      BY <1>4, TakeEventFacts DEF IsSms
    <2>2. /\ \A i \in DOMAIN sms' :
                /\ sms'[i].path \in 1..nextPath /\ Describes(sms'[i], at[sms'[i].path])
                /\ Done(sms'[i].state) => CompleteFrom(sms'[i].path, 2)
          /\ \A m \in Msgs : Tracked(m) =>
                /\ \A i, j \in DOMAIN sms' : Holds(sms'[i], m) /\ Holds(sms'[j], m) => i = j
                /\ InHistory(m) => \E i \in DOMAIN sms' : Holds(sms'[i], m)
          /\ MayNotify(sms, rec, simBound, modemRow) /\ Tracked(n) =>
                /\ ~InHistory(n)
                /\ \E i \in DOMAIN sms' : Holds(sms'[i], n)
      BY <1>0, <1>4, <2>1, InsertionTells
    <2>3. n \in Msgs
      BY <2>1, FirstEvent
    <2> HIDE DEF rec, n
    <2>4. World'
      BY <1>1, <1>4, <2>2
    <2>5. OneRow'
      BY <2>2 DEF OneRow, Holds, Shows
    <2>6. \A m \in Msgs : Tracked(m) => (InHistory(m) => InHistory(m)')
      BY <2>2 DEF InHistory, Holds, Shows
    <2>7. CASE pending' = None
      BY <2>1, <2>4, <2>5, <2>6, <2>7 DEF Serves
    <2>8. CASE pending' # None
      <3>1. pending' = n /\ MayNotify(sms, rec, simBound, modemRow)
        BY <1>4, <2>1, <2>8 DEF rec, n
      <3> QED  BY <2>1, <2>2, <2>3, <2>4, <2>5, <2>6, <3>1 DEF Serves
    <2> QED  BY <2>4, <2>5, <2>7, <2>8
  <1>5. CASE OnSmsReceived
    <2>1. TakeEvent("SMSReceived") /\ Head(events) = events[1]
      BY <1>5, TakeEventFacts DEF OnSmsReceived
    <2>2. CASE UNCHANGED <<pending, dbVars>>
      BY <1>2, <2>1, <2>2 DEF dbVars
    <2> QED  BY <1>4, <1>5, <2>1, <2>2 DEF OnSmsReceived
  <1>6. CASE OnSmsStateChanged
    <2> DEFINE rec == events[1].rec
    <2>1. /\ TakeEvent("SMSStateChanged") /\ Head(events) = events[1] /\ UNCHANGED pending
          /\ events # <<>> /\ IsSms(events[1]) /\ UNCHANGED <<notified, erased>>
      BY <1>6, TakeEventFacts DEF OnSmsStateChanged, IsSms
    <2>2. CASE sms' = Upserted(rec)
      <3>1. StateUpdated(Insertion(rec), rec.path, rec.state) = Insertion(rec)
        BY <1>0, <2>1, InsertionTells
      <3>2. sms' = Insertion(rec)
        BY <2>2, <3>1 DEF Upserted
      <3> QED  BY <1>4, <2>1, <3>2
    <2>3. CASE sms' = sms
      BY <1>2, <2>1, <2>3
    <2>4. CASE sms' = StateUpdated(sms, rec.path, rec.state)
      <3>1. /\ \A i \in DOMAIN sms' :
                  /\ sms'[i].path \in 1..nextPath /\ Describes(sms'[i], at[sms'[i].path])
                  /\ Done(sms'[i].state) => CompleteFrom(sms'[i].path, 2)
            /\ DOMAIN sms' = DOMAIN sms
            /\ \A i \in DOMAIN sms', m \in Msgs :
                  Tracked(m) => (Holds(sms'[i], m) <=> Holds(sms[i], m))
        BY <1>0, <2>1, <2>4, StateOnlyTells
      <3>2. World'
        BY <1>1, <2>1, <3>1
      <3>3. OneRow'
        BY <1>0, <3>1 DEF OneRow, Holds, Shows
      <3>4. \A m \in Msgs : Tracked(m) => (InHistory(m) => InHistory(m)')
        BY <3>1 DEF InHistory, Holds, Shows
      <3>5. Serves
        BY <2>1, <3>4 DEF Serves
      <3> QED  BY <3>2, <3>3, <3>5
    <2> QED  BY <1>6, <2>1, <2>2, <2>3, <2>4 DEF OnSmsStateChanged
  <1>7. CASE Fanout
    <2>1. /\ pending \in Msgs /\ pending' = None
          /\ notified' = [notified EXCEPT ![pending] = @ + 1]
          /\ UNCHANGED <<nextPath, at, exported, phase, sms, events, erased>>
      BY <1>7 DEF Fanout, mmVars, dbVars
    <2>2. PathsOK'
      BY <2>1 DEF World, PathsOK
    <2>3. World'
      BY <2>1, <2>2, MMMoves
    <2>4. OneRow'
      BY <1>0, <2>1 DEF OneRow, Holds, Shows
    <2>5. Serves
      BY <2>1 DEF Serves, InHistory, Holds, Shows
    <2> QED  BY <2>3, <2>4, <2>5
  <1> QED  BY <1>3, <1>5, <1>6, <1>7 DEF HandleEvent

(* Requests: on the modem a message goes with its path; in the table a row *)
(* goes, and what it showed is erased.                                     *)
LEMMA RequestPipe ==
    ASSUME TypeInv, World, History, Request
    PROVE  World' /\ OneRow' /\ Serves
  <1> USE PipeTypes
  <1>0. OneRow /\ PathsOK
    BY DEF History, World
  <1>1. CASE DeleteOnModem
    <2>1. UNCHANGED <<nextPath, at, events, sms, pending, notified, erased>>
      BY <1>1 DEF DeleteOnModem, runVars, historyVars
    <2>2. \/ UNCHANGED <<exported, phase>>
          \/ \E p \in exported : /\ exported' = exported \ {p}
                                 /\ phase' = [phase EXCEPT ![at[p]] = "gone"]
      BY <1>1 DEF DeleteOnModem, CallOk
    <2>3. \A q \in exported' : q \in exported /\ phase'[at[q]] = phase[at[q]]
      <3>1. CASE UNCHANGED <<exported, phase>>
        BY <3>1
      <3>2. ASSUME NEW p \in exported, exported' = exported \ {p},
                   phase' = [phase EXCEPT ![at[p]] = "gone"]
            PROVE  \A q \in exported' : q \in exported /\ phase'[at[q]] = phase[at[q]]
        BY <1>0, <3>2 DEF PathsOK
      <3> QED  BY <2>2, <3>1, <3>2
    <2>4. PathsOK'
      BY <1>0, <2>1, <2>3 DEF PathsOK
    <2>5. World'
      BY <2>1, <2>3, <2>4, MMMoves
    <2>6. OneRow'
      BY <1>0, <2>1 DEF OneRow, Holds, Shows
    <2> QED  BY <2>1, <2>5, <2>6, NothingServed
  <1>2. CASE DeleteRow
    <2>1. /\ UNCHANGED <<nextPath, at, exported, phase, events, pending, notified>>
          /\ \/ UNCHANGED <<sms, erased>>
             \/ /\ deleting.id \in DOMAIN sms /\ sms' = WithoutRow(sms, deleting.id)
                /\ erased' = erased \cup {m \in Msgs : Shows(sms[deleting.id], m)}
      BY <1>2 DEF DeleteRow, mmVars
    <2>2. \A i \in DOMAIN sms' : i \in DOMAIN sms /\ sms'[i] = sms[i]
      BY <2>1 DEF WithoutRow
    <2>3. PathsOK' /\ EventsOK'
      BY <2>1 DEF World, PathsOK, EventsOK, EventOK, Faithful, CompleteFrom
    <2>4. RowsOK'
      <3>1. \A i \in DOMAIN sms' : RowOK(sms[i])
        BY <2>2 DEF World, RowsOK
      <3> QED  BY <2>1, <2>2, <3>1 DEF RowsOK, RowOK, Describes, Shows, CompleteFrom
    <2>5. OneRow'
      BY <1>0, <2>2 DEF OneRow, Holds, Shows
    <2>6. ASSUME NEW m \in Msgs, Tracked(m)
          PROVE  /\ InHistory(m) /\ m \notin erased' => InHistory(m)'
                 /\ m \in erased' \ erased => InHistory(m)
                 /\ m \in erased => m \in erased'
      <3>1. CASE UNCHANGED <<sms, erased>>
        BY <3>1 DEF InHistory, Holds, Shows
      <3>2. CASE /\ deleting.id \in DOMAIN sms /\ sms' = WithoutRow(sms, deleting.id)
                 /\ erased' = erased \cup {n \in Msgs : Shows(sms[deleting.id], n)}
        <4>1. ASSUME NEW j \in DOMAIN sms, Holds(sms[j], m), m \notin erased'
              PROVE  j \in DOMAIN sms' /\ Holds(sms'[j], m)
          <5>1. j # deleting.id
            BY <3>2, <4>1 DEF Holds
          <5>2. j \in DOMAIN sms' /\ sms'[j] = sms[j]
            BY <3>2, <5>1 DEF WithoutRow
          <5> QED  BY <4>1, <5>2 DEF Holds, Shows
        <4>2. InHistory(m) /\ m \notin erased' => InHistory(m)'
          BY <4>1 DEF InHistory, Holds, Shows
        <4>3. ASSUME m \in erased' \ erased PROVE InHistory(m)
          <5>1. Shows(sms[deleting.id], m) /\ RowOK(sms[deleting.id])
            BY <3>2, <4>3 DEF World, RowsOK
          <5>2. Holds(sms[deleting.id], m)
            BY <2>6, <5>1 DEF Holds, Shows, RowOK, Describes, Done, Tracked, Dir
          <5> QED  BY <3>2, <5>2 DEF InHistory
        <4> QED  BY <3>2, <4>2, <4>3
      <3> QED  BY <2>1, <3>1, <3>2
    <2>7. Serves
      BY <2>1, <2>6 DEF Serves
    <2> QED  BY <2>3, <2>4, <2>5, <2>7 DEF World
  <1>3. ASSUME NEW i \in DOMAIN sms, ReadRow(i)
        PROVE  World' /\ OneRow' /\ Serves
    <2>1. UNCHANGED <<nextPath, at, exported, phase, events, sms, pending, notified, erased>>
      BY <1>3 DEF ReadRow, mmVars, runVars, historyVars
    <2>2. PathsOK'
      BY <1>0, <2>1 DEF PathsOK
    <2>3. World'
      BY <2>1, <2>2, MMMoves
    <2>4. OneRow'
      BY <1>0, <2>1 DEF OneRow, Holds, Shows
    <2> QED  BY <2>1, <2>3, <2>4, NothingServed
  <1> QED  BY <1>1, <1>2, <1>3 DEF Request

(* A crash empties the channel: nothing is to come of any path.            *)
LEMMA CrashPipe ==
    ASSUME TypeInv, World, History, Crash
    PROVE  World' /\ OneRow' /\ Serves
  <1> USE PipeTypes
  <1>1. /\ UNCHANGED <<nextPath, at, exported, phase, sms, notified, erased>>
        /\ events' = <<>> /\ pending' = None
    BY DEF Crash, mmVars, dbVars, historyVars
  <1>2. DOMAIN events' = {}
    BY <1>1
  <1>3. PathsOK' /\ EventsOK'
    BY <1>1, <1>2 DEF World, PathsOK, EventsOK
  <1>4. \A p : CompleteFrom(p, 1) => CompleteFrom(p, 1)'
    BY <1>1, <1>2 DEF CompleteFrom
  <1>5. RowsOK'
    BY <1>1, <1>4 DEF World, RowsOK, RowOK, Describes, Shows
  <1>6. OneRow'
    BY <1>1 DEF History, OneRow, Holds, Shows
  <1>7. Serves
    BY <1>1 DEF Serves, InHistory, Holds, Shows
  <1> QED  BY <1>3, <1>5, <1>6, <1>7 DEF World

LEMMA PipeInvInit == Init => PipeInv
  <1> SUFFICES ASSUME Init PROVE PipeInv
    OBVIOUS
  <1>1. /\ nextPath = 0 /\ exported = {} /\ events = <<>> /\ sms = EmptyTable
        /\ notified = [m \in Msgs |-> 0] /\ pending = None
    BY DEF Init
  <1>2. DOMAIN events = {} /\ DOMAIN sms = {} /\ 1..nextPath = {}
    BY <1>1 DEF EmptyTable
  <1>3. World
    BY <1>1, <1>2 DEF World, PathsOK, EventsOK, RowsOK
  <1>4. OneRow
    BY <1>2 DEF OneRow
  <1>5. Claims
    BY <1>1, MsgsAssumption DEF Claims
  <1> QED  BY <1>3, <1>4, <1>5 DEF PipeInv, History

(* Every step, while MM has not restarted.                                 *)
LEMMA PipeStep ==
    ASSUME TypeInv, PipeInv, [Next]_vars
    PROVE  PipeInv' /\ (mmRestarts' = 0 => mmRestarts = 0 /\ Serves)
  <1>1. CASE Environment
    <2>1. /\ UNCHANGED <<sms, pending, notified, erased>>
          /\ mmRestarts' = 0 => mmRestarts = 0
      BY <1>1, PipeTypes DEF Environment, ModemAppears, ModemLeaves, MMRestart, Arrive,
           Reexport, Export, Complete, Age, runVars, historyVars, boundVars
    <2> QED  BY <1>1, <2>1, EnvironmentPipe, NothingServed
  <1>2. CASE Provider
    <2>1. UNCHANGED <<sms, pending, notified, erased, mmRestarts>>
      BY <1>2, ProviderEmits
    <2> QED  BY <1>2, <2>1, ProviderPipe, NothingServed
  <1>3. CASE HandleEvent \/ Request \/ Crash
    <2>1. UNCHANGED mmRestarts
      BY <1>3 DEF HandleEvent, OnModemAdded, OnModemRemoved, OnSmsReceived,
           OnSmsStateChanged, Fanout, TakeEvent, Request, ReadRow, DeleteOnModem,
           DeleteRow, Crash, boundVars
    <2> SUFFICES ASSUME mmRestarts' = 0 PROVE World' /\ History' /\ Serves
      BY <2>1 DEF PipeInv
    <2>2. World /\ History /\ Claims
      BY <2>1 DEF PipeInv, History
    <2>3. World' /\ OneRow' /\ Serves
      BY <1>3, <2>2, RunnerPipe, RequestPipe, CrashPipe
    <2> QED  BY <2>2, <2>3, ClaimsKept DEF History
  <1>4. CASE UNCHANGED vars
    <2>1. UNCHANGED <<nextPath, at, exported, phase, events, sms, pending, notified,
                      erased, mmRestarts>>
      BY <1>4 DEF vars, mmVars, dbVars, boundVars, historyVars
    <2>2. Serves
      BY <2>1, NothingServed
    <2>3. PipeInv'
      BY <2>1 DEF PipeInv, World, PathsOK, EventsOK, EventOK, Faithful, CompleteFrom,
           RowsOK, RowOK, Describes, Shows, History, OneRow, Claims, InHistory, Holds
    <2> QED  BY <2>1, <2>2, <2>3
  <1> QED  BY <1>1, <1>2, <1>3, <1>4 DEF Next

(* While MM has not restarted a path belongs to one message, the events    *)
(* and the rows tell of the message at their path, a complete message      *)
(* stays complete in all that follows, and a message with an identity is   *)
(* in one row, which answers for its announcement.                         *)
THEOREM PipelineInvariance == Spec => [](TypeInv /\ PipeInv)
  <1>1. TypeInv /\ PipeInv /\ [Next]_vars => (TypeInv /\ PipeInv)'
    BY TypeInvNext, PipeStep
  <1> QED  BY <1>1, TypeInvInit, PipeInvInit, PTL DEF Spec

(* A tracked message of the history is one that was dealt with: its row is *)
(* marked pushed, whichever path it came in by.                            *)
LEMMA HandledIsHistory ==
    ASSUME World, NEW m \in Msgs, Tracked(m)
    PROVE  InHistory(m) <=> Handled(m)
  <1>1. ASSUME NEW i \in DOMAIN sms, Holds(sms[i], m) PROVE sms[i].pushed
    <2>1. sms[i].dir = "inbound" /\ sms[i].body # None
      BY <1>1 DEF Holds, Shows, Tracked, Dir
    <2> QED  BY <2>1 DEF World, RowsOK, RowOK, Describes
  <1> QED  BY <1>1 DEF InHistory, Handled

(* No message is announced twice, however its paths drift and however      *)
(* often it is read: the row that took the claim is still there to refuse  *)
(* the next one (runner.go:234).                                           *)
THEOREM AnnouncedAtMostOnce == Spec => []NotifiedAtMostOnce
  <1>1. TypeInv /\ PipeInv => NotifiedAtMostOnce
    BY DEF PipeInv, History, Claims, NotifiedAtMostOnce
  <1> QED  BY <1>1, PipelineInvariance, PTL

(* What was announced, or is about to be, can be read in the history.      *)
THEOREM AnnouncedIsInHistory == Spec => []NotifiedIsInHistory
  <1>1. TypeInv /\ PipeInv => NotifiedIsInHistory
    BY HandledIsHistory DEF PipeInv, History, Claims, NotifiedIsInHistory
  <1> QED  BY <1>1, PipelineInvariance, PTL

(* A received message leaves the history only by the hand of the user: no  *)
(* event of another message takes its row, no read sets its state back,    *)
(* and the merge of two rows leaves one that shows it.                     *)
THEOREM HistoryKept == Spec => HistoryIsKept
  <1>1. TypeInv /\ PipeInv /\ [Next]_vars =>
          [\A m \in Msgs :
              mmRestarts' = 0 /\ Tracked(m) /\ InHistory(m) /\ m \notin erased'
              => InHistory(m)']_vars
    BY PipeStep DEF Serves
  <1> QED  BY <1>1, PipelineInvariance, PTL DEF Spec, HistoryIsKept

-----------------------------------------------------------------------------
(* A request.  Between its steps events are filed, rows merged and claimed *)
(* and paths handed out; none of it turns a row to another message.        *)

(* insertSMS leaves a row with the content it has; a row without one stays *)
(* at its path, and what it gets is that of the message there.             *)
LEMMA InsertionKeepsContent ==
    ASSUME TypeInv, World, OneRow, events # <<>>, IsSms(events[1]),
           NEW R, R = Insertion(events[1].rec), NEW i \in DOMAIN R, i \in 1..lastId
    PROVE  /\ i \in DOMAIN sms
           /\ sms[i].body # None => /\ R[i].dir = sms[i].dir /\ R[i].peer = sms[i].peer
                                    /\ R[i].body = sms[i].body /\ R[i].stamp = sms[i].stamp
           /\ sms[i].body = None =>
                 /\ R[i].path = sms[i].path
                 /\ R[i].body # None => Shows(R[i], at[sms[i].path])
  <1> USE PipeTypes
  <1> DEFINE rec == events[1].rec
             n   == events[1].msg
             content == ContentDuplicate(sms, rec, simBound, modemRow)
  <1>1. /\ n = at[rec.path] /\ rec \in Record /\ rec.dir = Dir(n)
        /\ ~Done(rec.state) => rec.body = None
        /\ Done(rec.state) => /\ rec.peer = Peer[n] /\ rec.body = Body[n]
                              /\ rec.stamp = Stamp[n]
        /\ Candidate(rec) => rec.dir = "inbound"
        /\ \A j \in DOMAIN sms :
              sms[j].path = rec.path /\ Done(sms[j].state) => Done(rec.state)
    BY FirstEvent DEF Candidate
  <1> HIDE DEF rec, n
  <1>2. lastId \in Nat /\ lastId + 1 \notin DOMAIN sms
    BY TypeInvTable DEF TableOK, TypeInv, TypeOK, DbTypeOK
  <1>3. PICK k \in DOMAIN R : Written(sms, R, k, lastId + 1, rec, simBound, modemRow)
    <2>1. Table(sms) /\ UniquePaths(sms)
      BY TypeInvTable DEF TableOK
    <2>2. simBound \in Sims \cup {None} /\ modemRow \in BOOLEAN
      BY DEF TypeInv, TypeOK, DbTypeOK
    <2> QED  BY <1>1, <1>2, <2>1, <2>2, InsertedShape DEF Insertion, rec
  <1>4. CASE i # k
    BY <1>3, <1>4 DEF Written
  <1>5. CASE i = k
    <2>1. i \in DOMAIN sms
      BY <1>2, <1>3, <1>5 DEF Written
    <2>2. /\ R[i].path = rec.path /\ R[i].dir = rec.dir
          /\ R[i].state = rec.state /\ R[i].peer = rec.peer
          /\ sms[i].path = rec.path \/ i \in content
          /\ R[i].body = IF rec.body # None THEN rec.body ELSE sms[i].body
          /\ R[i].stamp = IF rec.stamp # None THEN rec.stamp ELSE sms[i].stamp
      BY <1>3, <1>5, <2>1 DEF Written
    <2>3. CASE i \in content
      <3>1. /\ rec.body # None /\ sms[i].peer = rec.peer /\ sms[i].body = rec.body
            /\ rec.stamp # None => sms[i].stamp = rec.stamp
            /\ sms[i].dir = "inbound" /\ rec.dir = "inbound"
        BY <1>1, <2>3, ContentDuplicateSound DEF SameContent
      <3> QED  BY <2>1, <2>2, <3>1
    <2>4. CASE sms[i].path = rec.path
      <3>1. Describes(sms[i], n)
        BY <1>1, <2>1, <2>4 DEF World, RowsOK, RowOK
      <3>2. CASE sms[i].body # None
        <4>1. Done(sms[i].state) /\ Shows(sms[i], n) /\ Done(rec.state)
          BY <1>1, <2>1, <2>4, <3>1, <3>2 DEF Describes
        <4> QED  BY <1>1, <2>1, <2>2, <3>2, <4>1 DEF Shows
      <3>3. CASE sms[i].body = None
        <4>1. Describes(R[i], at[R[i].path])
          BY InsertionTells
        <4>2. R[i].body # None => Shows(R[i], at[sms[i].path])
          BY <2>2, <2>4, <4>1 DEF Describes
        <4> QED  BY <2>1, <2>2, <2>4, <3>3, <4>2
      <3> QED  BY <3>2, <3>3
    <2> QED  BY <2>2, <2>3, <2>4
  <1> QED  BY <1>4, <1>5

\* What a step leaves of the row a request has read.
Keeps(i) == i \in DOMAIN sms' =>
    /\ i \in DOMAIN sms
    /\ sms[i].body # None => /\ sms'[i].dir = sms[i].dir /\ sms'[i].peer = sms[i].peer
                             /\ sms'[i].body = sms[i].body /\ sms'[i].stamp = sms[i].stamp
    /\ sms[i].body = None => /\ sms'[i].path = sms[i].path
                             /\ sms'[i].body # None => Shows(sms'[i], at[sms[i].path])

LEMMA RunnerKeeps ==
    ASSUME TypeInv, World, OneRow, HandleEvent, NEW i \in 1..lastId
    PROVE  Keeps(i) /\ i \in 1..lastId'
  <1>0. lastId \in Nat
    BY DEF TypeInv, TypeOK, DbTypeOK
  <1>1. i \in 1..lastId'
    <2>1. lastId' = lastId \/ lastId' = lastId + 1
      BY DEF HandleEvent, OnModemAdded, OnModemRemoved, OnSmsReceived, OnSmsStateChanged,
             Fanout, NextId, dbVars
    <2> QED  BY <1>0, <2>1
  <1>2. CASE UNCHANGED sms
    BY <1>1, <1>2 DEF Keeps
  <1>3. ASSUME NEW kind \in {"SMSReceived", "SMSStateChanged"}, TakeEvent(kind),
               sms' = Insertion(Head(events).rec)
        PROVE  Keeps(i)
    <2>1. events # <<>> /\ IsSms(events[1]) /\ Head(events) = events[1]
      BY <1>3, TakeEventFacts DEF IsSms
    <2> QED  BY <1>3, <2>1, InsertionKeepsContent DEF Keeps
  <1>4. ASSUME TakeEvent("SMSStateChanged"), sms' = Upserted(Head(events).rec)
        PROVE  Keeps(i)
    <2>1. events # <<>> /\ IsSms(events[1]) /\ Head(events) = events[1]
      BY <1>4, TakeEventFacts DEF IsSms
    <2>2. sms' = Insertion(Head(events).rec)
      BY <1>4, <2>1, InsertionTells DEF Upserted
    <2> QED  BY <1>3, <1>4, <2>2
  <1>5. ASSUME NEW p, NEW s, sms' = StateUpdated(sms, p, s)
        PROVE  Keeps(i)
    <2>1. DOMAIN sms' = DOMAIN sms
      BY <1>5 DEF StateUpdated
    <2>2. \A j \in DOMAIN sms :
             /\ sms'[j].dir = sms[j].dir /\ sms'[j].peer = sms[j].peer
             /\ sms'[j].body = sms[j].body /\ sms'[j].stamp = sms[j].stamp
             /\ sms'[j].path = sms[j].path
      BY <1>5, PipeTypes DEF StateUpdated, Row
    <2> QED  BY <2>1, <2>2 DEF Keeps
  <1> QED  BY <1>1, <1>2, <1>3, <1>4, <1>5
           DEF HandleEvent, OnModemAdded, OnModemRemoved, OnSmsReceived,
               OnSmsStateChanged, Fanout, dbVars

(* A path handed out keeps its message.                                    *)
LEMMA PathsKeep ==
    ASSUME TypeInv, [Next]_vars, mmRestarts' = 0, NEW p \in 1..nextPath
    PROVE  p \in 1..nextPath' /\ at'[p] = at[p]
  <1> USE PipeTypes
  <1>1. \/ UNCHANGED <<at, nextPath>>
        \/ \E m \in Msgs : /\ nextPath' = nextPath + 1
                           /\ at' = [at EXCEPT ![nextPath'] = m]
    BY ProviderEmits
    DEF Next, Environment, ModemAppears, ModemLeaves, MMRestart, Arrive, Reexport,
        Export, Complete, Age, HandleEvent, OnModemAdded, OnModemRemoved,
        OnSmsReceived, OnSmsStateChanged, Fanout, TakeEvent, Request, ReadRow,
        DeleteOnModem, DeleteRow, Crash, mmVars, vars
  <1> QED  BY <1>1

(* The row that a request has read is of the same message to the end.      *)
LEMMA AskedStep ==
    ASSUME TypeInv, PipeInv, Asked, [Next]_vars
    PROVE  Asked'
  <1> USE PipeTypes
  <1> SUFFICES ASSUME mmRestarts' = 0, deleting'.at # "idle" PROVE Asked'
    BY DEF Asked
  <1>1. mmRestarts = 0 /\ World /\ OneRow
    BY PipeStep DEF PipeInv, History
  <1>2. \A p \in 1..nextPath : p \in 1..nextPath' /\ at'[p] = at[p]
    BY PathsKeep
  <1>3. ASSUME NEW i \in DOMAIN sms, ReadRow(i) PROVE Asked'
    <2>1. /\ deleting'.id = i /\ deleting'.row = sms[i]
          /\ UNCHANGED <<sms, lastId, at, nextPath>>
      BY <1>3 DEF ReadRow, mmVars, runVars
    <2>2. RowOK(sms[i])
      BY <1>1 DEF World, RowsOK
    <2>3. i \in 1..lastId
      BY DEF TypeInv, TypeOK, DbTypeOK
    <2> QED  BY <2>1, <2>2, <2>3 DEF Asked, SameMessage, RowOK, Describes, Shows
  <1>4. CASE DeleteRow \/ Crash
    BY <1>4 DEF DeleteRow, Crash, NoRequest
  <1>5. ASSUME deleting.at # "idle", deleting'.id = deleting.id,
               deleting'.row = deleting.row,
               deleting.id \in 1..lastId => Keeps(deleting.id) /\ deleting.id \in 1..lastId'
        PROVE  Asked'
    <2> DEFINE rec == deleting.row
               i   == deleting.id
    <2>1. /\ rec.path \in 1..nextPath
          /\ rec.body # None => Shows(rec, at[rec.path])
          /\ i \in 1..lastId
          /\ i \in DOMAIN sms => SameMessage(rec, sms[i], at[rec.path])
      BY <1>1, <1>5 DEF Asked
    <2>2. rec.path \in 1..nextPath' /\ at'[rec.path] = at[rec.path]
      BY <1>2, <2>1
    <2>3. Keeps(i) /\ i \in 1..lastId'
      BY <1>5, <2>1
    <2> HIDE DEF rec, i
    <2>4. ASSUME i \in DOMAIN sms' PROVE SameMessage(rec, sms'[i], at'[rec.path])
      <3>1. i \in DOMAIN sms /\ SameMessage(rec, sms[i], at[rec.path])
        BY <2>1, <2>3, <2>4 DEF Keeps
      <3>2. CASE sms[i].body # None
        <4>1. /\ sms'[i].dir = sms[i].dir /\ sms'[i].peer = sms[i].peer
              /\ sms'[i].body = sms[i].body /\ sms'[i].stamp = sms[i].stamp
          BY <2>3, <2>4, <3>2 DEF Keeps
        <4> QED  BY <2>2, <3>1, <3>2, <4>1 DEF SameMessage, Shows
      <3>3. CASE sms[i].body = None /\ rec.body = None
        <4>1. /\ sms'[i].path = sms[i].path /\ sms[i].path = rec.path
              /\ sms'[i].body # None => Shows(sms'[i], at[sms[i].path])
          BY <2>3, <2>4, <3>1, <3>3 DEF Keeps, SameMessage
        <4> QED  BY <2>2, <3>3, <4>1 DEF SameMessage, Shows
      <3> QED  BY <3>1, <3>2, <3>3 DEF SameMessage
    <2>5. rec.body # None => Shows(rec, at'[rec.path])
      BY <2>1, <2>2
    <2> QED  BY <1>5, <2>2, <2>3, <2>4, <2>5 DEF Asked, Shows, rec, i
  <1>6. CASE DeleteOnModem
    <2>1. /\ deleting' = [deleting EXCEPT !.at = "table"] /\ deleting.at = "modem"
          /\ UNCHANGED <<sms, lastId>>
      BY <1>6 DEF DeleteOnModem, runVars
    <2>2. deleting \in [at : {"modem", "table"}, id : Nat, row : Row]
      BY <2>1 DEF TypeInv, TypeOK, DbTypeOK, NoRequest
    <2>3. deleting'.id = deleting.id /\ deleting'.row = deleting.row
      BY <2>1, <2>2
    <2>4. Keeps(deleting.id)
      BY <2>1 DEF Keeps
    <2> QED  BY <1>5, <2>1, <2>3, <2>4
  <1>7. CASE HandleEvent
    <2>1. UNCHANGED deleting
      BY <1>7 DEF HandleEvent, OnModemAdded, OnModemRemoved, OnSmsReceived,
           OnSmsStateChanged, Fanout, TakeEvent
    <2> QED  BY <1>1, <1>5, <1>7, <2>1, RunnerKeeps
  <1>8. CASE Environment \/ Provider \/ UNCHANGED vars
    <2>1. UNCHANGED <<deleting, sms, lastId>>
      BY <1>8 DEF Environment, ModemAppears, ModemLeaves, MMRestart, Arrive, Reexport,
           Export, Complete, Age, Provider, Start, GetManagedObjects, ListSms,
           ReadListed, EndReconcile, HandleSignal, OnInterfacesAdded,
           OnInterfacesRemoved, OnMessagingAdded, OnMessagingDeleted,
           OnSmsPropsChanged, TakeSignal, runVars, dbVars, vars
    <2>2. Keeps(deleting.id)
      BY <2>1 DEF Keeps
    <2> QED  BY <1>5, <2>1, <2>2
  <1> QED  BY <1>3, <1>4, <1>6, <1>7, <1>8 DEF Next, Request

(* What goes on the modem is the message at the path the request has read. *)
LEMMA ModemDeletionStep ==
    ASSUME TypeInv, PipeInv, Asked, Next, NEW m \in Msgs, mmRestarts' = 0,
           phase[m] # "gone", phase'[m] = "gone"
    PROVE  IsAsked(m)
  <1> USE PipeTypes
  <1>1. CASE Environment
    <2>1. \/ UNCHANGED phase
          \/ \E n \in Msgs : \E ph \in {"partial", "complete"} : phase' = [phase EXCEPT ![n] = ph]
      BY <1>1 DEF Environment, ModemAppears, ModemLeaves, MMRestart, Arrive, Reexport,
           Export, Complete, Age
    <2> QED  BY <2>1
  <1>2. CASE Provider \/ HandleEvent \/ DeleteRow \/ Crash \/ \E i \in DOMAIN sms : ReadRow(i)
    <2>1. UNCHANGED phase
      BY <1>2, ProviderEmits DEF HandleEvent, OnModemAdded, OnModemRemoved, OnSmsReceived,
           OnSmsStateChanged, Fanout, TakeEvent, ReadRow, DeleteRow, Crash, mmVars
    <2> QED  BY <2>1
  <1>3. CASE DeleteOnModem
    <2> DEFINE p == deleting.row.path
    <2>1. /\ deleting.at # "idle" /\ mmRestarts = 0
          /\ phase' = [phase EXCEPT ![at[p]] = "gone"]
      BY <1>3 DEF DeleteOnModem, CallOk, ExtId
    <2>2. at[p] = m
      BY <2>1
    <2> QED  BY <2>1, <2>2 DEF Asked, IsAsked, Alike
  <1> QED  BY <1>1, <1>2, <1>3 DEF Next, Request

(* What goes from the table is of that message, too.                       *)
LEMMA TableDeletionStep ==
    ASSUME TypeInv, PipeInv, Asked, Next, NEW m \in Msgs, mmRestarts' = 0,
           deleting.at = "table", Tracked(m),
           deleting.id \in DOMAIN sms \ DOMAIN sms', Holds(sms[deleting.id], m)
    PROVE  IsAsked(m)
  <1> DEFINE rec == deleting.row
             r   == sms[deleting.id]
             n   == at[rec.path]
  <1>0. mmRestarts = 0 /\ PathsOK /\ deleting.at # "idle"
    BY PipeStep DEF PipeInv, World
  <1>1. SameMessage(rec, r, n)
    BY <1>0 DEF Asked
  <1>2. /\ r.dir = Dir(m) /\ r.peer = Peer[m] /\ r.body = Body[m]
        /\ r.stamp = Stamp[m] /\ Stamp[m] # None /\ Body[m] # None /\ m \notin Outbound
    BY DEF Holds, Shows, Tracked
  <1>3. CASE rec.body # None
    BY <1>1, <1>2, <1>3 DEF SameMessage, IsAsked, Shows
  <1>4. CASE rec.body = None
    <2>1. Shows(r, n)
      BY <1>1, <1>2, <1>4 DEF SameMessage
    <2>2. /\ Dir(n) = Dir(m) /\ Peer[n] = Peer[m] /\ Body[n] = Body[m]
          /\ Stamp[n] # None => Stamp[n] = Stamp[m]
      BY <1>2, <2>1 DEF Shows
    <2>3. n \in Msgs \ Outbound => Stamp[n] # None
      BY <2>2 DEF Tracked
    <2>4. n \in Msgs
      BY <1>0 DEF Asked, PathsOK
    <2>5. n \notin Outbound
      BY <1>2, <2>2 DEF Dir
    <2> QED  BY <1>4, <2>2, <2>3, <2>4, <2>5 DEF IsAsked, Alike
  <1> QED  BY <1>3, <1>4

(* DELETE removes the message that the row showed when it was read, and no *)
(* other, on the modem as in the table, whatever is filed, merged, handed  *)
(* out or forgotten between its three steps (httpapi/sms.go:184-201).      *)
THEOREM DeletesWhatIsShown == Spec => DeletesTheMessageShown
  <1>1. Init => Asked
    BY DEF Init, Asked, NoRequest
  <1>2. TypeInv /\ PipeInv /\ Asked /\ [Next]_vars => Asked'
    BY AskedStep
  <1>3. TypeInv /\ PipeInv /\ Asked /\ [Next]_vars =>
          [\A m \in Msgs :
              /\ mmRestarts' = 0
              /\ \/ phase[m] # "gone" /\ phase'[m] = "gone"
                 \/ /\ deleting.at = "table" /\ Tracked(m)
                    /\ deleting.id \in DOMAIN sms \ DOMAIN sms'
                    /\ Holds(sms[deleting.id], m)
              => IsAsked(m)]_vars
    BY ModemDeletionStep, TableDeletionStep
  <1> QED  BY <1>1, <1>2, <1>3, PipelineInvariance, PTL DEF Spec, DeletesTheMessageShown

-----------------------------------------------------------------------------
(* As long as no transaction fails, a complete row shows the message at    *)
(* its path.                                                               *)
Whole == mmRestarts = 0 /\ dbFaults = 0 =>
            \A i \in DOMAIN sms : Done(sms[i].state) => Shows(sms[i], at[sms[i].path])

LEMMA WholeStep ==
    ASSUME TypeInv, PipeInv, Whole, [Next]_vars
    PROVE  Whole'
  <1> USE PipeTypes
  <1> SUFFICES ASSUME mmRestarts' = 0, dbFaults' = 0,
                      NEW i \in DOMAIN sms', Done(sms'[i].state)
               PROVE  Shows(sms'[i], at'[sms'[i].path])
    BY DEF Whole, Shows
  <1>1. dbFaults = 0
    <2>1. CASE Environment \/ Crash \/ UNCHANGED vars
      BY <2>1 DEF Environment, ModemAppears, ModemLeaves, MMRestart, Arrive, Reexport,
           Export, Complete, Age, Crash, boundVars, vars
    <2>4. CASE Request
      <3>1. dbFaults' = dbFaults \/ dbFaults' = dbFaults + 1
        BY <2>4 DEF Request, ReadRow, DeleteOnModem, DeleteRow, DbFails
      <3> QED  BY <3>1
    <2>2. CASE Provider
      BY <2>2 DEF Provider, Start, GetManagedObjects, ListSms, ReadListed, EndReconcile,
           HandleSignal, OnInterfacesAdded, OnInterfacesRemoved, OnMessagingAdded,
           OnMessagingDeleted, OnSmsPropsChanged, TakeSignal, boundVars
    <2>3. CASE HandleEvent
      <3>1. dbFaults' = dbFaults \/ dbFaults' = dbFaults + 1
        BY <2>3 DEF HandleEvent, OnModemAdded, OnModemRemoved, OnSmsReceived,
             OnSmsStateChanged, Fanout, DbFails, boundVars
      <3> QED  BY <3>1
    <2> QED  BY <2>1, <2>2, <2>3, <2>4 DEF Next
  <1>2. mmRestarts = 0 /\ World /\ OneRow
    BY PipeStep DEF PipeInv, History
  <1>3. \A j \in DOMAIN sms : /\ Done(sms[j].state) => Shows(sms[j], at[sms[j].path])
                              /\ sms[j].path \in 1..nextPath
    BY <1>1, <1>2 DEF Whole, World, RowsOK, RowOK
  <1>4. \A p \in 1..nextPath : at'[p] = at[p]
    <2>1. \/ UNCHANGED at
          \/ \E m \in Msgs : /\ nextPath' = nextPath + 1
                             /\ at' = [at EXCEPT ![nextPath'] = m]
      BY ProviderEmits
      DEF Next, Environment, ModemAppears, ModemLeaves, MMRestart, Arrive, Reexport,
          Export, Complete, Age, HandleEvent, OnModemAdded, OnModemRemoved,
          OnSmsReceived, OnSmsStateChanged, Fanout, TakeEvent, Request, ReadRow,
          DeleteOnModem, DeleteRow, Crash, mmVars, vars
    <2> QED  BY <2>1
  <1>5. ASSUME i \in DOMAIN sms, sms'[i] = sms[i]
        PROVE  Shows(sms'[i], at'[sms'[i].path])
    BY <1>3, <1>4, <1>5
  <1>6. CASE UNCHANGED sms
    BY <1>5, <1>6
  <1>7. CASE DeleteRow
    BY <1>5, <1>7 DEF DeleteRow, WithoutRow
  <1>8. ASSUME NEW kind \in {"SMSReceived", "SMSStateChanged"}, TakeEvent(kind),
               \/ sms' = Insertion(events[1].rec)
               \/ sms' = Upserted(events[1].rec)
        PROVE  Shows(sms'[i], at'[sms'[i].path])
    <2>1. events # <<>> /\ IsSms(events[1]) /\ UNCHANGED at
      BY <1>8, TakeEventFacts DEF IsSms
    <2>2. sms' = Insertion(events[1].rec)
      BY <1>2, <1>8, <2>1, InsertionTells DEF Upserted
    <2>3. \/ Done(sms'[i].state) => Shows(sms'[i], at[sms'[i].path])
          \/ i \in DOMAIN sms /\ sms'[i] = sms[i]
      BY <1>2, <2>1, <2>2, InsertionTells
    <2> QED  BY <1>5, <2>1, <2>3
  <1>9. CASE OnSmsReceived \/ OnSmsStateChanged
    <2>1. \/ UNCHANGED sms
          \/ \E kind \in {"SMSReceived", "SMSStateChanged"} :
                /\ TakeEvent(kind)
                /\ \/ sms' = Insertion(Head(events).rec)
                   \/ sms' = Upserted(Head(events).rec)
      BY <1>1, <1>9 DEF OnSmsReceived, OnSmsStateChanged, DbFails, dbVars
    <2> QED  BY <1>6, <1>8, <2>1, TakeEventFacts
  <1>10. \/ UNCHANGED sms \/ DeleteRow \/ OnSmsReceived \/ OnSmsStateChanged
    BY ProviderEmits
    DEF Next, Environment, ModemAppears, ModemLeaves, MMRestart, Arrive, Reexport,
        Export, Complete, Age, HandleEvent, OnModemAdded, OnModemRemoved, Fanout,
        Request, ReadRow, DeleteOnModem, Crash, runVars, dbVars, vars
  <1> QED  BY <1>6, <1>7, <1>9, <1>10

(* The history shows a message once: besides the row that holds it there   *)
(* is no second one, and no received row of the path it is at.             *)
THEOREM MessageShownOnce == Spec => []ShownOnce
  <1>1. Init => Whole
    BY DEF Init, Whole, EmptyTable
  <1>2. TypeInv /\ PipeInv /\ Whole /\ [Next]_vars => Whole'
    BY WholeStep
  <1>3. TypeInv /\ PipeInv /\ Whole => ShownOnce
    <2> SUFFICES ASSUME PipeInv, Whole, mmRestarts = 0, dbFaults = 0,
                        NEW i \in DOMAIN sms, NEW j \in DOMAIN sms, NEW m \in Msgs,
                        i # j, Tracked(m), Holds(sms[i], m), sms[j].state = "received",
                        Holds(sms[j], m) \/ at[sms[j].path] = m
                 PROVE  FALSE
      BY DEF ShownOnce
    <2>1. Holds(sms[j], m)
      BY DEF Whole, Done, Holds
    <2> QED  BY <2>1 DEF PipeInv, History, OneRow
  <1> QED  BY <1>1, <1>2, <1>3, PipelineInvariance, PTL DEF Spec

-----------------------------------------------------------------------------
(* The status of a tracked message, by its row.                            *)
LEMMA StatusByRow ==
    ASSUME World, NEW m \in Msgs, Tracked(m)
    PROVE  StatusOf(m) = IF m \in erased THEN "erased"
                         ELSE IF notified[m] > 0 THEN "told"
                         ELSE IF pending = m THEN "claimed"
                         ELSE IF InHistory(m) THEN "quiet"
                         ELSE "unseen"
  BY HandledIsHistory DEF StatusOf

(* Every step moves a message as SmsInbox allows, or leaves it.            *)
LEMMA StatusMoves ==
    ASSUME TypeInv, World, World', Claims, Serves, NEW m \in Msgs, Tracked(m),
           StatusOf(m)' # StatusOf(m)
    PROVE  <<StatusOf(m), StatusOf(m)'>> \in Inbox!Moves
  <1> USE PipeTypes
  <1> DEFINE old0 == StatusOf(m)
             new0 == StatusOf(m)'
  <1>1. old0 = IF m \in erased THEN "erased"
               ELSE IF notified[m] > 0 THEN "told"
               ELSE IF pending = m THEN "claimed"
               ELSE IF InHistory(m) THEN "quiet"
               ELSE "unseen"
    BY StatusByRow
  <1>2. new0 = IF m \in erased' THEN "erased"
               ELSE IF notified'[m] > 0 THEN "told"
               ELSE IF pending' = m THEN "claimed"
               ELSE IF InHistory(m)' THEN "quiet"
               ELSE "unseen"
    <2>1. InHistory(m)' <=> Handled(m)'
      <3>1. ASSUME NEW i \in DOMAIN sms', Holds(sms'[i], m) PROVE sms'[i].pushed
        <4>1. sms'[i].dir = "inbound" /\ sms'[i].body # None
          BY <3>1 DEF Holds, Shows, Tracked, Dir
        <4>2. Describes(sms'[i], at'[sms'[i].path])
          BY DEF World, RowsOK, RowOK, Describes, Shows
        <4> QED  BY <4>1, <4>2 DEF Describes
      <3> QED  BY <3>1 DEF InHistory, Handled, Holds, Shows
    <2> QED  BY <2>1 DEF StatusOf
  <1> HIDE DEF old0, new0
  <1>3. /\ InHistory(m) /\ m \notin erased' => InHistory(m)'
        /\ m \in erased' \ erased => InHistory(m)
        /\ m \in erased => m \in erased'
        /\ m \notin erased => (notified[m] > 0 \/ pending = m => InHistory(m))
        /\ notified[m] \in Nat /\ m # None
    BY MsgsAssumption DEF Serves, Claims
  <1>4. \/ notified'[m] = notified[m] /\ (pending' = m => pending = m)
        \/ /\ notified'[m] = notified[m] /\ erased' = erased /\ pending # m
           /\ pending' = m => ~InHistory(m)
        \/ pending = m /\ pending' # m /\ notified'[m] > 0 /\ erased' = erased
    <2>1. CASE UNCHANGED notified /\ pending' \in {pending, None}
      BY <1>3, <2>1
    <2>2. CASE /\ UNCHANGED <<notified, erased>> /\ pending = None
               /\ Tracked(pending') => ~InHistory(pending')
      BY <1>3, <2>2
    <2>3. CASE /\ pending \in Msgs /\ pending' = None
               /\ notified' = [notified EXCEPT ![pending] = @ + 1]
               /\ UNCHANGED <<sms, erased>>
      <3>1. CASE pending = m
        <4>1. notified'[m] = notified[m] + 1
          BY <2>3, <3>1
        <4>2. notified'[m] > 0
          BY <1>3, <4>1
        <4> QED  BY <1>3, <2>3, <3>1, <4>2
      <3>2. CASE pending # m
        BY <1>3, <2>3, <3>2
      <3> QED  BY <3>1, <3>2
    <2> QED  BY <2>1, <2>2, <2>3 DEF Serves
  <1>5. old0 # new0
    BY DEF old0, new0
  <1>6. <<old0, new0>> \in
           {<<"unseen", "claimed">>, <<"unseen", "quiet">>, <<"claimed", "told">>,
            <<"claimed", "quiet">>, <<"claimed", "erased">>, <<"told", "erased">>,
            <<"quiet", "erased">>}
    <2>1. CASE m \in erased'
      BY <1>1, <1>2, <1>3, <1>5, <2>1
    <2>2. CASE m \notin erased' /\ notified[m] > 0
      BY <1>1, <1>2, <1>3, <1>4, <1>5, <2>2
    <2>3. CASE m \notin erased' /\ ~(notified[m] > 0) /\ pending = m
      BY <1>1, <1>2, <1>3, <1>4, <1>5, <2>3
    <2>4. CASE m \notin erased' /\ ~(notified[m] > 0) /\ pending # m
      BY <1>1, <1>2, <1>3, <1>4, <1>5, <2>4
    <2> QED  BY <2>1, <2>2, <2>3, <2>4
  <1> QED  BY <1>6 DEF Inbox!Moves, old0, new0

(* The pipeline implements SmsInbox as long as MM does not restart: a      *)
(* message is claimed at most once, from nowhere but unseen, and nothing   *)
(* that was announced or filed is forgotten or claimed again.              *)
THEOREM PipelineImplementsInbox ==
    ASSUME MaxMMRestarts = 0
    PROVE  Spec => ImplementsInbox
  <1>1. Init => Inbox!Init
    <2> SUFFICES ASSUME Init PROVE Inbox!Init
      OBVIOUS
    <2>1. /\ notified = [m \in Msgs |-> 0] /\ erased = {} /\ pending = None
          /\ DOMAIN sms = {}
      BY DEF Init, EmptyTable
    <2>2. \A m \in TrackedMsgs : StatusOf(m) = "unseen"
      BY <2>1, MsgsAssumption DEF StatusOf, Handled, TrackedMsgs
    <2> QED  BY <2>2 DEF Inbox!Init
  <1>2. TypeInv /\ PipeInv /\ (TypeInv /\ PipeInv)' /\ [Next]_vars =>
          [Inbox!Next]_([m \in TrackedMsgs |-> StatusOf(m)])
    <2> SUFFICES ASSUME TypeInv, PipeInv, TypeInv', PipeInv', [Next]_vars
                 PROVE  Inbox!Next
      OBVIOUS
    <2>1. mmRestarts = 0 /\ mmRestarts' = 0
      BY DEF TypeInv, TypeOK, CountersTypeOK
    <2>2. World /\ World' /\ Claims /\ Serves
      BY <2>1, PipeStep DEF PipeInv, History
    <2>3. \A m \in TrackedMsgs :
             StatusOf(m)' # StatusOf(m) => <<StatusOf(m), StatusOf(m)'>> \in Inbox!Moves
      BY <2>2, StatusMoves DEF TrackedMsgs
    <2>4. \A m \in TrackedMsgs : /\ StatusOf(m)' \in Inbox!Status
                                 /\ StatusOf(m)' = "claimed" => pending' = m
      BY DEF StatusOf, Inbox!Status
    <2> QED  BY <2>3, <2>4 DEF Inbox!Next, Inbox!OneClaim
  <1> QED  BY <1>1, <1>2, PipelineInvariance, PTL DEF Spec, ImplementsInbox, Inbox!Spec
=============================================================================
