---------------------------- MODULE WsPushProofs ----------------------------
(* Every safety property of WsPush, for any number of sockets, modems,     *)
(* changes and mishaps and any capacities: types, with the bounds of the   *)
(* two kinds of channel; one socket at a time, inductive as soon as it     *)
(* says which: the one that useWebSocket holds; a true status; and a page  *)
(* that catches up, because the newest event about every modem is in one   *)
(* of the channels on the way, in a fetch or in the view, or the modem is  *)
(* excused (NothingIsLost).                                                *)
EXTENDS WsPush, TLAPS, SequenceTheorems

Links   == {"none", "accepted", "reading", "mute", "failed", "left"}
Sockets == {"connecting", "open", "closing", "aborting", "closed"}
Live    == {"connecting", "open"}
Fetches == {No, [at |-> "asked"]} \cup [at : {"read"}, rows : [Modems -> Row]]

\* A socket that delivers, or will, is the one that the page holds.
OnlyCurrent == \A c \in Conns : sock[c] \in Live => c = cur

IInv == TypeOK /\ OnlyCurrent

-----------------------------------------------------------------------------
(* The channels.                                                            *)
LEMMA Room ==
    ASSUME NEW q \in Seq(Event), NEW e \in Event, NEW cap \in Nat, Len(q) < cap
    PROVE  Append(q, e) \in Seq(Event) /\ Len(Append(q, e)) <= cap
<1>1. Append(q, e) \in Seq(Event) /\ Len(Append(q, e)) = Len(q) + 1 /\ Len(q) \in Nat
  BY AppendProperties, LenProperties
<1> QED
  BY <1>1

LEMMA Taken ==
    ASSUME NEW q \in Seq(Event), q # <<>>, NEW cap \in Nat, Len(q) <= cap
    PROVE  /\ Tail(q) \in Seq(Event) /\ Len(Tail(q)) <= cap
           /\ Head(q) \in Event
<1>1. /\ Tail(q) \in Seq(Event) /\ Len(Tail(q)) = Len(q) - 1 /\ Head(q) \in Event
      /\ Len(q) \in Nat
  BY HeadTailProperties, LenProperties
<1> QED
  BY <1>1

LEMMA Emptied ==
    ASSUME NEW cap \in Nat
    PROVE  <<>> \in Seq(Event) /\ Len(<<>>) <= cap
BY EmptySeq

LEMMA Typed ==
    ASSUME TypeOK
    PROVE  /\ now \in [Modems -> Row] /\ view \in [Modems -> Row]
           /\ hubQ \in Seq(Event) /\ Len(hubQ) <= HubCap
           /\ out \in [Conns -> Seq(Event)] /\ \A c \in Conns : Len(out[c]) <= OutCap
           /\ \A c \in Conns : out[c] \in Seq(Event)
           /\ srv \in [Conns -> Links] /\ sock \in [Conns -> Sockets]
           /\ fetch \in [Slots -> Fetches]
           /\ HubCap \in Nat /\ OutCap \in Nat
BY WsAssumption DEF TypeOK, Links, Sockets, Fetches

-----------------------------------------------------------------------------
(* The rows of the tables and of the page.                                  *)
LEMMA GoneIsRow == Gone \in Row /\ Offline \in Row
BY DEF Gone, Offline, Row, At

LEMMA RowIsRow ==
    ASSUME NEW row \in Row
    PROVE  /\ row.at \in At /\ row.sim \in Sims \cup {None}
           /\ \A s \in Sims \cup {None} : [row EXCEPT !.sim = s] \in Row
           /\ \A a \in At : [row EXCEPT !.at = a] \in Row
BY DEF Row

\* A list of rows of which one is replaced.
LEMMA RowSet ==
    ASSUME NEW rows \in [Modems -> Row], NEW m \in Modems, NEW row \in Row
    PROVE  [rows EXCEPT ![m] = row] \in [Modems -> Row]
OBVIOUS

-----------------------------------------------------------------------------
LEMMA InitHolds == Init => IInv
<1> SUFFICES ASSUME Init PROVE IInv
  OBVIOUS
<1> USE WsAssumption
<1>1. cur \in Conns
  BY DEF Init
<1>2. /\ sock \in [Conns -> Sockets] /\ \A c \in Conns : sock[c] \in Live => c = cur
  BY DEF Init, Sockets, Live
<1>3. hubQ \in Seq(Event) /\ Len(hubQ) <= HubCap
  BY Emptied DEF Init
<1>4. out \in [Conns -> Seq(Event)] /\ \A c \in Conns : Len(out[c]) <= OutCap
  BY Emptied DEF Init
<1>5. srv \in [Conns -> Links] /\ fetch \in [Slots -> Fetches]
  BY DEF Init, Links, Fetches
<1>6. Gone \in Row
  BY GoneIsRow
<1>7. /\ now \in [Modems -> Row] /\ view \in [Modems -> Row]
      /\ changes \in 0..MaxChanges /\ acts \in 0..MaxActs
  <2>1. now \in Tables /\ view = [m \in Modems |-> Gone] /\ changes = 0 /\ acts = 0
    BY DEF Init
  <2> QED
    BY <1>6, <2>1
<1>8. /\ reg \subseteq Conns /\ dead \subseteq Conns /\ timer \in BOOLEAN /\ loggedIn \in BOOLEAN
      /\ status \in {"connected", "reconnecting", "disconnected"}
      /\ excused \subseteq Modems /\ late \in BOOLEAN
  BY DEF Init
<1> QED
  BY <1>1, <1>2, <1>3, <1>4, <1>5, <1>7, <1>8
     DEF IInv, TypeOK, OnlyCurrent, Links, Sockets, Fetches

-----------------------------------------------------------------------------
(* The runner and the hub.                                                  *)
LEMMA Counted ==
    ASSUME TypeOK, changes < MaxChanges, changes' = changes + 1
    PROVE  changes' \in 0..MaxChanges
<1>1. changes \in 0..MaxChanges /\ MaxChanges \in Nat
  BY WsAssumption DEF TypeOK
<1> QED
  BY <1>1

LEMMA Acted ==
    ASSUME TypeOK, UNCHANGED acts \/ Act
    PROVE  acts' \in 0..MaxActs
<1>1. acts \in 0..MaxActs /\ MaxActs \in Nat
  BY WsAssumption DEF TypeOK
<1> QED
  BY <1>1 DEF Act

\* The runner's events and what they leave in the tables.
LEMMA Reported ==
    ASSUME IInv, NEW m \in Modems, Change(m)
    PROVE  \/ \E ev \in Event, row \in Row :
                 Reports(ev, row) /\ ev.m = m /\ (UNCHANGED acts \/ Act)
                 /\ (ev.kind = "other" => row = now[m])
           \/ ChangesQuietly(m)
<1>1. now[m] \in Row
  BY Typed DEF IInv
<1>2. ASSUME NEW sim \in Sims \cup {None}, StateChanges(m, sim)
      PROVE  \E ev \in Event, row \in Row :
               Reports(ev, row) /\ ev.m = m /\ (UNCHANGED acts \/ Act)
               /\ (ev.kind = "other" => row = now[m])
  <2> DEFINE row == [at |-> "online", sim |-> sim]
             ev  == [kind |-> "state", m |-> m, row |-> row]
  <2>1. row \in Row /\ [row EXCEPT !.sim = now[m].sim] \in Row
    BY <1>1, RowIsRow DEF Row, At
  <2>2. ev \in Event /\ ev.m = m /\ ev.kind # "other"
    BY <2>1 DEF Event
  <2>3. \/ Reports(ev, row) /\ UNCHANGED acts
        \/ Reports(ev, now[m]) /\ Act
        \/ Reports(ev, [row EXCEPT !.sim = now[m].sim]) /\ Act
    BY <1>2 DEF StateChanges
  <2> HIDE DEF ev, row
  <2> QED
    BY <1>1, <2>1, <2>2, <2>3
<1>3. ASSUME NEW sim \in Sims, SimUpdated(m, sim)
      PROVE  \E ev \in Event, row \in Row :
               Reports(ev, row) /\ ev.m = m /\ (UNCHANGED acts \/ Act)
               /\ (ev.kind = "other" => row = now[m])
  <2> DEFINE row == IF now[m] = Gone THEN Gone ELSE [now[m] EXCEPT !.sim = sim]
             ev  == [kind |-> "sim", m |-> m, row |-> Gone]
  <2>1. row \in Row
    BY <1>1, RowIsRow, GoneIsRow
  <2>2. ev \in Event /\ ev.m = m /\ ev.kind # "other"
    BY GoneIsRow DEF Event
  <2>3. \/ Reports(ev, row) /\ UNCHANGED acts
        \/ Reports(ev, now[m]) /\ Act
    BY <1>3, Zenon DEF SimUpdated
  <2> HIDE DEF ev, row
  <2> QED
    BY <1>1, <2>1, <2>2, <2>3
<1>4. CASE Removed(m)
  <2> DEFINE row == IF now[m] = Gone THEN Gone ELSE Offline
             bare(sim) == [now[m] EXCEPT !.sim = sim]
             off  == [now[m] EXCEPT !.at = "offline"]
             ev   == [kind |-> "removed", m |-> m, row |-> Offline]
  <2>1. row \in Row /\ off \in Row /\ \A sim \in {None, now[m].sim} : bare(sim) \in Row
    BY <1>1, RowIsRow, GoneIsRow DEF At
  <2>2. ev \in Event /\ ev.m = m /\ ev.kind # "other"
    BY GoneIsRow DEF Event
  <2>3. \/ Reports(ev, row) /\ UNCHANGED acts
        \/ \E sim \in {None, now[m].sim} : Reports(ev, bare(sim)) /\ Act
        \/ Reports(ev, off) /\ Act
    BY <1>4 DEF Removed
  <2> HIDE DEF ev, row, bare, off
  <2> QED
    BY <2>1, <2>2, <2>3
<1>5. CASE OtherEvent(m)
  <2> DEFINE ev == [kind |-> "other", m |-> m, row |-> Gone]
  <2>1. ev \in Event /\ ev.m = m
    BY GoneIsRow DEF Event
  <2>2. Reports(ev, now[m]) /\ UNCHANGED acts
    BY <1>5 DEF OtherEvent
  <2> HIDE DEF ev
  <2> QED
    BY <1>1, <2>1, <2>2
<1> QED
  BY <1>2, <1>3, <1>4, <1>5 DEF Change

LEMMA ChangeKeeps ==
    ASSUME IInv, NEW m \in Modems, Change(m)
    PROVE  IInv'
<1>1. ASSUME NEW ev \in Event, NEW row \in Row, Reports(ev, row), UNCHANGED acts \/ Act
      PROVE  IInv'
  <2>1. /\ changes < MaxChanges /\ changes' = changes + 1
        /\ now' = [now EXCEPT ![ev.m] = row]
        /\ hubQ' = (IF Len(hubQ) < HubCap THEN Append(hubQ, ev) ELSE hubQ)
        /\ excused' \in {excused \ About(ev), excused \cup About(ev)}
        /\ UNCHANGED <<server, dead, sock, page, shown, late>>
    BY <1>1 DEF Reports
  <2>2. ev.m \in Modems /\ About(ev) \subseteq Modems
    BY DEF Event, About
  <2>3. now' \in [Modems -> Row]
    BY <2>1, <2>2, RowSet, Typed DEF IInv
  <2>4. hubQ' \in Seq(Event) /\ Len(hubQ') <= HubCap
    <3>1. CASE Len(hubQ) < HubCap
      BY <2>1, <3>1, Typed, Room DEF IInv
    <3>2. CASE ~(Len(hubQ) < HubCap)
      BY <2>1, <3>2, Typed DEF IInv
    <3> QED
      BY <3>1, <3>2
  <2>5. changes' \in 0..MaxChanges /\ acts' \in 0..MaxActs
    BY <1>1, <2>1, Counted, Acted DEF IInv
  <2>6. excused' \subseteq Modems
    BY <2>1, <2>2 DEF IInv, TypeOK
  <2> QED
    BY <2>1, <2>3, <2>4, <2>5, <2>6 DEF IInv, TypeOK, OnlyCurrent, server, page, shown
<1>2. CASE ChangesQuietly(m)
  <2>1. /\ changes < MaxChanges /\ changes' = changes + 1
        /\ now' \in {[now EXCEPT ![m] = Offline], [now EXCEPT ![m] = Gone]}
        /\ excused' = excused \cup {m}
        /\ UNCHANGED <<hubQ, server, dead, sock, page, shown, acts, late>>
    BY <1>2 DEF ChangesQuietly
  <2>2. now' \in [Modems -> Row]
    BY <2>1, GoneIsRow, RowSet, Typed DEF IInv
  <2>3. changes' \in 0..MaxChanges
    BY <2>1, Counted DEF IInv
  <2> QED
    BY <2>1, <2>2, <2>3 DEF IInv, TypeOK, OnlyCurrent, server, page, shown
<1> QED
  BY <1>1, <1>2, Reported

LEMMA HubDispatchKeeps ==
    ASSUME IInv, HubDispatch
    PROVE  IInv'
<1> DEFINE e == Head(hubQ)
<1>1. /\ hubQ # <<>> /\ hubQ' = Tail(hubQ)
      /\ excused' \subseteq excused \cup About(e)
      /\ out' = [c \in Conns |-> IF Takes(c) THEN Append(out[c], e) ELSE out[c]]
      /\ UNCHANGED <<now, changes, reg, srv, dead, sock, page, shown, acts, late>>
  BY DEF HubDispatch
<1>2. hubQ' \in Seq(Event) /\ Len(hubQ') <= HubCap /\ e \in Event
  BY <1>1, Typed, Taken DEF IInv
<1>5. excused' \subseteq Modems
  BY <1>1, <1>2 DEF About, Event, IInv, TypeOK
<1> HIDE DEF e
<1>3. ASSUME NEW c \in Conns PROVE out'[c] \in Seq(Event) /\ Len(out'[c]) <= OutCap
  <2>1. CASE Takes(c)
    BY <1>1, <1>2, <2>1, Typed, Room DEF Takes, IInv
  <2>2. CASE ~Takes(c)
    BY <1>1, <2>2, Typed DEF IInv
  <2> QED
    BY <2>1, <2>2
<1>4. out' \in [Conns -> Seq(Event)] /\ \A c \in Conns : Len(out'[c]) <= OutCap
  BY <1>1, <1>3
<1> QED
  BY <1>1, <1>2, <1>4, <1>5 DEF IInv, TypeOK, OnlyCurrent, page, shown

-----------------------------------------------------------------------------
(* The goroutines of a connection.  They leave the sockets alone.           *)
LEMMA Moved ==
    ASSUME TypeOK, NEW c \in Conns, NEW to \in Links, srv' = [srv EXCEPT ![c] = to]
    PROVE  srv' \in [Conns -> Links]
BY Typed

LEMMA ConnMovesKeeps ==
    ASSUME IInv, NEW c \in Conns, NEW to \in Links,
           srv' = [srv EXCEPT ![c] = to],
           UNCHANGED <<now, changes, hubQ, reg, out, dead, sock, page, shown, acts, excused, late>>
    PROVE  IInv'
BY Moved DEF IInv, TypeOK, OnlyCurrent, Links, page, shown

\* What a written event does to the page.
LEMMA Asked ==
    ASSUME TypeOK, NEW f \in Slots, Ask(f)
    PROVE  fetch' \in [Slots -> Fetches]
<1>1. [at |-> "asked"] \in Fetches
  BY DEF Fetches
<1> QED
  BY <1>1, Typed DEF Ask

LEMMA Handled ==
    ASSUME TypeOK, NEW e \in Event, Handle(e)
    PROVE  /\ view' \in [Modems -> Row] /\ fetch' \in [Slots -> Fetches]
           /\ excused' \subseteq Modems
<1>1. e.m \in Modems /\ e.row \in Row /\ view[e.m] \in Row /\ excused \subseteq Modems
  BY Typed, GoneIsRow DEF Event, TypeOK
<1>2. excused' \subseteq Modems
  BY <1>1 DEF Handle
<1>3. /\ view' \in [Modems -> Row]
      /\ UNCHANGED fetch \/ \E f \in Slots : Ask(f)
  <2>1. CASE e.kind = "state" /\ HandleState(e.m, e.row)
    <3>1. [view[e.m] EXCEPT !.at = "online"] \in Row
      BY <1>1, RowIsRow DEF At
    <3>2. \/ view' = [view EXCEPT ![e.m] = e.row]
          \/ view' = [view EXCEPT ![e.m] = [view[e.m] EXCEPT !.at = "online"]]
          \/ view' = view
      BY <2>1, Typed DEF HandleState
    <3>3. UNCHANGED fetch \/ \E f \in Slots : Ask(f)
      BY <2>1 DEF HandleState
    <3>4. view \in [Modems -> Row] /\ e.m \in Modems /\ e.row \in Row
      BY <1>1, Typed
    <3>5. view' \in [Modems -> Row]
      <4> DEFINE row == [view[e.m] EXCEPT !.at = "online"]
      <4>1. row \in Row
        BY <3>1
      <4>2. \/ view' = [view EXCEPT ![e.m] = e.row]
            \/ view' = [view EXCEPT ![e.m] = row]
            \/ view' = view
        BY <3>2
      <4> HIDE DEF row
      <4> QED
        BY <3>4, <4>1, <4>2, RowSet
    <3> QED
      BY <3>3, <3>5
  <2>2. CASE e.kind = "removed" /\ HandleRemoved(e.m)
    BY <1>1, <2>2, GoneIsRow, Typed DEF HandleRemoved
  <2> QED
    BY <2>1, <2>2, Typed DEF Handle
<1> QED
  BY <1>2, <1>3, Asked, Typed

\* What never reaches the page was about modems.
LEMMA ToldTyped ==
    ASSUME NEW q \in Seq(Event)
    PROVE  Told(q) \subseteq Modems
<1>1. \A i \in 1..Len(q) : q[i] \in Event
  BY ElementOfSeq
<1> QED
  BY <1>1 DEF Told, About, Event

LEMMA LostTyped ==
    ASSUME TypeOK, NEW c \in Conns
    PROVE  Lost(c) \subseteq Modems
BY ToldTyped, Typed DEF Lost

LEMMA OutSet ==
    ASSUME TypeOK, NEW c \in Conns, NEW q \in Seq(Event), Len(q) <= OutCap,
           out' = [out EXCEPT ![c] = q]
    PROVE  out' \in [Conns -> Seq(Event)] /\ \A d \in Conns : Len(out'[d]) <= OutCap
BY Typed

LEMMA ConnKeeps ==
    ASSUME IInv, NEW c \in Conns, ConnStep(c)
    PROVE  IInv'
<1>1. CASE Register(c)
  <2>1. srv' \in [Conns -> Links]
    BY <1>1, Moved DEF Register, Links, IInv
  <2> QED
    BY <1>1, <2>1 DEF Register, IInv, TypeOK, OnlyCurrent, Links, page, shown
<1>2. CASE WriterWrites(c)
  <2>1. /\ out[c] # <<>> /\ out' = [out EXCEPT ![c] = Tail(out[c])]
        /\ UNCHANGED <<view, fetch, excused>> \/ Handle(Head(out[c]))
        /\ UNCHANGED <<now, changes, hubQ, reg, srv, dead, sock, page, acts, late>>
    BY <1>2 DEF WriterWrites
  <2>2. /\ Tail(out[c]) \in Seq(Event) /\ Len(Tail(out[c])) <= OutCap
        /\ Head(out[c]) \in Event
    BY <2>1, Typed, Taken DEF IInv
  <2>3. out' \in [Conns -> Seq(Event)] /\ \A d \in Conns : Len(out'[d]) <= OutCap
    BY <2>1, <2>2, OutSet DEF IInv
  <2>4. /\ view' \in [Modems -> Row] /\ fetch' \in [Slots -> Fetches]
        /\ excused' \subseteq Modems
    BY <2>1, <2>2, Handled, Typed DEF IInv, TypeOK
  <2> QED
    BY <2>1, <2>3, <2>4 DEF IInv, TypeOK, OnlyCurrent, Fetches, page
<1>3. CASE WriterFails(c)
  BY <1>3, ConnMovesKeeps DEF WriterFails, ConnMoves, Links
<1>4. CASE PingFails(c)
  BY <1>4, ConnMovesKeeps DEF PingFails, ConnMoves, Links
<1>5. CASE ReaderLeaves(c)
  BY <1>5, ConnMovesKeeps DEF ReaderLeaves, ConnMoves, Links
<1>6. CASE Expires(c)
  BY <1>6, ConnMovesKeeps DEF Expires, ConnMoves, Links
<1>7. CASE Unregister(c)
  <2>1. srv' \in [Conns -> Links]
    BY <1>7, Moved DEF Unregister, Links, IInv
  <2>2. out' \in [Conns -> Seq(Event)] /\ \A d \in Conns : Len(out'[d]) <= OutCap
    BY <1>7, Emptied, OutSet, Typed DEF Unregister, IInv
  <2>3. excused' \subseteq Modems /\ reg' \subseteq Conns
    BY <1>7, LostTyped DEF Unregister, IInv, TypeOK
  <2> QED
    BY <1>7, <2>1, <2>2, <2>3 DEF Unregister, IInv, TypeOK, OnlyCurrent, Links, page, shown
<1> QED
  BY <1>1, <1>2, <1>3, <1>4, <1>5, <1>6, <1>7 DEF ConnStep

-----------------------------------------------------------------------------
(* The sockets of the page.                                                 *)
LEMMA SocketSet ==
    ASSUME TypeOK, NEW c \in Conns, NEW to \in Sockets, sock' = [sock EXCEPT ![c] = to]
    PROVE  /\ sock' \in [Conns -> Sockets] /\ sock'[c] = to
           /\ \A d \in Conns : d # c => sock'[d] = sock[d]
BY Typed

LEMMA UpgradeKeeps ==
    ASSUME IInv, NEW c \in Conns, Upgrade(c)
    PROVE  IInv'
<1>1. /\ sock[c] = "connecting" /\ sock' = [sock EXCEPT ![c] = "open"]
      /\ srv' = [srv EXCEPT ![c] = "accepted"] /\ status' = "connected"
      /\ UNCHANGED <<now, changes, hubQ, reg, out, dead, cur, timer, loggedIn,
                     shown, acts, excused, late>>
  BY DEF Upgrade
<1>2. /\ sock' \in [Conns -> Sockets] /\ sock'[c] = "open"
      /\ \A d \in Conns : d # c => sock'[d] = sock[d]
  BY <1>1, SocketSet DEF Sockets, IInv
<1>3. srv' \in [Conns -> Links]
  BY <1>1, Moved DEF Links, IInv
<1>4. OnlyCurrent'
  BY <1>1, <1>2 DEF OnlyCurrent, IInv, Live
<1>5. TypeOK'
  BY <1>1, <1>2, <1>3 DEF IInv, TypeOK, Links, Sockets, shown
<1> QED
  BY <1>4, <1>5 DEF IInv

LEMMA OnCloseKeeps ==
    ASSUME IInv, NEW c \in Conns, NEW abnormal \in BOOLEAN, OnClose(c, abnormal),
           acts' \in 0..MaxActs
    PROVE  IInv'
<1>1. /\ sock' = [sock EXCEPT ![c] = "closed"]
      /\ status' \in {"reconnecting", "disconnected"}
      /\ timer' \in BOOLEAN /\ late' \in BOOLEAN /\ excused' \subseteq Modems
      /\ UNCHANGED <<now, changes, hubQ, server, dead, cur, loggedIn, shown>>
  BY LostTyped DEF OnClose, IInv, TypeOK
<1>2. /\ sock' \in [Conns -> Sockets] /\ sock'[c] = "closed"
      /\ \A d \in Conns : d # c => sock'[d] = sock[d]
  BY <1>1, SocketSet DEF Sockets, IInv
<1>3. OnlyCurrent'
  BY <1>1, <1>2 DEF OnlyCurrent, IInv, Live
<1>4. TypeOK'
  BY <1>1, <1>2 DEF IInv, TypeOK, Sockets, server, shown
<1> QED
  BY <1>3, <1>4 DEF IInv

LEMMA ClosesKeep ==
    ASSUME IInv, NEW c \in Conns, SocketCloses(c) \/ UpgradeFails(c) \/ CloseEnds(c)
    PROVE  IInv'
<1>1. acts' \in 0..MaxActs
  BY Acted DEF SocketCloses, UpgradeFails, CloseEnds, IInv
<1>2. OnClose(c, TRUE) \/ OnClose(c, FALSE)
  <2>1. CASE CloseEnds(c)
    <3>1. CASE sock[c] = "aborting"
      BY <2>1, <3>1 DEF CloseEnds
    <3>2. CASE sock[c] # "aborting"
      BY <2>1, <3>2 DEF CloseEnds
    <3> QED
      BY <3>1, <3>2
  <2>2. CASE SocketCloses(c) \/ UpgradeFails(c)
    BY <2>2 DEF SocketCloses, UpgradeFails
  <2> QED
    BY <2>1, <2>2
<1> QED
  BY <1>1, <1>2, OnCloseKeeps

LEMMA LinkDiesKeeps ==
    ASSUME IInv, NEW c \in Conns, LinkDies(c)
    PROVE  IInv'
<1>1. acts' \in 0..MaxActs
  BY Acted DEF LinkDies, IInv
<1>2. /\ dead' = dead \cup {c} /\ excused' \subseteq Modems
      /\ UNCHANGED <<now, changes, hubQ, server, sock, page, shown, late>>
  BY LostTyped DEF LinkDies, IInv, TypeOK
<1> QED
  BY <1>1, <1>2 DEF IInv, TypeOK, OnlyCurrent, server, page, shown

-----------------------------------------------------------------------------
(* The page connects, disconnects and does both.                            *)
\* connect() keeps a socket that is alive, and makes one only when none is.
LEMMA ConnectKeepsOne ==
    ASSUME TypeOK, NEW ws \in Conns \cup {None}, NEW socks \in [Conns -> Sockets],
           \A c \in Conns : socks[c] \in Live => c = ws,
           Connect(ws, socks)
    PROVE  /\ cur' \in Conns \cup {None} /\ sock' \in [Conns -> Sockets]
           /\ status' \in {"connected", "reconnecting", "disconnected"}
           /\ dead' \subseteq Conns
           /\ OnlyCurrent'
<1>1. CASE ws # None /\ socks[ws] \in Live
  BY <1>1 DEF Connect, Live, TypeOK, OnlyCurrent
<1>2. CASE ~(ws # None /\ socks[ws] \in Live)
  <2>1. \A c \in Conns : socks[c] \notin Live
    BY <1>2, WsAssumption
  <2>2. PICK c \in Conns : /\ cur' = c /\ sock' = [socks EXCEPT ![c] = "connecting"]
                           /\ dead' = dead \ {c} /\ status' = "reconnecting"
    BY <1>2 DEF Connect, Live
  <2>3. /\ sock' \in [Conns -> Sockets]
        /\ \A d \in Conns : d # c => sock'[d] = socks[d]
    BY <2>2 DEF Sockets
  <2> QED
    BY <2>1, <2>2, <2>3 DEF OnlyCurrent, TypeOK
<1> QED
  BY <1>1, <1>2

\* disconnect() leaves no socket alive.
LEMMA NoneIsAlive ==
    ASSUME IInv
    PROVE  /\ Disconnected \in [Conns -> Sockets]
           /\ \A c \in Conns : Disconnected[c] \notin Live
<1>1. sock \in [Conns -> Sockets] /\ \A c \in Conns : sock[c] \in Live => c = cur
  BY Typed DEF IInv, OnlyCurrent
<1>2. CASE cur = None
  BY <1>1, <1>2, WsAssumption DEF Disconnected
<1>3. CASE cur # None
  <2> DEFINE to == CASE sock[cur] = "open" -> "closing"
                     [] sock[cur] = "connecting" -> "aborting"
                     [] OTHER -> sock[cur]
  <2>1. cur \in Conns /\ sock[cur] \in Sockets
    BY <1>1, <1>3 DEF IInv, TypeOK
  <2>2. to \in Sockets /\ to \notin Live
    BY <2>1 DEF Sockets, Live
  <2>3. Disconnected = [sock EXCEPT ![cur] = to]
    BY <1>3 DEF Disconnected
  <2> HIDE DEF to
  <2> QED
    BY <1>1, <2>1, <2>2, <2>3
<1> QED
  BY <1>2, <1>3

LEMMA UserKeeps ==
    ASSUME IInv, Reconnects \/ Login \/ Logout \/ SwitchBackend
    PROVE  IInv'
<1>1. CASE Reconnects \/ Login
  <2>1. /\ Connect(cur, sock) /\ timer' \in BOOLEAN /\ loggedIn' \in BOOLEAN
        /\ UNCHANGED <<now, changes, hubQ, server, shown, excused, late>>
        /\ UNCHANGED acts \/ Act
    BY <1>1 DEF Reconnects, Login, IInv, TypeOK
  <2>2. cur \in Conns \cup {None} /\ \A c \in Conns : sock[c] \in Live => c = cur
    BY DEF IInv, TypeOK, OnlyCurrent
  <2>3. /\ cur' \in Conns \cup {None} /\ sock' \in [Conns -> Sockets]
        /\ status' \in {"connected", "reconnecting", "disconnected"}
        /\ dead' \subseteq Conns /\ OnlyCurrent'
    BY <2>1, <2>2, ConnectKeepsOne, Typed DEF IInv
  <2>4. acts' \in 0..MaxActs
    BY <2>1, Acted DEF IInv
  <2> QED
    BY <2>1, <2>3, <2>4 DEF IInv, TypeOK, Sockets, server, shown
<1>2. CASE Logout
  <2>1. /\ sock' = Disconnected /\ cur' = None /\ status' = "disconnected"
        /\ loggedIn' = FALSE /\ timer' = FALSE /\ excused' \subseteq Modems
        /\ UNCHANGED <<now, changes, hubQ, server, dead, shown, acts, late>>
    BY <1>2, LostTyped DEF Logout, IInv, TypeOK
  <2>2. sock' \in [Conns -> Sockets] /\ OnlyCurrent'
    BY <2>1, NoneIsAlive DEF OnlyCurrent
  <2> QED
    BY <2>1, <2>2 DEF IInv, TypeOK, Sockets, server, shown
<1>3. CASE SwitchBackend
  <2>1. /\ Connect(None, Disconnected) /\ timer' = FALSE
        /\ view' = [m \in Modems |-> Gone] /\ excused' = Modems /\ Act
        /\ UNCHANGED <<now, changes, hubQ, server, loggedIn, fetch, late>>
    BY <1>3 DEF SwitchBackend
  <2>2. /\ cur' \in Conns \cup {None} /\ sock' \in [Conns -> Sockets]
        /\ status' \in {"connected", "reconnecting", "disconnected"}
        /\ dead' \subseteq Conns /\ OnlyCurrent'
    BY <2>1, NoneIsAlive, ConnectKeepsOne DEF IInv
  <2>3. acts' \in 0..MaxActs /\ view' \in [Modems -> Row]
    BY <2>1, Acted, GoneIsRow DEF IInv
  <2> QED
    BY <2>1, <2>2, <2>3 DEF IInv, TypeOK, Sockets, server
<1> QED
  BY <1>1, <1>2, <1>3

-----------------------------------------------------------------------------
(* The fetches.                                                             *)
LEMMA FetchKeeps ==
    ASSUME IInv, NEW f \in Slots, FetchReads(f) \/ FetchArrives(f) \/ FetchFails(f)
    PROVE  IInv'
<1>1. /\ UNCHANGED <<now, changes, hubQ, server, dead, sock, page, late>>
      /\ excused' \subseteq Modems
  BY DEF FetchReads, FetchArrives, FetchFails, IInv, TypeOK
<1>2. acts' \in 0..MaxActs
  BY Acted DEF FetchReads, FetchArrives, FetchFails, IInv
<1>3. fetch[f] \in Fetches /\ No \in Fetches /\ [at |-> "read", rows |-> now] \in Fetches
  BY Typed DEF IInv, Fetches
<1>4. fetch' \in [Slots -> Fetches]
  BY <1>3, Typed DEF FetchReads, FetchArrives, FetchFails, IInv
<1>5. view' \in [Modems -> Row]
  <2>1. fetch[f].at = "read" => fetch[f].rows \in [Modems -> Row]
    BY <1>3 DEF Fetches, No
  <2> QED
    BY <2>1, Typed DEF FetchReads, FetchArrives, FetchFails, IInv
<1> QED
  BY <1>1, <1>2, <1>4, <1>5 DEF IInv, TypeOK, OnlyCurrent, Fetches, server, page

LEMMA VisitKeeps ==
    ASSUME IInv, NEW f \in Slots, Visits(f)
    PROVE  IInv'
<1>1. fetch' \in [Slots -> Fetches] /\ acts' \in 0..MaxActs
  BY Asked, Acted DEF Visits, IInv
<1> QED
  BY <1>1 DEF Visits, IInv, TypeOK, OnlyCurrent, Fetches, server

-----------------------------------------------------------------------------
LEMMA NextKeeps == IInv /\ [Next]_vars => IInv'
<1> SUFFICES ASSUME IInv, [Next]_vars PROVE IInv'
  OBVIOUS
<1>1. ASSUME NEW m \in Modems, Change(m) PROVE IInv'
  BY <1>1, ChangeKeeps
<1>2. CASE HubDispatch
  BY <1>2, HubDispatchKeeps
<1>3. ASSUME NEW c \in Conns, ConnStep(c) PROVE IInv'
  BY <1>3, ConnKeeps
<1>4. ASSUME NEW c \in Conns, SocketStep(c) \/ LinkDies(c) \/ UpgradeFails(c) PROVE IInv'
  BY <1>4, UpgradeKeeps, ClosesKeep, LinkDiesKeeps DEF SocketStep
<1>5. CASE Reconnects \/ Login \/ Logout \/ SwitchBackend
  BY <1>5, UserKeeps
<1>6. ASSUME NEW f \in Slots, FetchReads(f) \/ FetchArrives(f) \/ FetchFails(f) PROVE IInv'
  BY <1>6, FetchKeeps
<1>7. ASSUME NEW f \in Slots, Visits(f) PROVE IInv'
  BY <1>7, VisitKeeps
<1>8. CASE UNCHANGED vars
  BY <1>8 DEF vars, server, page, shown, IInv, TypeOK, OnlyCurrent
<1> QED
  BY <1>1, <1>2, <1>3, <1>4, <1>5, <1>6, <1>7, <1>8 DEF Next

(* The inductive invariant holds.                                           *)
THEOREM Invariance == Spec => []IInv
<1>1. Init => IInv
  BY InitHolds
<1>2. IInv /\ [Next]_vars => IInv'
  BY NextKeeps
<1> QED
  BY <1>1, <1>2, PTL DEF Spec

(* The types of hub, connections and page: neither the channel of the hub   *)
(* nor that of a connection holds more than its capacity.                   *)
THEOREM TypeCorrect == Spec => []TypeOK
<1>1. IInv => TypeOK
  BY DEF IInv
<1> QED
  BY <1>1, Invariance, PTL

(* useWebSocket never has two sockets that deliver, although the reconnect  *)
(* timer, a login and a switch of the backend all connect: the early return *)
(* of connect() looks at the only socket that can be alive.                 *)
THEOREM OneSocket == Spec => []SingleSocket
<1>1. IInv => SingleSocket
  BY DEF IInv, OnlyCurrent, SingleSocket, Live
<1> QED
  BY <1>1, Invariance, PTL

-----------------------------------------------------------------------------
(* The status of the page.  The socket that opens is the one that it holds. *)
LEMMA StatusHolds == Init => StatusIsTrue
BY WsAssumption DEF Init, StatusIsTrue

LEMMA StatusKept ==
    ASSUME IInv, StatusIsTrue, [Next]_vars
    PROVE  StatusIsTrue'
<1>1. CASE UNCHANGED <<sock, page, late>>
  BY <1>1 DEF StatusIsTrue, page
<1>2. ASSUME NEW c \in Conns, Upgrade(c) PROVE StatusIsTrue'
  <2>1. /\ sock' = [sock EXCEPT ![c] = "open"] /\ status' = "connected"
        /\ sock[c] = "connecting" /\ UNCHANGED <<cur, late>>
    BY <1>2 DEF Upgrade
  <2>2. cur = c
    BY <2>1 DEF IInv, OnlyCurrent, Live
  <2>3. sock'[c] = "open" /\ c # None
    BY <2>1, Typed, WsAssumption DEF IInv
  <2> QED
    BY <2>1, <2>2, <2>3 DEF StatusIsTrue
<1>3. ASSUME NEW c \in Conns, NEW abnormal \in BOOLEAN, OnClose(c, abnormal)
      PROVE  StatusIsTrue'
  <2>1. /\ sock' = [sock EXCEPT ![c] = "closed"] /\ status' # "connected"
        /\ late' = (late \/ c # cur) /\ cur' = cur
    BY <1>3 DEF OnClose
  <2>2. sock'[c] # "open"
    BY <2>1, Typed DEF IInv
  <2> QED
    BY <2>1, <2>2 DEF StatusIsTrue
<1>4. ASSUME NEW c \in Conns, SocketCloses(c) \/ UpgradeFails(c) \/ CloseEnds(c)
      PROVE  StatusIsTrue'
  <2>1. CASE CloseEnds(c)
    <3>1. (sock[c] = "aborting") \in BOOLEAN
      OBVIOUS
    <3> QED
      BY <1>3, <2>1, <3>1 DEF CloseEnds
  <2>2. CASE SocketCloses(c) \/ UpgradeFails(c)
    BY <1>3, <2>2 DEF SocketCloses, UpgradeFails
  <2> QED
    BY <1>4, <2>1, <2>2
<1>5. ASSUME NEW ws \in Conns \cup {None}, NEW socks \in [Conns -> Sockets],
             Connect(ws, socks), late' = late,
             \/ ws = None
             \/ ws = cur /\ socks = sock
      PROVE  StatusIsTrue'
  <2>1. CASE ws # None /\ socks[ws] \in Live
    BY <1>5, <2>1 DEF Connect, Live, StatusIsTrue
  <2>2. CASE ~(ws # None /\ socks[ws] \in Live)
    <3>1. PICK c \in Conns : /\ cur' = c /\ sock' = [socks EXCEPT ![c] = "connecting"]
                             /\ status' = "reconnecting"
      BY <1>5, <2>2 DEF Connect, Live
    <3>2. sock'[c] # "open"
      BY <3>1
    <3> QED
      BY <3>1, <3>2 DEF StatusIsTrue
  <2> QED
    BY <2>1, <2>2
<1>6. CASE Reconnects \/ Login \/ SwitchBackend
  <2>1. cur \in Conns \cup {None} /\ sock \in [Conns -> Sockets]
    BY Typed DEF IInv, TypeOK
  <2> QED
    BY <1>5, <1>6, <2>1, NoneIsAlive DEF Reconnects, Login, SwitchBackend
<1>7. CASE Logout
  BY <1>7 DEF Logout, StatusIsTrue
<1>8. \/ UNCHANGED <<sock, page, late>>
      \/ \E c \in Conns : Upgrade(c) \/ SocketCloses(c) \/ UpgradeFails(c) \/ CloseEnds(c)
      \/ Reconnects \/ Login \/ Logout \/ SwitchBackend
  <2>1. ASSUME NEW c \in Conns, ConnStep(c) PROVE UNCHANGED <<sock, page, late>>
    BY <2>1 DEF ConnStep, Register, WriterWrites, WriterFails, PingFails, ReaderLeaves,
                Expires, ConnMoves, Unregister
  <2>2. ASSUME NEW c \in Conns, LinkDies(c) PROVE UNCHANGED <<sock, page, late>>
    BY <2>2 DEF LinkDies
  <2>3. ASSUME NEW f \in Slots, \/ Visits(f) \/ FetchReads(f)
                                \/ FetchArrives(f) \/ FetchFails(f)
        PROVE  UNCHANGED <<sock, page, late>>
    BY <2>3 DEF Visits, FetchReads, FetchArrives, FetchFails, page
  <2>4. ASSUME HubDispatch \/ \E m \in Modems : Change(m)
        PROVE  UNCHANGED <<sock, page, late>>
    BY <2>4 DEF HubDispatch, Change, StateChanges, SimUpdated, Removed, OtherEvent,
                ChangesQuietly, Reports
  <2> QED
    BY <2>1, <2>2, <2>3, <2>4 DEF Next, SocketStep, vars
<1> QED
  BY <1>1, <1>2, <1>4, <1>6, <1>7, <1>8

(* The status that useWebSocket shows is that of the socket it holds, for   *)
(* any interleaving of closes, refusals, reconnections and switches *)
(* of the backend, unless the close of a replaced socket came after the     *)
(* next one was made.                                                       *)
THEOREM StatusIsThatOfTheSocket == Spec => []StatusIsTrue
<1>1. Init => StatusIsTrue
  BY StatusHolds
<1>2. IInv /\ StatusIsTrue /\ [Next]_vars => StatusIsTrue'
  BY StatusKept
<1> QED
  BY <1>1, <1>2, Invariance, PTL DEF Spec

-----------------------------------------------------------------------------
(* What the page has not shown yet is on its way to it.  The events travel  *)
(* in order, so it is enough to know of every modem where the newest event  *)
(* about it is: in the channel of the hub, or else in that of the           *)
(* connection of the page, or else shown or being fetched.                  *)

\* The newest event about the modem in the channel brings this row.
Ends(q, m, row) ==
    \E i \in 1..Len(q) : /\ m \in About(q[i]) /\ Right(q[i], row)
                         /\ \A j \in 1..Len(q) : j > i => m \notin About(q[j])

Waits(m)   == cur # None /\ m \in Told(out[cur])
Fetched(m) == \E f \in Slots : \/ fetch[f].at = "asked"
                               \/ fetch[f].at = "read" /\ fetch[f].rows[m] = now[m]

Arrived(m) == ~Waits(m) => view[m] = now[m] \/ Fetched(m)
Written(m) == Waits(m) => /\ Ends(out[cur], m, now[m])
                          /\ sock[cur] = "open" /\ cur \notin dead
UnderWay(m) ==
    /\ m \in Told(hubQ) => Ends(hubQ, m, now[m])
    /\ m \notin Told(hubQ) => Arrived(m) /\ Written(m)

NothingIsLost ==
    /\ \A c \in Conns : srv[c] \in {"none", "accepted"} => out[c] = <<>>
    /\ \A m \in Modems \ excused : UnderWay(m)

LEMMA ToldOfNothing == Told(<<>>) = {}
BY DEF Told

\* An event about another modem leaves the newest where it was.
LEMMA NewestAppended ==
    ASSUME NEW q \in Seq(Event), NEW e \in Event, NEW m, NEW row
    PROVE  /\ m \in Told(Append(q, e)) <=> m \in Told(q) \/ m \in About(e)
           /\ m \in About(e) /\ Right(e, row) => Ends(Append(q, e), m, row)
           /\ m \notin About(e) /\ Ends(q, m, row) => Ends(Append(q, e), m, row)
<1> DEFINE r == Append(q, e)
           n == Len(q)
<1>1. /\ n \in Nat /\ r \in Seq(Event) /\ Len(r) = n + 1 /\ r[n + 1] = e
      /\ \A i \in 1..n : r[i] = q[i]
  BY AppendProperties, LenProperties
<1> HIDE DEF r, n
<1>2. 1..Len(r) = 1..n \cup {n + 1}
  BY <1>1
<1>3. m \in Told(r) <=> m \in Told(q) \/ m \in About(e)
  <2>1. m \in Told(r) <=> \E i \in 1..n \cup {n + 1} : m \in About(r[i])
    BY <1>2 DEF Told
  <2>2. m \in Told(q) <=> \E i \in 1..n : m \in About(q[i])
    BY DEF Told, n
  <2> QED
    BY <1>1, <2>1, <2>2
<1>4. ASSUME m \in About(e), Right(e, row) PROVE Ends(r, m, row)
  <2>1. n + 1 \in 1..Len(r) /\ \A j \in 1..Len(r) : ~(j > n + 1)
    BY <1>1
  <2> QED
    BY <1>1, <1>4, <2>1 DEF Ends
<1>5. ASSUME m \notin About(e), Ends(q, m, row) PROVE Ends(r, m, row)
  <2>1. PICK i \in 1..n : /\ m \in About(q[i]) /\ Right(q[i], row)
                          /\ \A j \in 1..n : j > i => m \notin About(q[j])
    BY <1>5 DEF Ends, n
  <2>2. i \in 1..Len(r) /\ r[i] = q[i]
    BY <1>1
  <2>3. \A j \in 1..Len(r) : j > i => m \notin About(r[j])
    BY <1>1, <1>2, <1>5, <2>1
  <2> QED
    BY <2>1, <2>2, <2>3 DEF Ends
<1> QED
  BY <1>3, <1>4, <1>5 DEF r

\* An event that is taken was the newest about its modem, or leaves the
\* newest behind.
LEMMA NewestBehind ==
    ASSUME NEW q \in Seq(Event), q # <<>>, NEW m, NEW row
    PROVE  /\ m \in Told(q) <=> m \in Told(Tail(q)) \/ m \in About(Head(q))
           /\ Ends(q, m, row) /\ m \in Told(Tail(q)) => Ends(Tail(q), m, row)
           /\ Ends(q, m, row) /\ m \notin Told(Tail(q)) =>
                m \in About(Head(q)) /\ Right(Head(q), row)
<1> DEFINE r == Tail(q)
           n == Len(r)
<1>1. /\ n \in Nat /\ r \in Seq(Event) /\ Len(q) = n + 1 /\ Head(q) = q[1]
      /\ \A i \in 1..n : r[i] = q[i + 1]
  BY HeadTailProperties, LenProperties
<1> HIDE DEF r, n
<1>2. \A k \in 1..Len(q) : k = 1 \/ (k - 1 \in 1..n /\ q[k] = r[k - 1])
  <2> SUFFICES ASSUME NEW k \in 1..Len(q), k # 1
               PROVE  k - 1 \in 1..n /\ q[k] = r[k - 1]
    OBVIOUS
  <2>1. k - 1 \in 1..n /\ k - 1 + 1 = k
    BY <1>1
  <2>2. r[k - 1] = q[k - 1 + 1]
    BY <1>1, <2>1
  <2> QED
    BY <2>1, <2>2
<1>3. \A i \in 1..n : i + 1 \in 1..Len(q) /\ q[i + 1] = r[i]
  BY <1>1
<1>4. m \in Told(r) <=> \E i \in 1..n : m \in About(r[i])
  BY DEF Told, n
<1>5. m \in Told(q) <=> m \in Told(r) \/ m \in About(q[1])
  <2>1. m \in Told(q) <=> \E k \in 1..Len(q) : m \in About(q[k])
    BY DEF Told
  <2>2. 1 \in 1..Len(q)
    BY <1>1
  <2> QED
    BY <1>2, <1>3, <1>4, <2>1, <2>2
<1>6. ASSUME Ends(q, m, row)
      PROVE  /\ m \in Told(r) => Ends(r, m, row)
             /\ m \notin Told(r) => m \in About(q[1]) /\ Right(q[1], row)
  <2>1. PICK k \in 1..Len(q) : /\ m \in About(q[k]) /\ Right(q[k], row)
                               /\ \A j \in 1..Len(q) : j > k => m \notin About(q[j])
    BY <1>6 DEF Ends
  <2>2. CASE k = 1
    <3>1. \A i \in 1..n : m \notin About(r[i])
      <4> SUFFICES ASSUME NEW i \in 1..n PROVE m \notin About(r[i])
        OBVIOUS
      <4>1. i + 1 \in 1..Len(q) /\ i + 1 > k /\ q[i + 1] = r[i]
        BY <1>1, <1>3, <2>2
      <4> QED
        BY <2>1, <4>1
    <3> QED
      BY <1>4, <2>1, <2>2, <3>1
  <2>3. CASE k # 1
    <3>1. k - 1 \in 1..n /\ q[k] = r[k - 1]
      BY <1>2, <2>3
    <3>2. \A j \in 1..n : j > k - 1 => m \notin About(r[j])
      <4> SUFFICES ASSUME NEW j \in 1..n, j > k - 1 PROVE m \notin About(r[j])
        OBVIOUS
      <4>1. j + 1 \in 1..Len(q) /\ j + 1 > k /\ q[j + 1] = r[j]
        BY <1>1, <1>3
      <4> QED
        BY <2>1, <4>1
    <3>3. Ends(r, m, row) /\ m \in Told(r)
      BY <1>4, <2>1, <3>1, <3>2 DEF Ends, n
    <3> QED
      BY <3>3
  <2> QED
    BY <2>2, <2>3
<1> QED
  BY <1>1, <1>5, <1>6 DEF r

LEMMA NothingIsLostAtFirst == Init => NothingIsLost
<1> SUFFICES ASSUME Init PROVE NothingIsLost
  OBVIOUS
<1>1. /\ hubQ = <<>> /\ \A c \in Conns : out[c] = <<>>
      /\ cur \in Conns
  BY WsAssumption DEF Init
<1>2. ASSUME NEW m \in Modems \ excused PROVE Fetched(m)
  <2>1. PICK f \in Slots : fetch[f] # No
    BY <1>2 DEF Init
  <2>2. fetch[f] = [at |-> "asked"]
    BY <2>1 DEF Init
  <2> QED
    BY <2>2 DEF Fetched
<1>3. \A m \in Modems \ excused : UnderWay(m)
  BY <1>1, <1>2, ToldOfNothing DEF UnderWay, Arrived, Written, Waits
<1> QED
  BY <1>1, <1>3 DEF NothingIsLost

\* The event of a change that the page will be told is the newest about its
\* modem; it changes nothing for the others.
LEMMA ChangeLoses ==
    ASSUME IInv, NothingIsLost, NEW m \in Modems, Change(m)
    PROVE  NothingIsLost'
<1>1. UNCHANGED <<srv, out, dead, sock, cur, view, fetch>>
  BY DEF Change, StateChanges, SimUpdated, Removed, OtherEvent, ChangesQuietly, Reports,
         server, page, shown
<1>2. ASSUME NEW ev \in Event, NEW row \in Row, Reports(ev, row), ev.m = m,
             ev.kind = "other" => row = now[m],
             NEW n \in Modems, n \notin excused'
      PROVE  UnderWay(n)'
  <2> DEFINE room == Len(hubQ) < HubCap
  <2>1. /\ now' = [now EXCEPT ![m] = row] /\ now \in [Modems -> Row] /\ hubQ \in Seq(Event)
        /\ hubQ' = (IF room THEN Append(hubQ, ev) ELSE hubQ)
        /\ excused' = IF room /\ Right(ev, row) THEN excused \ About(ev)
                      ELSE excused \cup About(ev)
    BY <1>2, Typed DEF Reports, IInv
  <2> HIDE DEF room
  <2>2. CASE n \in About(ev)
    <3>1. n = m /\ room /\ Right(ev, row)
      BY <1>2, <2>1, <2>2 DEF About
    <3>2. hubQ' = Append(hubQ, ev) /\ now'[n] = row
      BY <2>1, <3>1
    <3>3. n \in Told(hubQ') /\ Ends(hubQ', n, row)
      BY <2>1, <2>2, <3>1, <3>2, NewestAppended
    <3> QED
      BY <3>2, <3>3 DEF UnderWay
  <2>3. CASE n \notin About(ev)
    <3>1. n \notin excused /\ now'[n] = now[n]
      BY <1>2, <2>1, <2>3 DEF About
    <3>2. UnderWay(n)
      BY <3>1 DEF NothingIsLost
    <3>3. /\ n \in Told(hubQ') <=> n \in Told(hubQ)
          /\ Ends(hubQ, n, now[n]) => Ends(hubQ', n, now[n])
      BY <2>1, <2>3, NewestAppended
    <3> QED
      BY <1>1, <3>1, <3>2, <3>3 DEF UnderWay, Arrived, Written, Waits, Fetched
  <2> QED
    BY <2>2, <2>3
<1>3. ASSUME ChangesQuietly(m), NEW n \in Modems, n \notin excused'
      PROVE  UnderWay(n)'
  <2>1. n # m /\ n \notin excused /\ hubQ' = hubQ
    BY <1>3 DEF ChangesQuietly
  <2>2. now'[n] = now[n]
    BY <1>3, <2>1, Typed DEF ChangesQuietly, IInv
  <2>3. UnderWay(n)
    BY <2>1 DEF NothingIsLost
  <2> QED
    BY <1>1, <2>1, <2>2, <2>3 DEF UnderWay, Arrived, Written, Waits, Fetched
<1> QED
  BY <1>1, <1>2, <1>3, Reported DEF NothingIsLost

LEMMA DispatchLoses ==
    ASSUME IInv, NothingIsLost, HubDispatch
    PROVE  NothingIsLost'
<1> DEFINE e  == Head(hubQ)
           ok == cur # None /\ Takes(cur) /\ sock[cur] = "open" /\ cur \notin dead
<1>1. /\ hubQ # <<>> /\ hubQ' = Tail(hubQ)
      /\ out' = [c \in Conns |-> IF Takes(c) THEN Append(out[c], e) ELSE out[c]]
      /\ excused' = IF ok THEN excused ELSE excused \cup (About(e) \ Told(Tail(hubQ)))
      /\ UNCHANGED <<now, srv, dead, sock, cur, view, fetch>>
  BY DEF HubDispatch, page, shown
<1>2. hubQ \in Seq(Event) /\ e \in Event
  BY <1>1, Typed, Taken DEF IInv
<1>3. ASSUME NEW m
      PROVE  /\ m \in Told(hubQ) <=> m \in Told(Tail(hubQ)) \/ m \in About(e)
             /\ Ends(hubQ, m, now[m]) /\ m \in Told(Tail(hubQ)) => Ends(Tail(hubQ), m, now[m])
             /\ Ends(hubQ, m, now[m]) /\ m \notin Told(Tail(hubQ)) =>
                  m \in About(e) /\ Right(e, now[m])
  BY <1>1, <1>2, NewestBehind
<1>4. \A c \in Conns : srv'[c] \in {"none", "accepted"} => out'[c] = <<>>
  BY <1>1 DEF NothingIsLost, Takes
<1> HIDE DEF e
<1>5. ASSUME NEW m \in Modems, m \notin excused' PROVE UnderWay(m)'
  <2>1. UnderWay(m)
    BY <1>1, <1>5 DEF NothingIsLost
  <2>2. CASE m \in Told(Tail(hubQ))
    BY <1>1, <1>3, <2>1, <2>2 DEF UnderWay
  <2>3. CASE m \notin Told(Tail(hubQ)) /\ m \in About(e)
    <3>1. ok /\ cur \in Conns /\ Right(e, now[m])
      BY <1>1, <1>3, <1>5, <2>1, <2>3 DEF UnderWay, IInv, TypeOK
    <3>2. out'[cur] = Append(out[cur], e) /\ out[cur] \in Seq(Event)
      BY <1>1, <3>1, Typed DEF IInv
    <3>3. m \in Told(out'[cur]) /\ Ends(out'[cur], m, now[m])
      BY <1>2, <2>3, <3>1, <3>2, NewestAppended
    <3> QED
      BY <1>1, <2>3, <3>1, <3>3 DEF UnderWay, Arrived, Written, Waits
  <2>4. CASE m \notin Told(Tail(hubQ)) /\ m \notin About(e)
    <3>1. m \notin Told(hubQ) /\ Arrived(m) /\ Written(m)
      BY <1>3, <2>1, <2>4 DEF UnderWay
    <3>2. CASE cur = None
      BY <1>1, <2>4, <3>1, <3>2 DEF UnderWay, Arrived, Written, Waits, Fetched
    <3>3. CASE cur # None
      <4>1. /\ cur \in Conns /\ out[cur] \in Seq(Event)
            /\ out'[cur] = out[cur] \/ out'[cur] = Append(out[cur], e)
        BY <1>1, <3>3, Typed DEF IInv, TypeOK
      <4>2. /\ m \in Told(out'[cur]) <=> m \in Told(out[cur])
            /\ Ends(out[cur], m, now[m]) => Ends(out'[cur], m, now[m])
        <5>1. CASE out'[cur] = out[cur]
          BY <5>1
        <5>2. CASE out'[cur] = Append(out[cur], e)
          <6> DEFINE q == out[cur]
          <6>1. q \in Seq(Event) /\ out'[cur] = Append(q, e)
            BY <4>1, <5>2
          <6> HIDE DEF q
          <6>2. /\ m \in Told(Append(q, e)) <=> m \in Told(q)
                /\ Ends(q, m, now[m]) => Ends(Append(q, e), m, now[m])
            BY <1>2, <2>4, <6>1, NewestAppended
          <6> QED
            BY <6>1, <6>2 DEF q
        <5> QED
          BY <4>1, <5>1, <5>2
      <4> QED
        BY <1>1, <2>4, <3>1, <4>2 DEF UnderWay, Arrived, Written, Waits, Fetched
    <3> QED
      BY <3>2, <3>3
  <2> QED
    BY <2>2, <2>3, <2>4
<1> QED
  BY <1>4, <1>5 DEF NothingIsLost

\* A step that leaves the events, the page and its socket as they are.
LEMMA UnmovedLoses ==
    ASSUME IInv, NothingIsLost,
           UNCHANGED <<now, hubQ, out, cur, view, fetch, excused, sock>>,
           \A c \in Conns : srv'[c] \in {"none", "accepted"} =>
                              srv[c] \in {"none", "accepted"} \/ out[c] = <<>>,
           dead' \subseteq dead
    PROVE  NothingIsLost'
BY DEF NothingIsLost, UnderWay, Arrived, Written, Waits, Fetched

\* What an event brings to the page, of its own modem and of the others.
LEMMA EventBrings ==
    ASSUME IInv, NEW e \in Event, Handle(e), now' = now,
           NEW m \in Modems, m \notin excused'
    PROVE  /\ m \notin excused
           /\ m \in About(e) /\ Right(e, now[m]) => view'[m] = now[m] \/ Fetched(m)'
           /\ m \notin About(e) /\ (view[m] = now[m] \/ Fetched(m)) =>
                view'[m] = now[m] \/ Fetched(m)'
<1>1. /\ view \in [Modems -> Row] /\ e.m \in Modems /\ fetch \in [Slots -> Fetches]
      /\ e.kind \in {"state", "removed", "sim", "other"}
  BY Typed DEF IInv, Event
<1>2. m \notin excused
  BY DEF Handle
<1>3. ASSUME NEW f \in Slots, Ask(f) PROVE Fetched(m)'
  BY <1>1, <1>3 DEF Ask, Fetched
<1>4. UNCHANGED fetch => (Fetched(m) => Fetched(m)')
  BY DEF Fetched
<1>5. CASE e.kind = "state" /\ HandleState(e.m, e.row)
  <2>1. \/ view' = [view EXCEPT ![e.m] = e.row] /\ UNCHANGED fetch
        \/ \E f \in Slots : Ask(f)
    BY <1>5 DEF HandleState
  <2> QED
    BY <1>1, <1>2, <1>3, <1>4, <1>5, <2>1 DEF About, Right
<1>6. CASE e.kind = "removed" /\ HandleRemoved(e.m)
  <2>1. /\ UNCHANGED fetch
        /\ view' = [view EXCEPT ![e.m] = IF view[e.m] = Gone THEN Gone ELSE Offline]
        /\ view[e.m] = Gone => excused' = excused \cup {e.m}
    BY <1>6 DEF HandleRemoved, Handle
  <2>2. CASE m = e.m
    <3>1. view'[m] = Offline
      BY <1>1, <2>1, <2>2
    <3>2. e.row = Offline /\ (Right(e, now[m]) => e.row = now[m])
      BY <1>6 DEF Right, Event
    <3> QED
      BY <1>2, <1>6, <2>2, <3>1, <3>2 DEF About
  <2>3. CASE m # e.m
    BY <1>1, <1>2, <1>4, <2>1, <2>3 DEF About
  <2> QED
    BY <2>2, <2>3
<1>7. CASE e.kind = "sim" /\ UNCHANGED view /\ \E f \in Slots : Ask(f)
  BY <1>2, <1>3, <1>7
<1>8. CASE e.kind = "other" /\ UNCHANGED <<view, fetch>>
  BY <1>2, <1>4, <1>8 DEF About
<1> QED
  BY <1>5, <1>6, <1>7, <1>8 DEF Handle

LEMMA WriterLoses ==
    ASSUME IInv, NothingIsLost, NEW c \in Conns, WriterWrites(c)
    PROVE  NothingIsLost'
<1> DEFINE e == Head(out[c])
           q == out[c]
<1>1. /\ srv[c] = "reading" /\ q # <<>>
      /\ out' = [out EXCEPT ![c] = Tail(q)]
      /\ IF c \in dead \/ sock[c] # "open" THEN UNCHANGED <<view, fetch, excused>>
         ELSE Handle(e)
      /\ UNCHANGED <<now, hubQ, srv, dead, sock, cur>>
  BY DEF WriterWrites, page
<1>2. /\ q \in Seq(Event) /\ e \in Event /\ out \in [Conns -> Seq(Event)]
  BY <1>1, Typed, Taken DEF IInv
<1>3. ASSUME NEW m
      PROVE  /\ m \in Told(q) <=> m \in Told(Tail(q)) \/ m \in About(e)
             /\ Ends(q, m, now[m]) /\ m \in Told(Tail(q)) => Ends(Tail(q), m, now[m])
             /\ Ends(q, m, now[m]) /\ m \notin Told(Tail(q)) =>
                  m \in About(e) /\ Right(e, now[m])
  BY <1>1, <1>2, NewestBehind
<1>4. \A d \in Conns : srv'[d] \in {"none", "accepted"} => out'[d] = <<>>
  BY <1>1, <1>2 DEF NothingIsLost
<1>5. out'[c] = Tail(q) /\ \A d \in Conns : d # c => out'[d] = out[d]
  BY <1>1, <1>2
<1>6. c = cur => q = out[cur] /\ cur # None
  BY WsAssumption
<1> HIDE DEF e, q
<1>7. ASSUME NEW m \in Modems, m \notin excused' PROVE UnderWay(m)'
  <2>1. m \notin excused /\ UnderWay(m)
    BY <1>1, <1>7 DEF NothingIsLost, Handle
  <2>2. CASE m \in Told(hubQ)
    BY <1>1, <2>1, <2>2 DEF UnderWay
  <2>3. CASE m \notin Told(hubQ) /\ c # cur
    <3>1. UNCHANGED <<view, fetch>>
      BY <1>1, <2>3 DEF IInv, OnlyCurrent, Live
    <3>2. cur # None => out'[cur] = out[cur]
      BY <1>5, <2>3 DEF IInv, TypeOK
    <3> QED
      BY <1>1, <2>1, <2>3, <3>1, <3>2 DEF UnderWay, Arrived, Written, Waits, Fetched
  <2>4. CASE m \notin Told(hubQ) /\ c = cur /\ m \in Told(Tail(q))
    <3>1. Waits(m) /\ Written(m)
      BY <1>3, <1>6, <2>1, <2>4 DEF UnderWay, Waits
    <3>2. Ends(Tail(q), m, now[m]) /\ sock[cur] = "open" /\ cur \notin dead
      BY <1>3, <1>6, <2>4, <3>1 DEF Written
    <3>3. out'[cur] = Tail(q) /\ cur # None
      BY <1>5, <1>6, <2>4
    <3>4. Waits(m)' /\ Written(m)'
      BY <1>1, <2>4, <3>2, <3>3 DEF Waits, Written
    <3> QED
      BY <1>1, <2>4, <3>4 DEF UnderWay, Arrived
  <2>5. CASE m \notin Told(hubQ) /\ c = cur /\ m \notin Told(Tail(q))
    <3>1. out'[cur] = Tail(q) /\ cur # None
      BY <1>5, <1>6, <2>5
    <3>2. ~Waits(m)'
      BY <1>1, <2>5, <3>1 DEF Waits
    <3>3. CASE m \in About(e)
      <4>1. Waits(m) /\ Written(m)
        BY <1>3, <1>6, <2>1, <2>5, <3>3 DEF UnderWay, Waits
      <4>2. Right(e, now[m]) /\ Handle(e)
        BY <1>1, <1>3, <1>6, <2>5, <4>1 DEF Written
      <4>3. view'[m] = now[m] \/ Fetched(m)'
        BY <1>1, <1>2, <1>7, <3>3, <4>2, EventBrings
      <4> QED
        BY <1>1, <2>5, <3>2, <4>3 DEF UnderWay, Arrived, Written
    <3>4. CASE m \notin About(e)
      <4>1. ~Waits(m) /\ (view[m] = now[m] \/ Fetched(m))
        BY <1>3, <1>6, <2>1, <2>5, <3>4 DEF UnderWay, Waits, Arrived
      <4>2. view'[m] = now[m] \/ Fetched(m)'
        <5>1. CASE Handle(e)
          BY <1>1, <1>2, <1>7, <3>4, <4>1, <5>1, EventBrings
        <5>2. CASE UNCHANGED <<view, fetch>>
          BY <1>1, <4>1, <5>2 DEF Fetched
        <5> QED
          BY <1>1, <5>1, <5>2
      <4> QED
        BY <1>1, <2>5, <3>2, <4>2 DEF UnderWay, Arrived, Written
    <3> QED
      BY <3>3, <3>4
  <2> QED
    BY <2>2, <2>3, <2>4, <2>5
<1> QED
  BY <1>4, <1>7 DEF NothingIsLost

LEMMA ConnLoses ==
    ASSUME IInv, NothingIsLost, NEW c \in Conns, ConnStep(c)
    PROVE  NothingIsLost'
<1>1. CASE Register(c)
  BY <1>1, UnmovedLoses, Typed DEF Register, page, shown, IInv
<1>2. CASE WriterWrites(c)
  BY <1>2, WriterLoses
<1>3. ASSUME NEW from, NEW to \in {"failed", "mute", "left"}, ConnMoves(c, from, to)
      PROVE  NothingIsLost'
  BY <1>3, UnmovedLoses, Typed DEF ConnMoves, page, shown, IInv
<1>4. CASE WriterFails(c) \/ PingFails(c) \/ ReaderLeaves(c) \/ Expires(c)
  BY <1>3, <1>4 DEF WriterFails, PingFails, ReaderLeaves, Expires
<1>5. CASE Unregister(c)
  <2>1. /\ out' = [out EXCEPT ![c] = <<>>] /\ srv' = [srv EXCEPT ![c] = "none"]
        /\ excused' = excused \cup Lost(c)
        /\ UNCHANGED <<now, hubQ, dead, sock, cur, view, fetch>>
    BY <1>5 DEF Unregister, page, shown
  <2>2. \A d \in Conns : srv'[d] \in {"none", "accepted"} => out'[d] = <<>>
    BY <2>1, Typed DEF NothingIsLost, IInv
  <2>3. out'[c] = <<>> /\ \A d \in Conns : d # c => out'[d] = out[d]
    BY <2>1, Typed DEF IInv
  <2>4. ASSUME NEW m \in Modems, m \notin excused' PROVE UnderWay(m)'
    <3>1. m \notin excused /\ m \notin Lost(c) /\ UnderWay(m)
      BY <2>1, <2>4 DEF NothingIsLost
    <3>2. CASE c # cur
      <4>1. cur # None => out'[cur] = out[cur]
        BY <2>3, <3>2 DEF IInv, TypeOK
      <4> QED
        BY <2>1, <3>1, <4>1 DEF UnderWay, Arrived, Written, Waits, Fetched
    <3>3. CASE c = cur
      <4>1. m \notin Told(hubQ) => ~Waits(m)
        BY <3>1, <3>3 DEF Lost, Waits
      <4>2. ~Waits(m)'
        BY <2>1, <2>3, <3>3, ToldOfNothing DEF Waits
      <4> QED
        BY <2>1, <3>1, <4>1, <4>2 DEF UnderWay, Arrived, Written, Fetched
    <3> QED
      BY <3>2, <3>3
  <2> QED
    BY <2>2, <2>4 DEF NothingIsLost
<1> QED
  BY <1>1, <1>2, <1>4, <1>5 DEF ConnStep

LEMMA UpgradeLoses ==
    ASSUME IInv, NothingIsLost, NEW c \in Conns, Upgrade(c)
    PROVE  NothingIsLost'
<1>1. /\ sock[c] = "connecting" /\ sock' = [sock EXCEPT ![c] = "open"]
      /\ srv[c] = "none" /\ srv' = [srv EXCEPT ![c] = "accepted"]
      /\ UNCHANGED <<now, hubQ, out, dead, cur, view, fetch, excused>>
  BY DEF Upgrade, shown
<1>2. \A d \in Conns : srv'[d] \in {"none", "accepted"} => out'[d] = <<>>
  BY <1>1, Typed DEF NothingIsLost, IInv
<1>3. cur \in Conns => (sock[cur] = "open" => sock'[cur] = "open")
  BY <1>1, Typed DEF IInv
<1>4. ASSUME NEW m \in Modems \ excused' PROVE UnderWay(m)'
  BY <1>1, <1>3, <1>4
     DEF NothingIsLost, UnderWay, Arrived, Written, Waits, Fetched, IInv, TypeOK
<1> QED
  BY <1>2, <1>4 DEF NothingIsLost

\* The socket of the page, or its link, is lost, and what waits for it.
LEMMA LinkLoses ==
    ASSUME IInv, NothingIsLost, NEW c \in Conns,
           excused' = excused \cup Lost(c),
           UNCHANGED <<now, hubQ, srv, out, cur, view, fetch>>,
           \/ sock' = [sock EXCEPT ![c] = "closed"] /\ UNCHANGED dead
           \/ dead' = dead \cup {c} /\ UNCHANGED sock
    PROVE  NothingIsLost'
<1>1. ASSUME NEW m \in Modems, m \notin excused' PROVE UnderWay(m)'
  <2>1. m \notin Lost(c) /\ UnderWay(m)
    BY <1>1 DEF NothingIsLost
  <2>2. m \notin Told(hubQ) /\ Waits(m) => c # cur /\ cur \in Conns
    BY <2>1 DEF Lost, Waits, IInv, TypeOK
  <2>3. c # cur /\ cur \in Conns => sock'[cur] = sock[cur] /\ (cur \in dead' => cur \in dead)
    BY Typed DEF IInv
  <2> QED
    BY <2>1, <2>2, <2>3 DEF UnderWay, Arrived, Written, Waits, Fetched
<1> QED
  BY <1>1 DEF NothingIsLost

LEMMA OnCloseLoses ==
    ASSUME IInv, NothingIsLost, NEW c \in Conns, NEW abnormal \in BOOLEAN,
           OnClose(c, abnormal)
    PROVE  NothingIsLost'
BY LinkLoses DEF OnClose, server, shown

LEMMA LinkDiesLoses ==
    ASSUME IInv, NothingIsLost, NEW c \in Conns, LinkDies(c)
    PROVE  NothingIsLost'
BY LinkLoses DEF LinkDies, server, page, shown

\* A new socket takes a connection whose channel is empty, and is made only
\* when nothing waits for the old one.
LEMMA ConnectLoses ==
    ASSUME IInv, NothingIsLost, Connect(cur, sock),
           UNCHANGED <<now, hubQ, srv, out, view, fetch, excused>>
    PROVE  NothingIsLost'
<1>1. CASE cur # None /\ sock[cur] \in Live
  <2>1. UNCHANGED <<cur, sock, dead>>
    BY <1>1 DEF Connect, Live
  <2> QED
    BY <2>1 DEF NothingIsLost, UnderWay, Arrived, Written, Waits, Fetched
<1>2. CASE ~(cur # None /\ sock[cur] \in Live)
  <2>1. PICK c \in Conns : srv[c] = "none" /\ cur' = c
    BY <1>2 DEF Connect, Live
  <2>2. out'[c] = <<>>
    BY <2>1 DEF NothingIsLost
  <2>3. ASSUME NEW m \in Modems \ excused' PROVE UnderWay(m)'
    <3>1. ~Waits(m)'
      BY <2>1, <2>2, ToldOfNothing DEF Waits
    <3>2. Written(m) => ~Waits(m)
      BY <1>2 DEF Written, Waits, Live
    <3> QED
      BY <2>3, <3>1, <3>2 DEF NothingIsLost, UnderWay, Arrived, Written, Fetched
  <2> QED
    BY <2>3 DEF NothingIsLost
<1> QED
  BY <1>1, <1>2

LEMMA UserLoses ==
    ASSUME IInv, NothingIsLost, Reconnects \/ Login \/ Logout \/ SwitchBackend
    PROVE  NothingIsLost'
<1>1. CASE Reconnects \/ Login
  BY <1>1, ConnectLoses DEF Reconnects, Login, server, shown
<1>2. CASE Logout
  <2>1. /\ cur' = None /\ excused' = excused \cup UNION {Lost(c) : c \in Conns}
        /\ UNCHANGED <<now, hubQ, srv, out, view, fetch>>
    BY <1>2 DEF Logout, server, shown
  <2>2. ASSUME NEW m \in Modems, m \notin excused' PROVE UnderWay(m)'
    <3>1. UnderWay(m) /\ \A c \in Conns : m \notin Lost(c)
      BY <2>1, <2>2 DEF NothingIsLost
    <3>2. m \notin Told(hubQ) => ~Waits(m)
      BY <3>1 DEF Waits, Lost, IInv, TypeOK
    <3>3. ~Waits(m)'
      BY <2>1 DEF Waits
    <3> QED
      BY <2>1, <3>1, <3>2, <3>3 DEF UnderWay, Arrived, Written, Fetched
  <2> QED
    BY <2>1, <2>2 DEF NothingIsLost
<1>3. CASE SwitchBackend
  BY <1>3 DEF SwitchBackend, server, NothingIsLost
<1> QED
  BY <1>1, <1>2, <1>3

LEMMA FetchLoses ==
    ASSUME IInv, NothingIsLost, NEW f \in Slots,
           Visits(f) \/ FetchReads(f) \/ FetchArrives(f) \/ FetchFails(f)
    PROVE  NothingIsLost'
<1>1. UNCHANGED <<now, hubQ, srv, out, dead, sock, cur>>
  BY DEF Visits, FetchReads, FetchArrives, FetchFails, server, page
<1>2. fetch \in [Slots -> Fetches]
  BY Typed DEF IInv
<1>3. ASSUME NEW m \in Modems
      PROVE  m \in Pending <=> m \in Told(hubQ) \/ Waits(m)
  <2>1. cur = None => cur \notin Conns
    BY WsAssumption
  <2>2. cur # None => Conns \cap {cur} = {cur}
    BY DEF IInv, TypeOK
  <2> QED
    BY <2>1, <2>2 DEF Pending, Waits
<1>4. ASSUME NEW m \in Modems, m \notin excused',
             m \notin excused => (view[m] = now[m] \/ Fetched(m) =>
                                    view'[m] = now[m] \/ Fetched(m)') \/ m \in Pending,
             m \in excused => m \notin Pending /\ Fetched(m)'
      PROVE  UnderWay(m)'
  <2>1. CASE m \in excused
    BY <1>1, <1>3, <1>4, <2>1 DEF UnderWay, Arrived, Written, Waits
  <2>2. CASE m \notin excused
    <3>1. UnderWay(m)
      BY <2>2 DEF NothingIsLost
    <3> QED
      BY <1>1, <1>3, <1>4, <2>2, <3>1 DEF UnderWay, Arrived, Written, Waits
  <2> QED
    BY <2>1, <2>2
<1>5. ASSUME NEW m \in Modems, m \notin excused' PROVE UnderWay(m)'
  <2>1. CASE Visits(f)
    <3>1. fetch[f] = No /\ fetch'[f] = [at |-> "asked"] /\ UNCHANGED <<view, excused>>
      BY <1>2, <2>1 DEF Visits, Ask
    <3>2. Fetched(m)'
      BY <3>1 DEF Fetched
    <3> QED
      BY <1>4, <1>5, <3>1, <3>2
  <2>2. CASE FetchReads(f)
    <3>1. /\ fetch'[f] = [at |-> "read", rows |-> now] /\ UNCHANGED view
          /\ excused' = excused \cap Pending
      BY <1>2, <2>2 DEF FetchReads
    <3>2. Fetched(m)'
      BY <1>1, <3>1 DEF Fetched
    <3> QED
      BY <1>4, <1>5, <3>1, <3>2
  <2>3. CASE FetchArrives(f)
    <3>1. /\ fetch[f].at = "read" /\ fetch' = [fetch EXCEPT ![f] = No]
          /\ view' = fetch[f].rows
          /\ m \notin excused
          /\ m \in Pending \/ ~(view[m] = now[m] /\ fetch[f].rows[m] # now[m])
      BY <1>5, <2>3 DEF FetchArrives
    <3>2. ASSUME Fetched(m), m \notin Pending PROVE view'[m] = now[m] \/ Fetched(m)'
      <4>1. PICK g \in Slots : \/ fetch[g].at = "asked"
                               \/ fetch[g].at = "read" /\ fetch[g].rows[m] = now[m]
        BY <3>2 DEF Fetched
      <4>2. CASE g = f
        BY <3>1, <4>1, <4>2
      <4>3. CASE g # f
        <5>1. fetch'[g] = fetch[g]
          BY <1>2, <3>1, <4>3
        <5> QED
          BY <1>1, <4>1, <5>1 DEF Fetched
      <4> QED
        BY <4>2, <4>3
    <3> QED
      BY <1>4, <1>5, <3>1, <3>2
  <2>4. CASE FetchFails(f)
    <3>1. /\ UNCHANGED view /\ m \notin excused /\ view[m] = now[m]
      BY <1>5, <2>4 DEF FetchFails
    <3> QED
      BY <1>4, <1>5, <3>1
  <2> QED
    BY <2>1, <2>2, <2>3, <2>4
<1> QED
  BY <1>1, <1>5 DEF NothingIsLost

LEMMA NextLoses ==
    ASSUME IInv, NothingIsLost, [Next]_vars
    PROVE  NothingIsLost'
<1>1. ASSUME NEW c \in Conns, SocketStep(c) \/ UpgradeFails(c) PROVE NothingIsLost'
  <2>1. (sock[c] = "aborting") \in BOOLEAN
    OBVIOUS
  <2> QED
    BY <1>1, <2>1, UpgradeLoses, OnCloseLoses
       DEF SocketStep, SocketCloses, CloseEnds, UpgradeFails
<1>2. CASE UNCHANGED vars
  BY <1>2 DEF vars, server, page, shown,
              NothingIsLost, UnderWay, Arrived, Written, Waits, Fetched
<1> QED
  BY <1>1, <1>2, ChangeLoses, DispatchLoses, ConnLoses, LinkDiesLoses, UserLoses, FetchLoses
     DEF Next

(* A page that has nothing under way shows of every modem what the tables  *)
(* hold, but for the modems that excused names: for any capacities and any *)
(* interleaving of changes, dispatches, cuts, closes, reconnections,       *)
(* logins and fetches, the row of a modem can only be missed in one of the *)
(* ways that ViewCatchesUp lists, and only until an event about that very  *)
(* modem, or a fetch, is on its way.                                       *)
THEOREM PageCatchesUp == Spec => []ViewCatchesUp
<1>1. Init => NothingIsLost
  BY NothingIsLostAtFirst
<1>2. IInv /\ NothingIsLost /\ [Next]_vars => NothingIsLost'
  BY NextLoses
<1>3. NothingIsLost /\ IInv => ViewCatchesUp
  <2> SUFFICES ASSUME NothingIsLost, IInv, AtRest, NEW m \in Modems \ excused
               PROVE  view[m] = now[m]
    BY DEF ViewCatchesUp
  <2>1. ~Waits(m) /\ ~Fetched(m) /\ m \notin Told(hubQ)
    BY ToldOfNothing DEF AtRest, Waits, Fetched, No, IInv, TypeOK
  <2> QED
    BY <2>1 DEF NothingIsLost, UnderWay, Arrived
<1> QED
  BY <1>1, <1>2, <1>3, Invariance, PTL DEF Spec

=============================================================================
