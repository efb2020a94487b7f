------------------------------- MODULE WsPush -------------------------------
(* From the runner to the web page: the events of the runner, the hub      *)
(* and its connections (ws/hub.go, ws/conn.go), and the page that connects *)
(* again whenever its socket closes (useWebSocket.ts) and merges what it   *)
(* is told with what it fetches (stores/modems.ts).  What the daemon knows *)
(* of a modem is its row: is it there, and with which SIM.  An event tells *)
(* the row of one modem, or nothing of it.  Every connection is cut by the *)
(* request timeout of the router (60 s), /ws being one of its routes.      *)
EXTENDS Naturals, Sequences

CONSTANTS
    Conns,       \* sockets of the page and their connections, used over and over
    Slots,       \* fetches that may be under way at the same time
    Modems, Sims,
    Tables,      \* what the tables may hold when the page is opened
    None,        \* no socket, no SIM
    HubCap,      \* capacity of the hub's channel (256 in the code)
    OutCap,      \* capacity of a connection's channel (64 in the code)
    MaxChanges,  \* the runner has this many events, and quiet changes
    MaxActs      \* switches and visits of the user, dead links, refused
                 \* upgrades, failed fetches and writes: this many in all

At   == {"gone", "offline", "online"}  \* no row; present = 0; present = 1
Row  == [at : At, sim : Sims \cup {None}]
Gone == [at |-> "gone", sim |-> None]
Offline == [at |-> "offline", sim |-> None]

ASSUME WsAssumption ==
    /\ Conns # {} /\ None \notin Conns \cup Sims
    /\ Tables \subseteq [Modems -> Row]
    /\ HubCap \in Nat \ {0} /\ OutCap \in Nat \ {0}
    /\ MaxChanges \in Nat /\ MaxActs \in Nat

VARIABLES
    now,                 \* the rows in the tables
    hubQ,                \* what the hub's channel holds
    reg,                 \* Hub.conns
    srv, out,            \* every connection's goroutines, and its channel
    dead,          \* links that lost the peer; what is on its way
    sock,                \* the sockets of the page
    cur, timer, status,  \* ws, reconnectTimer and status of useWebSocket
    loggedIn,
    view,                \* the rows that the page shows
    fetch,               \* the fetches under way
    changes, acts,
    excused,             \* modems whose row never reached the page, or was overwritten
    late                 \* a socket closed after it was replaced

server == <<reg, srv, out>>
page   == <<cur, timer, status, loggedIn>>
shown  == <<view, fetch>>
vars   == <<now, changes, hubQ, server, dead, sock, page, shown, acts, excused, late>>

\* modem.added and modem.updated tell a row, modem.removed that the modem is
\* off; sim.updated has the page fetch; the others (a signal, a message) say
\* nothing of the row.
Event == [kind : {"state", "sim", "other"}, m : Modems, row : Row]
         \cup [kind : {"removed"}, m : Modems, row : {Offline}]
About(ev) == IF ev.kind = "other" THEN {} ELSE {ev.m}
Told(q)   == UNION {About(q[i]) : i \in 1..Len(q)}
No        == [at |-> "no"]

Init ==
    /\ now \in Tables /\ changes = 0
    /\ hubQ = <<>> /\ reg = {}
    /\ srv = [c \in Conns |-> "none"] /\ out = [c \in Conns |-> <<>>]
    /\ dead = {}
    /\ cur = (CHOOSE c \in Conns : TRUE) /\ loggedIn = TRUE  \* App.vue, with a token
    /\ sock = [c \in Conns |-> IF c = cur THEN "connecting" ELSE "closed"]
    /\ timer = FALSE /\ status = "reconnecting"
    /\ view = [m \in Modems |-> Gone]
    /\ fetch \in [Slots -> {No, [at |-> "asked"]}]  \* by the first view
    /\ acts = 0
    /\ excused = (IF \E f \in Slots : fetch[f] # No THEN {} ELSE Modems)
    /\ late = FALSE

-----------------------------------------------------------------------------
(* Runner: the tables are written before the event is fanned out, also     *)
(* when that failed; the hub's channel drops it when it is full.           *)

\* What the page was told, or will fetch, is the row.
Right(ev, row) == ev.kind = "sim" \/ ev.row = row

Reports(ev, row) ==
    /\ changes < MaxChanges /\ changes' = changes + 1
    /\ now' = [now EXCEPT ![ev.m] = row]
    /\ LET room == Len(hubQ) < HubCap IN
       /\ hubQ' = IF room THEN Append(hubQ, ev) ELSE hubQ
       /\ excused' = IF room /\ Right(ev, row) THEN excused \ About(ev)
                     ELSE excused \cup About(ev)
    /\ UNCHANGED <<server, dead, sock, page, shown, late>>

Act == acts < MaxActs /\ acts' = acts + 1

\* UpsertModem, and UpsertSim or UnbindModem; either may fail.
StateChanges(m, sim) ==
    LET row == [at |-> "online", sim |-> sim]
        ev  == [kind |-> "state", m |-> m, row |-> row]
    IN \/ Reports(ev, row) /\ UNCHANGED acts
       \/ Reports(ev, now[m]) /\ Act
       \/ Reports(ev, [row EXCEPT !.sim = now[m].sim]) /\ Act

\* MarkModemAbsent and UnbindModem, which find no row that was deleted.
Removed(m) ==
    LET ev == [kind |-> "removed", m |-> m, row |-> Offline]
    IN \/ Reports(ev, IF now[m] = Gone THEN Gone ELSE Offline) /\ UNCHANGED acts
       \/ \E sim \in {None, now[m].sim} : Reports(ev, [now[m] EXCEPT !.sim = sim]) /\ Act
       \/ now[m] # Gone /\ Reports(ev, [now[m] EXCEPT !.at = "offline"]) /\ Act

\* UpsertSim, which binds the SIM if the modem has a row.
SimUpdated(m, sim) ==
    LET ev == [kind |-> "sim", m |-> m, row |-> Gone]
    IN \/ Reports(ev, IF now[m] = Gone THEN Gone ELSE [now[m] EXCEPT !.sim = sim])
          /\ UNCHANGED acts
       \/ Reports(ev, now[m]) /\ Act

OtherEvent(m) ==
    /\ Reports([kind |-> "other", m |-> m, row |-> Gone], now[m])
    /\ UNCHANGED acts

\* The sweep after a start, and DELETE /modems by another page: no event.
ChangesQuietly(m) ==
    /\ changes < MaxChanges /\ changes' = changes + 1
    /\ \/ now[m].at = "online"  /\ now' = [now EXCEPT ![m] = Offline]
       \/ now[m].at = "offline" /\ now' = [now EXCEPT ![m] = Gone]
    /\ excused' = excused \cup {m}
    /\ UNCHANGED <<hubQ, server, dead, sock, page, shown, acts, late>>

-----------------------------------------------------------------------------
(* Hub and connections.                                                     *)

\* Conn.send: a closed connection or a full channel drops the message.
Takes(c) == c \in reg /\ srv[c] \in {"reading", "mute"} /\ Len(out[c]) < OutCap

HubDispatch ==
    /\ hubQ # <<>>
    /\ hubQ' = Tail(hubQ)
    /\ out' = [c \in Conns |-> IF Takes(c) THEN Append(out[c], Head(hubQ)) ELSE out[c]]
    /\ excused' = IF cur # None /\ Takes(cur) /\ sock[cur] = "open" /\ cur \notin dead
                  THEN excused
                  ELSE excused \cup (About(Head(hubQ)) \ Told(Tail(hubQ)))
    /\ UNCHANGED <<now, changes, reg, srv, dead, sock, page, shown, acts, late>>

\* ServeHTTP: the upgrade is answered before the connection is registered.
Upgrade(c) ==
    /\ sock[c] = "connecting" /\ srv[c] = "none" /\ c \notin dead
    /\ srv' = [srv EXCEPT ![c] = "accepted"]
    /\ sock' = [sock EXCEPT ![c] = "open"]
    /\ status' = "connected"
    /\ UNCHANGED <<now, changes, hubQ, reg, out, dead, cur, timer, loggedIn,
                   shown, acts, excused, late>>

Register(c) ==
    /\ srv[c] = "accepted"
    /\ srv' = [srv EXCEPT ![c] = "reading"]
    /\ reg' = reg \cup {c}
    /\ UNCHANGED <<now, changes, hubQ, out, dead, sock, page, shown, acts, excused, late>>

Ask(f) == fetch[f] = No /\ fetch' = [fetch EXCEPT ![f] = [at |-> "asked"]]

\* Mutant: a SIM that the page has not is merged away.
HandleStateMerged(m, row) ==
    /\ view' = [view EXCEPT ![m] = IF @ = Gone THEN Gone ELSE [row EXCEPT !.sim = view[m].sim]]
    /\ UNCHANGED fetch

\* handleModemState: merged at once, but for a modem or a SIM that the page
\* has not: it fetches the list.
HandleState(m, row) ==
    \/ /\ view[m] # Gone /\ row.sim \in {None, view[m].sim}
       /\ view' = [view EXCEPT ![m] = row]
       /\ UNCHANGED fetch
    \/ /\ view[m] # Gone /\ row.sim \notin {None, view[m].sim}
       /\ view' = [view EXCEPT ![m].at = "online"]
       /\ \E f \in Slots : Ask(f)
    \/ /\ view[m] = Gone
       /\ UNCHANGED view
       /\ \E f \in Slots : Ask(f)

\* handleModemRemoved; the removal of a modem that is not in the list yet
\* leaves nothing.
HandleRemoved(m) ==
    /\ view' = [view EXCEPT ![m] = IF @ = Gone THEN Gone ELSE Offline]
    /\ UNCHANGED fetch

\* dispatch of the page.
Handle(ev) ==
    /\ \/ ev.kind = "state" /\ HandleState(ev.m, ev.row)
       \/ ev.kind = "removed" /\ HandleRemoved(ev.m)
       \/ ev.kind = "sim" /\ UNCHANGED view /\ \E f \in Slots : Ask(f)
       \/ ev.kind = "other" /\ UNCHANGED <<view, fetch>>
    /\ excused' = IF ev.kind = "removed" /\ view[ev.m] = Gone
                  THEN excused \cup {ev.m} ELSE excused

\* writeLoop, and the page at the other end.  A write on a dead link may
\* still succeed, and a socket that is closing ignores what comes.
WriterWrites(c) ==
    /\ srv[c] = "reading"
    /\ out[c] # <<>>
    /\ out' = [out EXCEPT ![c] = Tail(@)]
    /\ IF c \in dead \/ sock[c] # "open" THEN UNCHANGED <<view, fetch, excused>>
       ELSE Handle(Head(out[c]))
    /\ UNCHANGED <<now, changes, hubQ, reg, srv, dead, sock, page, acts, late>>

ConnMoves(c, from, to) ==
    /\ srv[c] \in from
    /\ srv' = [srv EXCEPT ![c] = to]
    /\ UNCHANGED <<now, changes, hubQ, reg, out, dead, sock, page, shown, acts, excused, late>>

\* The write fails: closeWith.
WriterFails(c) == out[c] # <<>> /\ c \in dead /\ ConnMoves(c, {"reading"}, "failed")

\* The ping fails: the goroutine ends and closes nothing.
PingFails(c) == c \in dead /\ ConnMoves(c, {"reading"}, "mute")

\* readLoop returns, for the connection was closed at one end or the other,
\* and serve calls closeWith.
ReaderLeaves(c) ==
    \/ ConnMoves(c, {"failed"}, "left")
    \/ sock[c] # "open" /\ c \notin dead /\ ConnMoves(c, {"reading", "mute"}, "left")

\* Mutant: /ws is not under the timeout of the router.
NeverExpires(c) == FALSE /\ ConnMoves(c, {"reading", "mute"}, "left")

\* middleware.Timeout: the context of the request ends, and both loops.
Expires(c) == ConnMoves(c, {"reading", "mute"}, "left")

\* What waits in a channel that the page will never read, and nothing newer
\* is on its way.
Lost(c) == IF c = cur THEN Told(out[c]) \ Told(hubQ) ELSE {}

\* The writer has ended, for c.done is closed, and serve returns.
Unregister(c) ==
    /\ srv[c] = "left"
    /\ srv' = [srv EXCEPT ![c] = "none"]
    /\ reg' = reg \ {c}
    /\ excused' = excused \cup Lost(c)
    /\ out' = [out EXCEPT ![c] = <<>>]
    /\ UNCHANGED <<now, changes, hubQ, dead, sock, page, shown, acts, late>>

\* The peer is gone without a word.
LinkDies(c) ==
    /\ sock[c] = "open" /\ c \notin dead
    /\ Act
    /\ dead' = dead \cup {c}
    /\ excused' = excused \cup Lost(c)
    /\ UNCHANGED <<now, changes, hubQ, server, sock, page, shown, late>>

-----------------------------------------------------------------------------
(* useWebSocket.ts.                                                         *)

\* Mutant: without the early return.
ConnectAnyway(ws, socks) ==
    \E c \in Conns : /\ socks[c] = "closed" /\ srv[c] = "none"
                     /\ cur' = c
                     /\ sock' = [socks EXCEPT ![c] = "connecting"]
                     /\ dead' = dead \ {c}
                     /\ status' = "reconnecting"

\* connect(), from a state where the variables have these values.
Connect(ws, socks) ==
    IF ws # None /\ socks[ws] \in {"connecting", "open"}
    THEN cur' = ws /\ sock' = socks /\ UNCHANGED <<status, dead>>
    ELSE \E c \in Conns : /\ socks[c] = "closed" /\ srv[c] = "none"
                          /\ cur' = c
                          /\ sock' = [socks EXCEPT ![c] = "connecting"]
                          /\ dead' = dead \ {c}
                          /\ status' = "reconnecting"

\* Mutant: only a connection that was open is made again.
OnCloseOnce(c, abnormal) ==
    /\ status' = IF abnormal THEN "reconnecting" ELSE "disconnected"
    /\ timer' = (timer \/ (abnormal /\ sock[c] = "open"))
    /\ late' = (late \/ c # cur)
    /\ sock' = [sock EXCEPT ![c] = "closed"]
    /\ excused' = excused \cup Lost(c)
    /\ UNCHANGED <<now, changes, hubQ, server, dead, cur, loggedIn, shown>>

\* onclose of socket c, with a code other than 1000 or with it.
OnClose(c, abnormal) ==
    /\ status' = IF abnormal THEN "reconnecting" ELSE "disconnected"
    /\ timer' = (timer \/ abnormal)
    /\ late' = (late \/ c # cur)
    /\ sock' = [sock EXCEPT ![c] = "closed"]
    /\ excused' = excused \cup Lost(c)
    /\ UNCHANGED <<now, changes, hubQ, server, dead, cur, loggedIn, shown>>

\* The server closed the connection, or the link is found dead.
SocketCloses(c) ==
    /\ sock[c] = "open"
    /\ c \in dead \/ srv[c] \in {"failed", "left", "none"}
    /\ OnClose(c, TRUE)
    /\ UNCHANGED acts

\* 401, or no answer.
UpgradeFails(c) ==
    /\ sock[c] = "connecting"
    /\ Act
    /\ OnClose(c, TRUE)

\* The page's own close is through; of a socket that was still connecting
\* it is an abnormal one.
CloseEnds(c) ==
    /\ sock[c] \in {"closing", "aborting"}
    /\ OnClose(c, sock[c] = "aborting")
    /\ UNCHANGED acts

Reconnects ==
    /\ timer
    /\ timer' = FALSE
    /\ Connect(cur, sock)
    /\ UNCHANGED <<now, changes, hubQ, server, loggedIn, shown, acts, excused, late>>

Login ==
    /\ ~loggedIn /\ Act
    /\ loggedIn' = TRUE
    /\ Connect(cur, sock)
    /\ UNCHANGED <<now, changes, hubQ, server, timer, shown, excused, late>>

\* disconnect().
Disconnected == IF cur = None THEN sock
                ELSE [sock EXCEPT ![cur] = CASE @ = "open" -> "closing"
                                             [] @ = "connecting" -> "aborting"
                                             [] OTHER -> @]

\* Mutant: the status is left to onclose.
LogoutQuietly ==
    /\ loggedIn
    /\ loggedIn' = FALSE /\ timer' = FALSE
    /\ sock' = Disconnected /\ cur' = None
    /\ excused' = excused \cup UNION {Lost(c) : c \in Conns}
    /\ UNCHANGED <<now, changes, hubQ, server, dead, status, shown, acts, late>>

Logout ==
    /\ loggedIn
    /\ loggedIn' = FALSE /\ timer' = FALSE
    /\ sock' = Disconnected /\ cur' = None
    /\ status' = "disconnected"
    /\ excused' = excused \cup UNION {Lost(c) : c \in Conns}
    /\ UNCHANGED <<now, changes, hubQ, server, dead, shown, acts, late>>

\* switchBackend to the backend that the page has: disconnect and connect
\* in one go, with empty stores.
SwitchBackend ==
    /\ loggedIn /\ Act
    /\ timer' = FALSE
    /\ Connect(None, Disconnected)
    /\ view' = [m \in Modems |-> Gone]
    /\ excused' = Modems
    /\ UNCHANGED <<now, changes, hubQ, server, loggedIn, fetch, late>>

-----------------------------------------------------------------------------
(* The messages, and the fetches they cause.                                *)

\* A view is opened, or the user refreshes it.
Visits(f) ==
    /\ Act
    /\ Ask(f)
    /\ UNCHANGED <<now, changes, hubQ, server, dead, sock, cur, timer, status, loggedIn,
                   view, excused, late>>

\* Modems of which an event is still to reach the page.
Pending == Told(hubQ) \cup UNION {Told(out[c]) : c \in Conns \cap {cur}}

\* ListModems.  A change in the middle of its queries has its event after
\* them, as one that comes later has.
FetchReads(f) ==
    /\ fetch[f].at = "asked"
    /\ fetch' = [fetch EXCEPT ![f] = [at |-> "read", rows |-> now]]
    /\ excused' = excused \cap Pending
    /\ UNCHANGED <<now, changes, hubQ, server, dead, sock, page, view, acts, late>>

\* The list of the page is replaced when the answer comes; an event, or an
\* answer on another connection, may have overtaken it.
FetchArrives(f) ==
    /\ fetch[f].at = "read"
    /\ view' = fetch[f].rows
    /\ excused' = excused \cup {m \in Modems \ Pending :
                                 view[m] = now[m] /\ fetch[f].rows[m] # now[m]}
    /\ fetch' = [fetch EXCEPT ![f] = No]
    /\ UNCHANGED <<now, changes, hubQ, server, dead, sock, page, acts, late>>

FetchFails(f) ==
    /\ fetch[f] # No
    /\ Act
    /\ fetch' = [fetch EXCEPT ![f] = No]
    /\ excused' = excused \cup {m \in Modems : view[m] # now[m]}
    /\ UNCHANGED <<now, changes, hubQ, server, dead, sock, page, view, late>>

-----------------------------------------------------------------------------
ConnStep(c) == \/ Register(c) \/ WriterWrites(c) \/ WriterFails(c) \/ PingFails(c)
               \/ ReaderLeaves(c) \/ Expires(c) \/ Unregister(c)

SocketStep(c) == Upgrade(c) \/ SocketCloses(c) \/ CloseEnds(c)

Change(m) == \/ \E sim \in Sims \cup {None} : StateChanges(m, sim)
             \/ \E sim \in Sims : SimUpdated(m, sim)
             \/ Removed(m) \/ OtherEvent(m) \/ ChangesQuietly(m)

Next == \/ \E m \in Modems : Change(m)
        \/ HubDispatch
        \/ \E c \in Conns : \/ ConnStep(c) \/ SocketStep(c)
                            \/ LinkDies(c) \/ UpgradeFails(c)
        \/ Reconnects \/ Login \/ Logout \/ SwitchBackend
        \/ \E f \in Slots : Visits(f) \/ FetchReads(f) \/ FetchArrives(f) \/ FetchFails(f)

Spec == Init /\ [][Next]_vars

\* Goroutines run, the timeout of a request and the timers of the page fire,
\* the server answers an upgrade; nothing makes a user or a modem act.
FairSpec ==
    /\ Spec
    /\ WF_vars(Reconnects)
    /\ \A c \in Conns : WF_vars(ConnStep(c)) /\ WF_vars(SocketStep(c))

-----------------------------------------------------------------------------
(* Every variable has its type; no channel holds more than its capacity.    *)
TypeOK ==
    /\ now \in [Modems -> Row] /\ changes \in 0..MaxChanges
    /\ hubQ \in Seq(Event) /\ Len(hubQ) <= HubCap
    /\ reg \subseteq Conns /\ dead \subseteq Conns
    /\ srv \in [Conns -> {"none", "accepted", "reading", "mute", "failed", "left"}]
    /\ out \in [Conns -> Seq(Event)] /\ \A c \in Conns : Len(out[c]) <= OutCap
    /\ sock \in [Conns -> {"connecting", "open", "closing", "aborting", "closed"}]
    /\ cur \in Conns \cup {None}
    /\ timer \in BOOLEAN /\ loggedIn \in BOOLEAN
    /\ status \in {"connected", "reconnecting", "disconnected"}
    /\ view \in [Modems -> Row]
    /\ fetch \in [Slots -> {No, [at |-> "asked"]} \cup [at : {"read"}, rows : [Modems -> Row]]]
    /\ acts \in 0..MaxActs
    /\ excused \subseteq Modems /\ late \in BOOLEAN

(* The page never has two sockets that deliver: a message would be shown    *)
(* and counted twice.  Logins, switches and the reconnect timer all connect.*)
SingleSocket ==
    \A c, d \in Conns :
      (sock[c] \in {"connecting", "open"} /\ sock[d] \in {"connecting", "open"}) => c = d

(* The page says "connected" exactly while its socket is open, unless the   *)
(* close of a replaced socket came after the next one was opened.           *)
StatusIsTrue ==
    late \/ (status = "connected" <=> cur # None /\ sock[cur] = "open")

\* Nothing that concerns the page is under way.
AtRest == /\ hubQ = <<>>
          /\ \A c \in Conns : out[c] = <<>>
          /\ \A f \in Slots : fetch[f] = No

(* When nothing is under way the page shows of every modem what the tables *)
(* hold, unless the newest event about that very modem fell into a full    *)
(* channel or a gap between two connections, the row changed without an    *)
(* event or the event told what could not be written, the fetch that it    *)
(* called for failed, one that was read before it arrived after it, or it  *)
(* removed a modem that was not in the list yet.  An event about another   *)
(* modem, or a signal, makes up for nothing.                               *)
ViewCatchesUp == AtRest => \A m \in Modems \ excused : view[m] = now[m]

(* A connection whose peer is gone is unregistered some time: no list grows *)
(* with pages that were closed, not even when the link died silently.       *)
ConnectionEnds ==
    \A c \in Conns : (sock[c] = "closed" /\ srv[c] # "none") ~> srv[c] = "none"

(* A page that is logged in gets a connection, however often the last one   *)
(* was cut, refused or replaced.                                            *)
PageReconnects ==
    loggedIn ~> ((cur # None /\ sock[cur] = "open") \/ ~loggedIn)

=============================================================================
