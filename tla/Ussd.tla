-------------------------------- MODULE Ussd --------------------------------
(* The USSD dialogue of one modem: what ModemManager publishes about it,   *)
(* what the provider keeps of that (onUSSDPropsChanged), and the rows that *)
(* the runner writes into ussd_sessions.  ModemManager has one dialogue    *)
(* per modem and no identifiers: a dialogue is numbered here to tell what  *)
(* belongs to it, and a text of the network is the number of its dialogue. *)
EXTENDS Naturals, Sequences, FiniteSetsExt

CONSTANTS
    None,          \* no value
    MaxDialogues,  \* dialogues, the network's own and its notifications
    QueueCap       \* capacity of the provider's channel (256 in the code)

ASSUME UssdAssumption ==
    /\ MaxDialogues \in Nat /\ QueueCap \in Nat \ {0}
    /\ None \notin {"unknown", "idle", "active", "user_response"}
    /\ None \notin 1..MaxDialogues

VARIABLES
    mm,      \* ModemManager: the state of the dialogue, its number, and the
             \* bot's call (Initiate or Respond)
    entry,   \* the provider's USSDSession
    events,  \* the channel from the provider to the runner
    rows,    \* ussd_sessions, by id
    lost,    \* the last event did not fit into the channel
    unwritten   \* what is not written of the last one that the runner took

ussdVars == <<mm, entry, events, rows, lost, unwritten>>

Dialogues == 1..MaxDialogues
States    == {"unknown", "idle", "active", "user_response"}
Over(st)  == st \in {"unknown", "idle"}
Snapshot  == [st : States \cup {None},
              req : Dialogues \cup {None}, note : Dialogues \cup {None}]
Writes    == {"request", "notification", "state"}  \* of one event
Unknown   == [st |-> None, req |-> None, note |-> None]

UssdInit ==
    /\ mm = [st |-> "idle", n |-> 0, call |-> "none"]
    /\ entry = Unknown /\ events = <<>> /\ rows = <<>>
    /\ lost = FALSE /\ unwritten = Writes

-----------------------------------------------------------------------------
(* The provider: properties that are not in the signal, and empty ones,     *)
(* keep the value that they had.                                            *)
Merged(changed) ==
    [p \in DOMAIN entry |-> IF changed[p] # None THEN changed[p] ELSE entry[p]]

OnUSSDPropsChanged(changed) ==
    LET room == Len(events) < QueueCap IN
    /\ entry' = Merged(changed)
    /\ events' = IF room THEN Append(events, entry') ELSE events
    /\ lost' = ~room
    /\ UNCHANGED <<rows, unwritten>>

-----------------------------------------------------------------------------
(* ModemManager and the network; each change is signalled.                  *)
Published(st)    == OnUSSDPropsChanged([Unknown EXCEPT !.st = st])
Requested(st, n) == OnUSSDPropsChanged([Unknown EXCEPT !.st = st, !.req = n])

\* What becomes of the bot's call when the dialogue moves.
CallIs(result) == IF mm.call = "waiting" THEN result ELSE mm.call

\* Initiate: refused while another dialogue is on.
Begins(who) ==
    /\ mm.st = "idle" /\ mm.n < MaxDialogues
    /\ mm' = [st |-> "active", n |-> mm.n + 1,
              call |-> IF who = "bot" THEN "waiting" ELSE mm.call]
    /\ Published("active")

\* Respond: refused unless the network has asked.
Responds(who) ==
    /\ mm.st = "user_response"
    /\ mm' = [mm EXCEPT !.st = "active",
                        !.call = IF who = "bot" THEN "waiting" ELSE @]
    /\ Published("active")

NetworkAsks ==
    /\ mm.st = "active"
    /\ mm' = [mm EXCEPT !.st = "user_response", !.call = CallIs("answered")]
    /\ Requested("user_response", mm.n)

\* The last answer is the reply of the call and no property.
NetworkAnswers ==
    /\ mm.st = "active"
    /\ mm' = [mm EXCEPT !.st = "idle", !.call = CallIs("answered")]
    /\ Published("idle")

\* Given up by the network, cancelled (CancelUSSD), or out of sight.
Ends ==
    /\ mm.st # "idle"
    /\ mm' = [mm EXCEPT !.st = "idle", !.call = CallIs("failed")]
    /\ Published("idle") \/ Published("unknown")

NetworkStarts ==
    /\ mm.st = "idle" /\ mm.n < MaxDialogues
    /\ mm' = [mm EXCEPT !.st = "user_response", !.n = @ + 1]
    /\ Requested("user_response", mm.n + 1)

\* A notification changes no state.
NetworkNotifies ==
    /\ mm.st = "idle" /\ mm.n < MaxDialogues
    /\ mm' = [mm EXCEPT !.n = @ + 1]
    /\ OnUSSDPropsChanged([Unknown EXCEPT !.note = mm.n + 1])

NetworkStep == NetworkAsks \/ NetworkAnswers \/ NetworkStarts \/ NetworkNotifies

-----------------------------------------------------------------------------
(* The rows.                                                                *)
Open(row)  == row.st \in {"active", "user_response"}
OpenIn(rs) == {i \in DOMAIN rs : Open(rs[i])}

\* A row holds the texts of these dialogues.
AppendUSSD(rs, text) ==
    IF text = None THEN rs
    ELSE IF OpenIn(rs) = {} THEN Append(rs, [st |-> "active", of |-> {text}])
    ELSE [rs EXCEPT ![Max(OpenIn(rs))].of = @ \cup {text}]

mapUSSDDBState(st) == CASE st = "idle"    -> "terminated"
                        [] st = "unknown" -> "failed"
                        [] st = None      -> "active"
                        [] OTHER          -> st

\* Mutant: only a row that waited for the user is moved on.
SetUSSDStateOfEnded(rs, st) ==
    [i \in DOMAIN rs |-> IF rs[i].st = "user_response" THEN [rs[i] EXCEPT !.st = st] ELSE rs[i]]

SetUSSDState(rs, st) ==
    [i \in DOMAIN rs |-> IF Open(rs[i]) THEN [rs[i] EXCEPT !.st = st] ELSE rs[i]]

\* handleEvent: USSDStateChanged.  Each write may fail, and the runner goes
\* on; of an event of a modem that has no id nothing is written.
Persisted(rs, ev, failed) ==
    LET asked == IF "request" \in failed THEN rs ELSE AppendUSSD(rs, ev.req)
        told  == IF "notification" \in failed THEN asked ELSE AppendUSSD(asked, ev.note)
    IN IF "state" \in failed THEN told ELSE SetUSSDState(told, mapUSSDDBState(ev.st))

-----------------------------------------------------------------------------
UssdTypeOK ==
    /\ mm \in [st : States \ {"unknown"}, n : 0..MaxDialogues,
               call : {"none", "waiting", "answered", "failed"}]
    /\ mm.st # "idle" => mm.n \in Dialogues
    /\ entry \in Snapshot
    /\ events \in Seq(Snapshot) /\ Len(events) <= QueueCap
    /\ rows \in Seq([st : {"active", "user_response", "terminated", "failed"},
                     of : SUBSET Dialogues])
    /\ lost \in BOOLEAN /\ unwritten \subseteq Writes

(* When the runner has caught up, the history says what the provider last   *)
(* saw: the last texts are in a row, and no row is left open when the       *)
(* dialogue is over, but for what it could not write of the last event.  An *)
(* event that was dropped, and a write that failed, are made up for by the  *)
(* next event, which carries the whole state.                               *)
HistoryCatchesUp ==
    (events = <<>> /\ ~lost) =>
      /\ "request" \notin unwritten /\ entry.req # None =>
           \E i \in DOMAIN rows : entry.req \in rows[i].of
      /\ "notification" \notin unwritten /\ entry.note # None =>
           \E i \in DOMAIN rows : entry.note \in rows[i].of
      /\ "state" \notin unwritten /\ Over(entry.st) => OpenIn(rows) = {}

=============================================================================
