------------------------------ MODULE SmsStore ------------------------------
(***************************************************************************)
(* The sms table and the transactions the runner performs on it            *)
(* (internal/modem/store.go).  Everything here is a pure operator on a     *)
(* table, so that the pipeline that calls it and the proofs about it share *)
(* one definition.                                                         *)
(*                                                                         *)
(* A table is a function from row ids to rows; its domain is the set of    *)
(* live rows.  One modem is modelled, so that source_key                   *)
(* ("mm:<deviceID>:<path>") is determined by the SMS path and is           *)
(* represented by it, and ext_id (the same path) needs no column of its    *)
(* own.  None stands for SQL NULL and for the empty string.                *)
(***************************************************************************)
EXTENDS Integers

CONSTANTS
    MaxPaths,   \* bound: D-Bus paths of SMS objects
    Peers,      \* phone numbers
    Bodies,     \* non-empty message texts
    Stamps,     \* SMSC timestamps
    Sims,       \* ids of rows of the sims table
    None        \* NULL / empty string / "no such thing"

SmsPaths == 1..MaxPaths

ASSUME NoneAssumption ==
    /\ MaxPaths \in Nat
    /\ None \notin Peers
    /\ None \notin Bodies
    /\ None \notin Stamps
    /\ None \notin Sims

Directions == {"inbound", "outbound"}
SmsStates  == {"receiving", "received", "sending", "sent"}

(* What readSMS hands to the store.                                        *)
Record == [path  : SmsPaths,
           dir   : Directions,
           state : SmsStates,
           peer  : Peers \cup {None},
           body  : Bodies \cup {None},
           stamp : Stamps \cup {None}]

Row == [path   : SmsPaths,
        dir    : Directions,
        state  : SmsStates,
        peer   : Peers \cup {None},
        body   : Bodies \cup {None},
        stamp  : Stamps \cup {None},
        sim    : Sims \cup {None},
        modem  : BOOLEAN,          \* modem_id is set
        pushed : BOOLEAN]          \* pushed_to_tg

Table(t) == /\ DOMAIN t \subseteq Nat \ {0}
            /\ t \in [DOMAIN t -> Row]

EmptyTable == [i \in {} |-> None]

-----------------------------------------------------------------------------
(* Only an inbound message that has been received may be notified.         *)
Candidate(rec) == rec.dir = "inbound" /\ rec.state = "received"

(* Row ids selected by WHERE source_key = ?.                               *)
AtSourceKey(t, path) == {i \in DOMAIN t : t[i].path = path}

(* ORDER BY id DESC LIMIT 1: the newest row of S, if S has any.            *)
Newest(S) == {i \in S : \A j \in S : j <= i}

(* Mutant: the SMSC timestamp is not compared.                             *)
SameTextOnly(t, rec) ==
    {i \in DOMAIN t : /\ t[i].dir = "inbound" /\ t[i].state = "received"
                      /\ t[i].peer = rec.peer /\ t[i].body = rec.body}

(* Stored received messages with the peer and the text of rec.  With an    *)
(* SMSC timestamp they must carry it; without one any such row will do.    *)
SameContent(t, rec) ==
    {i \in DOMAIN t : /\ t[i].dir = "inbound" /\ t[i].state = "received"
                      /\ t[i].peer = rec.peer /\ t[i].body = rec.body
                      /\ rec.stamp # None => t[i].stamp = rec.stamp}

(* Mutant: looks under the same SIM only.                                  *)
DuplicateUnderSim(t, rec, sim, modem) ==
    Newest({i \in SameContent(t, rec) :
               Candidate(rec) /\ rec.body # None /\ sim # None /\ t[i].sim = sim})

(* The row that holds rec under another path, as a set of at most one id:  *)
(* looked for under the same SIM, then under the same modem, then, only    *)
(* when the SMSC timestamp is known, in the whole table.                   *)
ContentDuplicate(t, rec, sim, modem) ==
    LET same      == IF Candidate(rec) /\ rec.body # None
                     THEN SameContent(t, rec) ELSE {}
        sameSim   == {i \in same : sim # None /\ t[i].sim = sim}
        sameModem == {i \in same : modem /\ t[i].modem}
        anywhere  == {i \in same : rec.stamp # None}
    IN  IF sameSim # {} THEN Newest(sameSim)
        ELSE IF sameModem # {} THEN Newest(sameModem)
        ELSE Newest(anywhere)

-----------------------------------------------------------------------------
(* Mutant: keeps pushed_to_tg as it was.                                   *)
UpdatedRowUnmarked(t, i, rec, sim, modem) ==
    [path   |-> IF AtSourceKey(t, rec.path) \ {i} = {} THEN rec.path
                ELSE t[i].path,
     dir    |-> rec.dir,
     state  |-> rec.state,
     peer   |-> rec.peer,
     body   |-> IF rec.body # None THEN rec.body ELSE t[i].body,
     stamp  |-> IF rec.stamp # None THEN rec.stamp ELSE t[i].stamp,
     sim    |-> IF sim # None THEN sim ELSE t[i].sim,
     modem  |-> t[i].modem \/ modem,
     pushed |-> t[i].pushed]

(* The columns updateSMSRow writes; the source key only if no other row    *)
(* has it.                                                                 *)
UpdatedRow(t, i, rec, sim, modem) ==
    [path   |-> IF AtSourceKey(t, rec.path) \ {i} = {} THEN rec.path
                ELSE t[i].path,
     dir    |-> rec.dir,
     state  |-> rec.state,
     peer   |-> rec.peer,
     body   |-> IF rec.body # None THEN rec.body ELSE t[i].body,
     stamp  |-> IF rec.stamp # None THEN rec.stamp ELSE t[i].stamp,
     sim    |-> IF sim # None THEN sim ELSE t[i].sim,
     modem  |-> t[i].modem \/ modem,
     pushed |-> t[i].pushed \/ Candidate(rec)]

WithRow(t, i, row) == [j \in DOMAIN t \cup {i} |-> IF j = i THEN row ELSE t[j]]
WithoutRow(t, i)   == [j \in DOMAIN t \ {i} |-> t[j]]

(* Mutant: a new row is inserted without the reservation.                  *)
NewRowUnmarked(rec, sim, modem) ==
    [path |-> rec.path, dir |-> rec.dir, state |-> rec.state,
     peer |-> rec.peer, body |-> rec.body, stamp |-> rec.stamp,
     sim |-> sim, modem |-> modem, pushed |-> FALSE]

NewRow(rec, sim, modem) ==
    [path |-> rec.path, dir |-> rec.dir, state |-> rec.state,
     peer |-> rec.peer, body |-> rec.body, stamp |-> rec.stamp,
     sim |-> sim, modem |-> modem, pushed |-> Candidate(rec)]

(* Mutant: leaves the provisional row of the new path in the table.        *)
MergedKeepingProvisional(t, i, rec, sim, modem) ==
    WithRow(t, i, UpdatedRow(t, i, rec, sim, modem))

(* insertSMS merges rec into the row i that another path of the same       *)
(* message had created; the provisional row at rec's own path goes.  The   *)
(* row is marked pushed and nobody is notified.                            *)
Merged(t, i, rec, sim, modem) ==
    LET rest == [j \in DOMAIN t \ (AtSourceKey(t, rec.path) \ {i}) |-> t[j]]
    IN  WithRow(rest, i, UpdatedRow(rest, i, rec, sim, modem))

(* Mutant: no lookup by source key.                                        *)
InsertedBlindly(t, newId, rec, sim, modem) ==
    LET content == ContentDuplicate(t, rec, sim, modem)
    IN  IF content # {}
        THEN Merged(t, CHOOSE i \in content : TRUE, rec, sim, modem)
        ELSE WithRow(t, newId, NewRow(rec, sim, modem))

(* The transaction of insertSMS.  newId is the id AUTOINCREMENT would give *)
(* to a new row.  A candidate leaves with pushed_to_tg set whichever       *)
(* branch is taken: reserved, suppressed or inserted.                      *)
Inserted(t, newId, rec, sim, modem) ==
    LET source  == AtSourceKey(t, rec.path)
        content == ContentDuplicate(t, rec, sim, modem)
    IN  IF content # {} /\ content # source
        THEN Merged(t, CHOOSE i \in content : TRUE, rec, sim, modem)
        ELSE IF source # {}
        THEN LET i == CHOOSE i \in source : TRUE
             IN  WithRow(t, i, UpdatedRow(t, i, rec, sim, modem))
        ELSE WithRow(t, newId, NewRow(rec, sim, modem))

(* insertSMS inserts a row, which consumes an id.                          *)
NeedsNewRow(t, rec, sim, modem) ==
    /\ AtSourceKey(t, rec.path) = {}
    /\ ContentDuplicate(t, rec, sim, modem) = {}

(* What InsertSMS (reserveNotify = true) answers: may the event fan out?   *)
(* Only for a candidate that is not a content duplicate of another row and *)
(* whose own row, if there is one, has not been pushed yet.                *)
MayNotify(t, rec, sim, modem) ==
    LET source  == AtSourceKey(t, rec.path)
        content == ContentDuplicate(t, rec, sim, modem)
    IN  /\ Candidate(rec)
        /\ content = {} \/ content = source
        /\ \A i \in source : ~t[i].pushed

(* UpdateSMSState: the state column of the row at the path, if any.        *)
StateUpdated(t, path, state) ==
    [i \in DOMAIN t |-> IF t[i].path = path THEN [t[i] EXCEPT !.state = state]
                        ELSE t[i]]
=============================================================================
