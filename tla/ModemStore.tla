----------------------------- MODULE ModemStore ------------------------------
(***************************************************************************)
(* The tables modems, sims and modem_sim_bindings and the statements the   *)
(* runner and the HTTP API perform on them (internal/modem/store.go).      *)
(*                                                                         *)
(* A table is a function from the ids of its live rows; ids are handed out *)
(* once (AUTOINCREMENT).  A binding table maps the id of a modem row to    *)
(* that of a sim row.  An IMEI is represented by the module that has it,   *)
(* an ICCID by its SIM; None stands for SQL NULL and the empty string.     *)
(***************************************************************************)
EXTENDS Integers

CONSTANTS
    Modules,    \* physical modules; each has an IMEI of its own
    Ids,        \* values of Modem.DeviceIdentifier
    Sims,       \* SIM cards and eSIM profiles; each has an ICCID of its own
    None        \* NULL / empty string / "no such thing"

ASSUME NoneIsNothing == None \notin Modules \cup Ids \cup Sims

ModemRow == [dev : Ids, imei : Modules \cup {None}, present : BOOLEAN]

Table(t, R) == /\ DOMAIN t \subseteq Nat \ {0}
               /\ t \in [DOMAIN t -> R]

EmptyTable == [i \in {} |-> None]

(* DELETE of the rows S.                                                   *)
Without(t, S) == [i \in DOMAIN t \ S |-> t[i]]

(* INSERT or UPDATE of row i.                                              *)
WithRow(t, i, r) == [j \in DOMAIN t \cup {i} |-> IF j = i THEN r ELSE t[j]]

-----------------------------------------------------------------------------
(* modems: UNIQUE(device_id), UNIQUE(imei) with any number of NULLs.       *)

WithDevice(t, d) == {i \in DOMAIN t : t[i].dev = d}
WithImei(t, m)   == {i \in DOMAIN t : t[i].imei = m}

(* ModemIDByDevice: 0 if there is no such row.                             *)
ModemIDByDevice(t, d) ==
    IF WithDevice(t, d) = {} THEN 0 ELSE CHOOSE i \in WithDevice(t, d) : TRUE

(* Mutant: the identifier is the only key.                                 *)
ConflictOnDevice(t, d, m) == WithDevice(t, d)

(* The row ON CONFLICT(imei) updates, or ON CONFLICT(device_id) when the   *)
(* IMEI could not be read.                                                 *)
Conflict(t, d, m) == IF m = None THEN WithDevice(t, d) ELSE WithImei(t, m)

(* The clause names one unique index; the other still aborts the statement *)
(* when it is a different row that has the identifier.                     *)
UpsertFails(t, d, m) == ~(WithDevice(t, d) \subseteq Conflict(t, d, m))

(* UpsertModem.  An IMEI that cannot be read overwrites one that could.    *)
UpsertedId(t, last, d, m) ==
    IF Conflict(t, d, m) = {} THEN last + 1
    ELSE CHOOSE i \in Conflict(t, d, m) : TRUE

Upserted(t, last, d, m) ==
    WithRow(t, UpsertedId(t, last, d, m), [dev |-> d, imei |-> m, present |-> TRUE])

(* MarkModemAbsent and MarkStaleModemsAbsent: present = 0 for the rows     *)
(* whose identifier is in D.                                               *)
MarkedAbsent(t, D) ==
    [i \in DOMAIN t |-> IF t[i].dev \in D THEN [t[i] EXCEPT !.present = FALSE]
                                         ELSE t[i]]

-----------------------------------------------------------------------------
(* sims: UNIQUE(iccid).                                                    *)

WithIccid(t, s) == {j \in DOMAIN t : t[j] = s}

SimIDByIccid(t, s) ==
    IF WithIccid(t, s) = {} THEN 0 ELSE CHOOSE j \in WithIccid(t, s) : TRUE

(* UpsertSim, first statement.                                             *)
SimUpserted(t, last, s) ==
    IF WithIccid(t, s) = {} THEN WithRow(t, last + 1, s) ELSE t

(* UpsertSim, last statement: the binding of modem row i.  Both rows are   *)
(* foreign keys.                                                           *)
CanBind(modems, sims, i, j) == i \in DOMAIN modems /\ j \in DOMAIN sims

(* SimIDByModem: 0 if nothing is bound.                                    *)
SimIDByModem(bound, i) == IF i \in DOMAIN bound THEN bound[i] ELSE 0

(* DeleteUnusedSIM is refused (ON DELETE RESTRICT) while a modem has it.   *)
Unbound(bound, j) == \A i \in DOMAIN bound : bound[i] # j
=============================================================================
