-------------------------------- MODULE ESim --------------------------------
(***************************************************************************)
(* The eSIM service (internal/esim): requests that run lpac, an external   *)
(* program, on the eUICC card in a modem.                                  *)
(*                                                                         *)
(*   request r:  lookup in the database -> lock of the modem ->            *)
(*     InhibitDevice(true) -> lpac commands -> InhibitDevice(false) ->     *)
(*     [reset the modem] -> unlock                                         *)
(*                                                                         *)
(* lpac and ModemManager (MM) must never use the modem at the same time,   *)
(* so MM is told to let go of it and takes it back later.  To the rest of  *)
(* the program the modem leaves and returns: its row in the database       *)
(* follows, through the signals of MM, some time later.                    *)
(*                                                                         *)
(* Every command can fail, with or without effect on the chip; the context *)
(* of an HTTP request is cancelled when the client goes away (the web page *)
(* waits 15 s, the router 60 s), which no command and no database write    *)
(* under that context survives.  A row may also fail to be written.        *)
(*                                                                         *)
(* One modem is modelled, with several cards of which one is in the modem, *)
(* each request runs once, and a profile is on, or meant for, one card.    *)
(* lpac, the chip and MM are the environment.                              *)
(***************************************************************************)
EXTENDS Integers, Sequences

CONSTANTS
    Reqs,           \* the requests
    Impatient,      \* those whose context may be cancelled
    Profiles,       \* ICCIDs
    Cards,          \* EIDs
    Home,           \* the card of a profile (a function on Profiles)
    None,           \* no row, no profile, no request
    MaxLpacFaults,  \* bound: lpac commands that fail for no visible reason,
                    \* and profile rows that cannot be written
    MaxBusFaults,   \* bound: InhibitDevice calls likewise
    MaxSwaps        \* bound: times the card in the modem is replaced

ASSUME ESimAssumption ==
    /\ Impatient \subseteq Reqs
    /\ Home \in [Profiles -> Cards]
    /\ None \notin Reqs /\ None \notin Profiles /\ None \notin Cards
    /\ MaxLpacFaults \in Nat /\ MaxBusFaults \in Nat /\ MaxSwaps \in Nat

VARIABLES
    \* the hardware and MM
    inserted,    \* the card in the modem
    chip,        \* of a profile: "absent", "disabled", "enabled"
    mm,          \* the modem in MM: "exported", "inhibited", "absent"
    news,        \* appearances (TRUE) and departures of the modem on their
                 \* way through signals and events into the modems table
    \* the service
    lock,        \* holder of the mutex of the modem
    active,      \* inhibitor.active[uid]
    req,         \* of a request: where it is and what it found out
    cancelled,   \* requests whose context is cancelled
    \* the database
    present,     \* modems.present
    bound,       \* the cards with a row, whose modem_id is the modem
    row,         \* esim_profiles: card and state of a profile
    \* history, for the properties only: the profiles of which a row may be
    \* wrong since a list, a command on the chip or a write of rows failed
    unsure,
    \* bounds
    lpacFaults, busFaults, swaps

hwVars    == <<inserted, mm, news>>
busVars   == <<mm, news, active, busFaults>>
dbVars    == <<present, bound, row>>
vars == <<inserted, chip, mm, news, lock, active, req, cancelled, present,
          bound, row, unsure, lpacFaults, busFaults, swaps>>

ToggleOps  == {"enable", "disable"}
ProfileOps == ToggleOps \cup {"delete", "nickname"}
Ops        == ProfileOps \cup {"add", "view", "discover"}

(* Where a request is.  In the Lpac steps it runs a command on the chip.   *)
LpacSteps == {"list1", "disableCurrent", "list2", "operate", "listAfterRefusal",
              "rollback", "lastList", "list3", "rename", "recheck", "erase",
              "forget", "download", "info", "list"}
Steps == LpacSteps \cup {"idle", "locking", "inhibiting", "closing",
                         "recovering", "resetting", "deferred", "done"}

(* card: what the lookup found; previous: the profile enabled at the start *)
(* of a switch; tried: the command a switch is for has been run (history,  *)
(* for the properties only); ok: the answer.                               *)
Request == [pc : Steps, op : Ops \cup {None}, profile : Profiles \cup {None},
            card : Cards \cup {None}, previous : Profiles \cup {None},
            tried : BOOLEAN, ok : BOOLEAN]

NotStarted == [pc |-> "idle", op |-> None, profile |-> None, card |-> None,
               previous |-> None, tried |-> FALSE, ok |-> FALSE]

Row == [card : Cards, state : {"disabled", "enabled"}]

-----------------------------------------------------------------------------
(* The chip.                                                               *)

OnChip  == {p \in Profiles : Home[p] = inserted /\ chip[p] # "absent"}
Enabled == {p \in OnChip : chip[p] = "enabled"}

CanEnable(p)   == p \in OnChip /\ chip[p] = "disabled" /\ Enabled = {}
CanDisable(p)  == p \in Enabled
CanDelete(p)   == p \in OnChip /\ chip[p] = "disabled"
CanDownload(p) == Home[p] = inserted /\ chip[p] = "absent"

WithState(p, state) == [chip EXCEPT ![p] = state]

(* upsertProfiles: what a profile list shows, written under a card.  Rows  *)
(* the list does not show stay, and so does one that cannot be written.    *)
Upserted(card, rows, failed) ==
    [p \in Profiles |-> IF p \in OnChip \ failed
                        THEN [card |-> card, state |-> chip[p]] ELSE rows[p]]

(* The rows that are wrong about the card in the modem, and the profiles   *)
(* in doubt when those of failed were to be written and were not.          *)
Missed == {p \in OnChip : row[p] # None /\ row[p].state # chip[p]}
Doubted(failed) == (unsure \ (OnChip \ failed)) \cup (Missed \cap failed)

(* A command that fails: its context is cancelled, or lpac says so.        *)
Breaks(r) ==
    \/ r \in cancelled /\ UNCHANGED lpacFaults
    \/ r \notin cancelled /\ lpacFaults < MaxLpacFaults
       /\ lpacFaults' = lpacFaults + 1

(* runJSON of a command that turns the chip into after, if it is able to.  *)
(* A command that is killed, or whose answer is lost, may have been done.  *)
CommandOk(r, able, after) ==
    able /\ r \notin cancelled /\ chip' = after /\ UNCHANGED <<unsure, lpacFaults>>

CommandFails(r, able, after) ==
    \/ /\ able /\ Breaks(r) /\ chip' \in {chip, after}
       /\ unsure' = unsure \cup {p \in Profiles : chip'[p] # chip[p]}
    \/ ~able /\ UNCHANGED <<chip, unsure, lpacFaults>>

(* refreshProfilesLocked: an error of a row is logged and passed over, the *)
(* list is an answer all the same.                                         *)
Writes(card, rows, failed) ==
    row' = Upserted(card, rows, failed) /\ unsure' = Doubted(failed)

ListOk(r, card) ==
    /\ r \notin cancelled /\ UNCHANGED chip
    /\ \/ Writes(card, row, {}) /\ UNCHANGED lpacFaults
       \/ \E failed \in SUBSET OnChip : Writes(card, row, failed) /\ Breaks(r)

ListFails(r) == Breaks(r) /\ UNCHANGED <<chip, row>> /\ unsure' = Doubted(OnChip)

-----------------------------------------------------------------------------
(* MM and the inhibitor.                                                   *)

(* A D-Bus call whose answer is lost has been done or not.                 *)
BusBreaks == busFaults < MaxBusFaults /\ busFaults' = busFaults + 1

Released == IF mm = "inhibited" THEN "absent" ELSE mm

(* inhibitor.uninhibit.  The count is gone before the call is made, so a   *)
(* second attempt after a failed one returns nil and does nothing.         *)
UninhibitOk(cancel) ==
    IF active = 1
    THEN ~cancel /\ active' = 0 /\ mm' = Released /\ UNCHANGED <<news, busFaults>>
    ELSE active' = (IF active > 1 THEN active - 1 ELSE 0)
         /\ UNCHANGED <<mm, news, busFaults>>

UninhibitFails(cancel) ==
    /\ active = 1 /\ active' = 0 /\ UNCHANGED news
    /\ \/ cancel /\ UNCHANGED <<mm, busFaults>>
       \/ ~cancel /\ BusBreaks /\ mm' \in {mm, Released}

(* MM exports the modem when it has found it again.                        *)
Export ==
    /\ mm = "absent" /\ mm' = "exported" /\ news' = Append(news, TRUE)
    /\ UNCHANGED <<inserted, chip, lock, active, req, cancelled, dbVars, unsure,
                   lpacFaults, busFaults, swaps>>

(* The provider and the runner write the modems table.                     *)
TakeNews ==
    /\ news # <<>> /\ present' = Head(news) /\ news' = Tail(news)
    /\ UNCHANGED <<inserted, chip, mm, lock, active, req, cancelled, bound, row,
                   unsure, lpacFaults, busFaults, swaps>>

(* The modem is unplugged and returns with another card.                   *)
Swap ==
    /\ swaps < MaxSwaps /\ mm = "exported"
    /\ \E c \in Cards \ {inserted} : inserted' = c
    /\ mm' = "absent" /\ news' = Append(news, FALSE) /\ swaps' = swaps + 1
    /\ UNCHANGED <<chip, lock, active, req, cancelled, dbVars, unsure, lpacFaults,
                   busFaults>>

-----------------------------------------------------------------------------
(* A request.                                                              *)

At(r, pc)   == req[r].pc = pc
Goto(r, pc) == req' = [req EXCEPT ![r].pc = pc]
Answer(r, pc, ok) == req' = [req EXCEPT ![r].pc = pc, ![r].ok = ok]

(* Everything a step on the chip leaves alone.                             *)
OnlyChip == UNCHANGED <<hwVars, lock, active, cancelled, present, busFaults, swaps>>
OnlyReq  == UNCHANGED <<hwVars, chip, active, cancelled, dbVars, unsure,
                        lpacFaults, busFaults, swaps>>
(* What a step on the bus does.                                            *)
OnlyBus  == UNCHANGED <<inserted, chip, cancelled, dbVars, unsure, lpacFaults,
                        swaps>>

Begin(r, op, p, c) ==
    /\ req[r] = NotStarted /\ present
    /\ req' = [req EXCEPT ![r] = [NotStarted EXCEPT !.pc = "locking", !.op = op,
                                            !.profile = p, !.card = c]]
    /\ UNCHANGED lock /\ OnlyReq

(* lookupProfileAndModem and the checks before it takes the lock.          *)
BeginProfileOp(r, op, p) ==
    /\ row[p] # None
    /\ row[p].card \in bound
    /\ op = "delete" => row[p].state # "enabled"
    /\ Begin(r, op, p, row[p].card)

(* lookupCardAndModem: AddProfile with an activation code for p, GetCard   *)
(* and ListProfiles when the cache is old.                                 *)
BeginAdd(r, p, c) == c \in bound /\ Begin(r, "add", p, c)
BeginView(r, c)   == c \in bound /\ Begin(r, "view", None, c)

(* runDiscoverOnModem, from the web or for a modem that has registered.    *)
BeginDiscover(r)  == Begin(r, "discover", None, None)

(* Mutant: nobody waits for the mutex.                                     *)
LockAnyway(r) ==
    /\ At(r, "locking") /\ lock' = r /\ Goto(r, "inhibiting") /\ OnlyReq

Lock(r) ==
    /\ At(r, "locking") /\ lock = None
    /\ lock' = r /\ Goto(r, "inhibiting") /\ OnlyReq

Finish(r, ok) == lock' = None /\ Answer(r, "done", ok)

FirstStep(op) ==
    CASE op \in ToggleOps -> "list1"
      [] op = "delete"    -> "recheck"
      [] op = "nickname"  -> "rename"
      [] op = "add"       -> "download"
      [] op = "view"      -> "list"
      [] op = "discover"  -> "info"

(* Mutant: the reference is counted twice.                                 *)
InhibitCountedTwice(r) ==
    /\ At(r, "inhibiting") /\ OnlyBus
    /\ r \notin cancelled /\ mm = "exported"
    /\ mm' = "inhibited" /\ news' = Append(news, FALSE)
    /\ active' = active + 2 /\ Goto(r, FirstStep(req[r].op))
    /\ UNCHANGED <<lock, busFaults>>

(* doInhibit; MM refuses a modem it does not export (esim.go:769).  On     *)
(* error the request ends before its deferred uninhibit exists.            *)
Inhibit(r) ==
    /\ At(r, "inhibiting") /\ OnlyBus
    /\ \/ /\ active > 0 \/ (r \notin cancelled /\ mm = "exported")
          /\ active' = active + 1
          /\ IF active > 0 THEN UNCHANGED <<mm, news>>
             ELSE mm' = "inhibited" /\ news' = Append(news, FALSE)
          /\ Goto(r, FirstStep(req[r].op)) /\ UNCHANGED <<lock, busFaults>>
       \/ /\ active = 0 /\ (r \in cancelled \/ mm # "exported")
          /\ Finish(r, FALSE) /\ UNCHANGED busVars
       \/ /\ active = 0 /\ r \notin cancelled /\ mm = "exported" /\ BusBreaks
          /\ \/ UNCHANGED <<mm, news>>
             \/ mm' = "inhibited" /\ news' = Append(news, FALSE)
          /\ Finish(r, FALSE) /\ UNCHANGED active

(* Answered after the deferred uninhibit.                                  *)
Fail(r) == Answer(r, "deferred", FALSE)

(* toggleProfile: the list decides whether there is anything to do, and    *)
(* which profile has to be disabled first.                                 *)
List1(r) ==
    LET target == req[r].profile
        want   == IF req[r].op = "enable" THEN "enabled" ELSE "disabled"
        others == IF req[r].op = "enable" THEN Enabled \ {target} ELSE {}
    IN  /\ At(r, "list1") /\ OnlyChip /\ UNCHANGED bound
        /\ \/ /\ ListOk(r, req[r].card)
              /\ IF target \notin OnChip \/ chip[target] = want THEN Fail(r)
                 ELSE IF others = {} THEN Goto(r, "operate")
                 ELSE \E p \in others :
                         req' = [req EXCEPT ![r].pc = "disableCurrent",
                                            ![r].previous = p]
           \/ ListFails(r) /\ Fail(r)

DisableCurrent(r) ==
    LET p == req[r].previous
    IN  /\ At(r, "disableCurrent") /\ OnlyChip /\ UNCHANGED <<bound, row>>
        /\ \/ CommandOk(r, CanDisable(p), WithState(p, "disabled"))
              /\ Goto(r, "list2")
           \/ CommandFails(r, CanDisable(p), WithState(p, "disabled"))
              /\ Goto(r, "lastList")

List2(r) ==
    /\ At(r, "list2") /\ OnlyChip /\ UNCHANGED bound
    /\ \/ /\ ListOk(r, req[r].card)
          /\ IF req[r].previous \in Enabled THEN Fail(r) ELSE Goto(r, "operate")
       \/ ListFails(r) /\ Fail(r)

(* Mutant: an error of lpac is not looked at.                              *)
OperateBlindly(r) ==
    LET p     == req[r].profile
        on    == req[r].op = "enable"
        able  == IF on THEN CanEnable(p) ELSE CanDisable(p)
        after == WithState(p, IF on THEN "enabled" ELSE "disabled")
    IN  /\ At(r, "operate") /\ OnlyChip /\ UNCHANGED <<bound, row>>
        /\ CommandOk(r, able, after) \/ CommandFails(r, able, after)
        /\ Goto(r, "list3")

Operate(r) ==
    LET p     == req[r].profile
        on    == req[r].op = "enable"
        able  == IF on THEN CanEnable(p) ELSE CanDisable(p)
        after == WithState(p, IF on THEN "enabled" ELSE "disabled")
        Tried(pc) == req' = [req EXCEPT ![r].pc = pc, ![r].tried = TRUE]
    IN  /\ At(r, "operate") /\ OnlyChip /\ UNCHANGED <<bound, row>>
        /\ \/ CommandOk(r, able, after) /\ Tried("list3")
           \/ CommandFails(r, able, after) /\ Tried("listAfterRefusal")

(* Mutant: what was disabled for the switch stays disabled.                *)
NoRollback(r) ==
    /\ At(r, "listAfterRefusal") /\ OnlyChip /\ UNCHANGED bound
    /\ ListOk(r, req[r].card) \/ ListFails(r)
    /\ Fail(r)

(* The target was not enabled: list, and go back to the previous profile.  *)
ListAfterRefusal(r) ==
    /\ At(r, "listAfterRefusal") /\ OnlyChip /\ UNCHANGED bound
    /\ ListOk(r, req[r].card) \/ ListFails(r)
    /\ IF req[r].previous # None THEN Goto(r, "rollback") ELSE Fail(r)

Rollback(r) ==
    LET p == req[r].previous
    IN  /\ At(r, "rollback") /\ OnlyChip /\ UNCHANGED <<bound, row>>
        /\ \/ CommandOk(r, CanEnable(p), WithState(p, "enabled"))
           \/ CommandFails(r, CanEnable(p), WithState(p, "enabled"))
        /\ Goto(r, "lastList")

(* A list before giving up, whose errors are ignored.                      *)
LastList(r) ==
    /\ At(r, "lastList") /\ OnlyChip /\ UNCHANGED bound
    /\ ListOk(r, req[r].card) \/ ListFails(r)
    /\ Fail(r)

(* Mutant: the rows are not refreshed after the change.                    *)
List3Skipped(r) ==
    /\ At(r, "list3") /\ OnlyChip /\ UNCHANGED <<bound, chip, row, unsure, lpacFaults>>
    /\ Goto(r, "closing")

(* The list after the change, whose errors are ignored too.                *)
List3(r) ==
    /\ At(r, "list3") /\ OnlyChip /\ UNCHANGED bound
    /\ ListOk(r, req[r].card) \/ ListFails(r)
    /\ Goto(r, "closing")

(* SetProfileNickname: a write that changes nothing modelled here.         *)
Rename(r) ==
    LET able == req[r].profile \in OnChip
    IN  /\ At(r, "rename") /\ OnlyChip /\ UNCHANGED <<bound, row>>
        /\ \/ CommandOk(r, able, chip) /\ Answer(r, "deferred", TRUE)
           \/ CommandFails(r, able, chip) /\ Fail(r)

(* Mutant: the row read before the lock is trusted.                        *)
RecheckSkipped(r) ==
    /\ At(r, "recheck") /\ Goto(r, "erase") /\ OnlyReq /\ UNCHANGED lock

(* DeleteProfile reads the row again, under the lock.                      *)
Recheck(r) ==
    /\ At(r, "recheck") /\ OnlyReq /\ UNCHANGED lock
    /\ IF \/ r \in cancelled \/ row[req[r].profile] = None
          \/ row[req[r].profile].state = "enabled"
       THEN Fail(r) ELSE Goto(r, "erase")

Erase(r) ==
    LET p == req[r].profile
    IN  /\ At(r, "erase") /\ OnlyChip /\ UNCHANGED <<bound, row>>
        /\ \/ CommandOk(r, CanDelete(p), WithState(p, "absent"))
              /\ Goto(r, "forget")
           \/ CommandFails(r, CanDelete(p), WithState(p, "absent")) /\ Fail(r)

(* The row goes, then the list is read; an error of the list is ignored,   *)
(* one of the deletion, or of the row in sims after it, is not.            *)
Forget(r) ==
    LET p    == req[r].profile
        rest == [row EXCEPT ![p] = None]
    IN  /\ At(r, "forget") /\ OnlyChip /\ UNCHANGED <<bound, chip>>
        /\ \/ /\ Breaks(r) /\ Fail(r)
              /\ \/ UNCHANGED row /\ unsure' = unsure \cup {p}
                 \/ row' = rest /\ UNCHANGED unsure
           \/ /\ r \notin cancelled /\ Goto(r, "closing")
              /\ \/ Writes(req[r].card, rest, {}) /\ UNCHANGED lpacFaults
                 \/ \E failed \in SUBSET OnChip :
                       Writes(req[r].card, rest, failed) /\ Breaks(r)

Download(r) ==
    LET p == req[r].profile
    IN  /\ At(r, "download") /\ OnlyChip /\ UNCHANGED <<bound, row>>
        /\ \/ CommandOk(r, CanDownload(p), WithState(p, "disabled"))
              /\ Goto(r, "info")
           \/ CommandFails(r, CanDownload(p), WithState(p, "disabled"))
              /\ Fail(r)

(* chip info and upsertCard: the card that is in the modem is bound to it. *)
(* The list of a discovery is filed under that card; AddProfile ignores an *)
(* error and keeps the card it was asked for.                              *)
Info(r) ==
    /\ At(r, "info") /\ OnlyChip /\ UNCHANGED <<chip, row, unsure>>
    /\ \/ /\ r \notin cancelled /\ UNCHANGED lpacFaults
          /\ bound' = bound \cup {inserted}
          /\ req' = [req EXCEPT ![r].pc = "list",
                        ![r].card = IF req[r].op = "discover" THEN inserted ELSE @]
       \/ /\ Breaks(r) /\ UNCHANGED bound
          /\ IF req[r].op = "discover" THEN Fail(r) ELSE Goto(r, "list")

(* The list of AddProfile, of a refresh and of a discovery.                *)
List(r) ==
    /\ At(r, "list") /\ OnlyChip /\ UNCHANGED bound
    /\ \/ /\ ListOk(r, req[r].card)
          /\ IF req[r].op = "discover" THEN Answer(r, "deferred", TRUE)
             ELSE Goto(r, "closing")
       \/ ListFails(r) /\ Fail(r)

(* uninhibit under the context of the request.  A switch and a refresh     *)
(* report its error, AddProfile and DeleteProfile do not; the deferred     *)
(* uninhibit comes after an error.                                         *)
Closing(r) ==
    LET op == req[r].op
    IN  /\ At(r, "closing") /\ OnlyBus
        /\ \/ /\ UninhibitOk(r \in cancelled)
              /\ IF op \in {"add", "delete"} THEN Finish(r, TRUE)
                 ELSE /\ Goto(r, IF op = "view" THEN "recovering" ELSE "resetting")
                      /\ UNCHANGED lock
           \/ /\ UninhibitFails(r \in cancelled) /\ UNCHANGED lock
              /\ Answer(r, "deferred", op \in {"add", "delete"})

(* Mutant: waits for the modem without a deadline.                         *)
RecoveringForever(r) ==
    At(r, "recovering") /\ OnlyReq /\ present /\ Finish(r, TRUE)

(* waitModemRecovery, which gives up after 15 s.                           *)
Recovering(r) ==
    /\ At(r, "recovering") /\ OnlyReq
    /\ \/ present /\ Finish(r, TRUE)
       \/ Finish(r, FALSE)

(* ResetModem, whose errors are only reported: the modem may not be back   *)
(* on the bus, or not support a reset.                                     *)
Resetting(r) ==
    /\ At(r, "resetting") /\ OnlyBus /\ UNCHANGED <<active, busFaults>>
    /\ Finish(r, TRUE)
    /\ \/ /\ mm = "exported" /\ r \notin cancelled
          /\ mm' = "absent" /\ news' = Append(news, FALSE)
       \/ UNCHANGED <<mm, news>>

(* Mutant: an early return without the deferred uninhibit.                 *)
DeferredForgotten(r) ==
    /\ At(r, "deferred") /\ OnlyBus /\ UNCHANGED busVars
    /\ Finish(r, req[r].ok)

(* The deferred uninhibit, under a context of its own, and the unlock.     *)
Deferred(r) ==
    /\ At(r, "deferred") /\ OnlyBus
    /\ UninhibitOk(FALSE) \/ UninhibitFails(FALSE)
    /\ Finish(r, req[r].ok)

(* The client goes away.                                                   *)
Cancel(r) ==
    /\ r \in Impatient \ cancelled /\ req[r].pc \notin {"idle", "done"}
    /\ cancelled' = cancelled \cup {r}
    /\ UNCHANGED <<hwVars, chip, lock, active, req, dbVars, unsure, lpacFaults,
                   busFaults, swaps>>

-----------------------------------------------------------------------------
(* The database has not seen the card yet, or a discovery has.             *)
Init ==
    /\ inserted \in Cards
    /\ chip \in [Profiles -> {"absent", "disabled", "enabled"}]
    /\ \A p, q \in Profiles :
          chip[p] = "enabled" /\ chip[q] = "enabled" /\ Home[p] = Home[q] => p = q
    /\ mm = "exported" /\ news = <<>> /\ present = TRUE
    /\ lock = None /\ active = 0 /\ cancelled = {}
    /\ req = [r \in Reqs |-> NotStarted]
    /\ \/ bound = {} /\ row = [p \in Profiles |-> None]
       \/ /\ bound = {inserted}
          /\ row = Upserted(inserted, [p \in Profiles |-> None], {})
    /\ unsure = {} /\ lpacFaults = 0 /\ busFaults = 0 /\ swaps = 0

Start(r) ==
    \/ \E op \in ProfileOps, p \in Profiles : BeginProfileOp(r, op, p)
    \/ \E p \in Profiles, c \in Cards : BeginAdd(r, p, c)
    \/ \E c \in Cards : BeginView(r, c)
    \/ BeginDiscover(r)

Switch(r) ==
    \/ List1(r) \/ DisableCurrent(r) \/ List2(r) \/ Operate(r)
    \/ ListAfterRefusal(r) \/ Rollback(r) \/ LastList(r) \/ List3(r)
    \/ Resetting(r)

Write(r) ==
    \/ Rename(r) \/ Recheck(r) \/ Erase(r) \/ Forget(r) \/ Download(r)

Refresh(r) == Info(r) \/ List(r) \/ Recovering(r)

Step(r) == \/ Lock(r) \/ Inhibit(r) \/ Switch(r) \/ Write(r) \/ Refresh(r)
           \/ Closing(r) \/ Deferred(r)

Next == \/ Export \/ TakeNews \/ Swap
        \/ \E r \in Reqs : Start(r) \/ Step(r) \/ Cancel(r)

Spec == Init /\ [][Next]_vars

(* lpac and D-Bus calls end within their timeouts and a mutex is handed    *)
(* on.  That MM finds a modem again is not assumed.                        *)
FairSpec == Spec /\ \A r \in Reqs : WF_vars(Step(r))

-----------------------------------------------------------------------------
(* Properties.                                                             *)

SystemTypes ==
    /\ inserted \in Cards
    /\ chip \in [Profiles -> {"absent", "disabled", "enabled"}]
    /\ mm \in {"exported", "inhibited", "absent"} /\ news \in Seq(BOOLEAN)
    /\ lock \in Reqs \cup {None} /\ active \in Nat
    /\ req \in [Reqs -> Request] /\ cancelled \subseteq Reqs
    /\ present \in BOOLEAN /\ bound \subseteq Cards
    /\ row \in [Profiles -> Row \cup {None}]
    /\ lpacFaults \in 0..MaxLpacFaults /\ busFaults \in 0..MaxBusFaults
    /\ swaps \in 0..MaxSwaps

TypeOK == SystemTypes /\ unsure \subseteq Profiles

(* While a request runs lpac, MM has let go of the modem and no other      *)
(* request runs lpac on it (types.go:5-6, esim.go:54), whatever fails.     *)
LpacAlone ==
    \A r \in Reqs : req[r].pc \in LpacSteps =>
        /\ mm = "inhibited"
        /\ \A q \in Reqs \ {r} : req[q].pc \notin LpacSteps

Busy == \E r \in Reqs : req[r].pc \in LpacSteps \cup {"closing", "deferred"}

(* After every operation MM has the modem back (types.go:10), also when    *)
(* lpac fails, as long as nobody cancels and the bus works.                *)
ReleasedAfterUse ==
    cancelled = {} /\ busFaults = 0 /\ mm = "inhibited" => Busy

(* ReleasedAfterUse without its proviso on the client.                     *)
AlwaysReleasedAfterUse == busFaults = 0 /\ mm = "inhibited" => Busy

(* Between operations the database agrees with the chip about every        *)
(* profile it knows (types.go:11).  A row may only be wrong if a command   *)
(* on the chip was in doubt, a list failed or a row could not be written   *)
(* (esim.go:547-549, 1015), and then only until the next list that works:  *)
(* no order of requests, changes and roll-backs, no client that goes away  *)
(* and no card swapped in between leaves another row wrong.                *)
RowsMatchChip ==
    lock = None => \A p \in Profiles :
                      row[p] # None /\ row[p].state # chip[p] => p \in unsure

(* No request asks the chip to delete an enabled profile, though another   *)
(* may have enabled it after the lookup (esim.go:344, docs/USAGE.md:111);  *)
(* what is read again under the mutex can only be wrong about a profile    *)
(* that is in doubt since something failed.                                *)
DeletesDisabledOnly ==
    \A r \in Reqs : At(r, "erase") =>
        chip[req[r].profile] # "enabled" \/ req[r].profile \in unsure

(* An answer is true: when a switch, an addition or a deletion reports     *)
(* success, the chip is in the state that was asked for.                   *)
SuccessIsReal ==
    [][\A r \in Reqs :
          ~At(r, "done") /\ req'[r].pc = "done" /\ req'[r].ok /\ swaps = 0
          => LET p == req[r].profile
             IN  CASE req[r].op = "enable"  -> Enabled' = {p}
                   [] req[r].op = "disable" -> chip'[p] = "disabled"
                   [] req[r].op = "delete"  -> chip'[p] = "absent"
                   [] req[r].op = "add"     -> chip'[p] # "absent"
                   [] OTHER -> TRUE]_vars

(* A switch that has run the command that enables the target leaves the    *)
(* card with an enabled profile, also when that command fails, with or     *)
(* without effect (esim.go:529).  A switch that fails in the list before   *)
(* it (esim.go:512) does not go back: it is not covered.                   *)
RolledBack ==
    [][\A r \in Reqs :
          /\ ~At(r, "done") /\ req'[r].pc = "done"
          /\ req[r].op = "enable" /\ req[r].previous # None /\ req[r].tried
          /\ lpacFaults <= 1 /\ cancelled = {} /\ swaps = 0
          => Enabled # {}]_vars

(* RolledBack without its proviso on the client.                           *)
AlwaysRolledBack ==
    [][\A r \in Reqs :
          /\ ~At(r, "done") /\ req'[r].pc = "done"
          /\ req[r].op = "enable" /\ req[r].previous # None /\ req[r].tried
          /\ lpacFaults <= 1 /\ swaps = 0
          => Enabled # {}]_vars

(* A profile is filed under the card it is on (0001_init.sql:74).          *)
FiledUnderItsCard ==
    \A p \in Profiles : row[p] # None => row[p].card = Home[p]

(* MM gets the modem back, whatever lpac does, unless the client or the    *)
(* bus fails on the way (types.go:10).                                     *)
ModemGivenBack ==
    mm = "inhibited" ~> mm # "inhibited" \/ cancelled # {} \/ busFaults > 0

(* Every request is answered, although each holds the lock of the modem    *)
(* while it waits for lpac, for MM and for the modem to return, and even   *)
(* when the modem never does (esim.go:922).                                *)
RequestsEnd ==
    \A r \in Reqs : ~At(r, "idle") ~> At(r, "done")
=============================================================================
