----------------------------- MODULE ESimProofs -----------------------------
(***************************************************************************)
(* Every safety property of ESim, for any number of requests, profiles and *)
(* cards and every bound on the faults.                                    *)
(*                                                                         *)
(* The first invariant (IInv) ties the mutex, the reference count of the   *)
(* inhibitor and the state of MM together: whoever is between the lock and *)
(* the unlock holds the mutex; whoever uses the chip has counted itself    *)
(* and MM has let go; and a positive count belongs to the holder.  From it *)
(* follow that lpac is alone on the modem and that MM gets the modem back. *)
(*                                                                         *)
(* The second (IInv2) keeps the books on top of it: how far each request   *)
(* has come tells what it has done to the chip (Progress), at most one     *)
(* profile is enabled, and the rows agree with the chip except for what    *)
(* the holder of the mutex has changed and not listed yet (Books), as long *)
(* as nothing fails.                                                       *)
(*                                                                         *)
(* The third (IInv3) is about the rows when anything fails, whoever goes   *)
(* away and whichever card is in the modem: a wrong row is in doubt since  *)
(* something failed, or its request still owes a list (Doubts).            *)
(***************************************************************************)
EXTENDS ESim, TLAPS

-----------------------------------------------------------------------------
(* Operators on the chip and on the rows keep their types.                 *)

(* The rows after a list of profiles (upsertProfiles).                     *)
LEMMA UpsertedType ==
    ASSUME SystemTypes, NEW card \in Cards, NEW rows \in [Profiles -> Row \cup {None}],
           NEW failed
    PROVE  Upserted(card, rows, failed) \in [Profiles -> Row \cup {None}]
  BY DEF SystemTypes, Upserted, OnChip, Row

(* The chip after one profile has changed.                                 *)
LEMMA WithStateType ==
    ASSUME SystemTypes, NEW p, NEW state \in {"absent", "disabled", "enabled"}
    PROVE  WithState(p, state) \in [Profiles -> {"absent", "disabled", "enabled"}]
  BY DEF SystemTypes, WithState

(* Faults stay within their bound.                                         *)
LEMMA BreaksType ==
    ASSUME SystemTypes, NEW r, Breaks(r)
    PROVE  lpacFaults' \in 0..MaxLpacFaults
  BY ESimAssumption DEF SystemTypes, Breaks

(* refreshProfilesLocked, when it works and when it fails.                 *)
LEMMA ListType ==
    ASSUME SystemTypes, NEW r, NEW card \in Cards, ListOk(r, card) \/ ListFails(r)
    PROVE  /\ chip' = chip /\ lpacFaults' \in 0..MaxLpacFaults
           /\ row' \in [Profiles -> Row \cup {None}]
  BY UpsertedType, BreaksType DEF SystemTypes, ListOk, Writes, ListFails

(* runJSON of a command that writes, when it works and when it fails.      *)
LEMMA CommandType ==
    ASSUME SystemTypes, NEW r, NEW able,
           NEW after \in [Profiles -> {"absent", "disabled", "enabled"}],
           CommandOk(r, able, after) \/ CommandFails(r, able, after)
    PROVE  /\ chip' \in [Profiles -> {"absent", "disabled", "enabled"}]
           /\ lpacFaults' \in 0..MaxLpacFaults
  BY BreaksType DEF SystemTypes, CommandOk, CommandFails

-----------------------------------------------------------------------------
(* Where the requests are.                                                 *)

(* A request that lists profiles knows the card to file them under: the    *)
(* lookup found one, or, in a discovery, chip info did.                    *)
KnowsCard(rec) ==
    /\ rec.pc # "idle" => rec.op \in Ops
    /\ rec.op # "discover" /\ rec.pc # "idle" => rec.card \in Cards
    /\ rec.op = "discover" =>
          /\ rec.pc \in {"idle", "locking", "inhibiting", "info", "list",
                         "deferred", "done"}
          /\ rec.pc = "list" => rec.card \in Cards

FlowOK == \A r \in Reqs : KnowsCard(req[r])

(* r goes on to one of the steps pcs, and no other request moves.          *)
Moves(r, pcs) ==
    \E rec \in Request : /\ req' = [req EXCEPT ![r] = rec]
                         /\ rec.op = req[r].op /\ rec.card = req[r].card
                         /\ rec.pc \in pcs

(* A step that only goes on.                                               *)
LEMMA GotoMoves ==
    ASSUME SystemTypes, NEW r \in Reqs, NEW pc \in Steps, Goto(r, pc)
    PROVE  Moves(r, {pc})
<1> DEFINE rec == [req[r] EXCEPT !.pc = pc]
<1>1. req[r] \in Request
  BY DEF SystemTypes
<1>2. rec \in Request /\ rec.op = req[r].op /\ rec.card = req[r].card /\ rec.pc = pc
  BY <1>1 DEF Request
<1>3. req' = [req EXCEPT ![r] = rec]
  BY DEF Goto, SystemTypes
<1> QED
  BY <1>2, <1>3 DEF Moves

(* A step that settles the answer of the request.                          *)
LEMMA AnswerMoves ==
    ASSUME SystemTypes, NEW r \in Reqs, NEW pc \in Steps, NEW ok \in BOOLEAN,
           Answer(r, pc, ok)
    PROVE  Moves(r, {pc})
<1> DEFINE rec == [req[r] EXCEPT !.pc = pc, !.ok = ok]
<1>1. req[r] \in Request
  BY DEF SystemTypes
<1>2. rec \in Request /\ rec.op = req[r].op /\ rec.card = req[r].card /\ rec.pc = pc
  BY <1>1 DEF Request
<1>3. req' = [req EXCEPT ![r] = rec]
  BY DEF Answer, SystemTypes
<1> QED
  BY <1>2, <1>3 DEF Moves

-----------------------------------------------------------------------------
(* A step on the chip: the request stays between inhibit and uninhibit,    *)
(* and touches neither the mutex nor MM.                                   *)

InUse == LpacSteps \cup {"closing"}
Used  == InUse \cup {"deferred"}

ChipTypes ==
    /\ chip \in [Profiles -> {"absent", "disabled", "enabled"}]
    /\ bound \subseteq Cards /\ row \in [Profiles -> Row \cup {None}]
    /\ lpacFaults \in 0..MaxLpacFaults

OnChipStep(r) == OnlyChip /\ ChipTypes' /\ req[r].pc \in LpacSteps

(* Where a request goes may be said less precisely.                        *)
LEMMA MovesWithin ==
    ASSUME NEW r \in Reqs, NEW S, NEW T, S \subseteq T, Moves(r, S)
    PROVE  Moves(r, T)
  BY DEF Moves

(* After an error the deferred uninhibit comes.                            *)
LEMMA FailMoves ==
    ASSUME SystemTypes, NEW r \in Reqs, Fail(r) PROVE Moves(r, {"deferred"})
<1>1. Answer(r, "deferred", FALSE) /\ "deferred" \in Steps
  BY DEF Fail, Steps
<1> QED
  BY <1>1, AnswerMoves

(* Between inhibit and uninhibit, a step stays there.                      *)
LEMMA UsedMoves ==
    ASSUME SystemTypes, NEW r \in Reqs
    PROVE  /\ Fail(r) => Moves(r, Used)
           /\ Answer(r, "deferred", TRUE) => Moves(r, Used)
           /\ \A pc \in Used : Goto(r, pc) => Moves(r, Used)
<1>1. Fail(r) => Moves(r, Used)
  BY FailMoves, MovesWithin DEF Used
<1>2. ASSUME Answer(r, "deferred", TRUE) PROVE Moves(r, Used)
  <2>1. "deferred" \in Steps /\ {"deferred"} \subseteq Used
    BY DEF Steps, Used
  <2>2. Moves(r, {"deferred"})
    BY <1>2, <2>1, AnswerMoves
  <2> QED
    BY <2>1, <2>2, MovesWithin
<1>3. ASSUME NEW pc \in Used, Goto(r, pc) PROVE Moves(r, Used)
  <2>1. pc \in Steps /\ {pc} \subseteq Used
    BY DEF Used, InUse, Steps
  <2>2. Moves(r, {pc})
    BY <1>3, <2>1, GotoMoves
  <2> QED
    BY <2>1, <2>2, MovesWithin
<1> QED
  BY <1>1, <1>2, <1>3

(* toggleProfile only changes the chip and the rows it lists.              *)
LEMMA SwitchStep ==
    ASSUME SystemTypes, FlowOK, NEW r \in Reqs,
           \/ List1(r) \/ DisableCurrent(r) \/ List2(r) \/ Operate(r)
           \/ ListAfterRefusal(r) \/ Rollback(r) \/ LastList(r) \/ List3(r)
    PROVE  OnChipStep(r) /\ Moves(r, Used) /\ req[r].op # "discover"
<1>1. /\ Fail(r) => Moves(r, Used)
      /\ \A pc \in Used : Goto(r, pc) => Moves(r, Used)
  BY UsedMoves
<1>2. req[r].pc \in {"list1", "disableCurrent", "list2", "operate",
                     "listAfterRefusal", "rollback", "lastList", "list3"}
      => req[r].card \in Cards /\ req[r].op # "discover"
  BY DEF FlowOK, KnowsCard
<1>3. CASE List1(r)
  <2>1. req[r].pc = "list1" /\ OnlyChip /\ bound' = bound
    BY <1>3 DEF List1, At
  <2>2. ListOk(r, req[r].card) \/ ListFails(r)
    BY <1>3 DEF List1
  <2>3. ChipTypes'
    BY <1>2, <2>1, <2>2, ListType DEF ChipTypes, SystemTypes
  <2>4. ASSUME NEW p \in Enabled,
               req' = [req EXCEPT ![r].pc = "disableCurrent", ![r].previous = p]
        PROVE  Moves(r, Used)
    <3> DEFINE rec == [req[r] EXCEPT !.pc = "disableCurrent", !.previous = p]
    <3>1. req[r] \in Request /\ p \in Profiles
      BY DEF SystemTypes, Enabled, OnChip
    <3>2. /\ rec \in Request /\ rec.op = req[r].op /\ rec.card = req[r].card
          /\ rec.pc = "disableCurrent"
      BY <3>1 DEF Request, Steps, LpacSteps
    <3>3. req' = [req EXCEPT ![r] = rec]
      BY <2>4 DEF SystemTypes
    <3>4. "disableCurrent" \in Used
      BY DEF Used, InUse, LpacSteps
    <3> QED
      BY <3>2, <3>3, <3>4 DEF Moves
  <2>5. Moves(r, Used)
    <3>1. "operate" \in Used
      BY DEF Used, InUse, LpacSteps
    <3>2. \/ Fail(r) \/ Goto(r, "operate")
          \/ \E p \in Enabled : req' = [req EXCEPT ![r].pc = "disableCurrent",
                                                   ![r].previous = p]
      BY <1>3 DEF List1
    <3> QED
      BY <1>1, <2>4, <3>1, <3>2
  <2> QED
    BY <1>2, <2>1, <2>3, <2>5 DEF OnChipStep, LpacSteps
<1>4. CASE DisableCurrent(r)
  <2>1. req[r].pc = "disableCurrent" /\ OnlyChip /\ bound' = bound /\ row' = row
    BY <1>4 DEF DisableCurrent, At
  <2>2. ChipTypes'
    BY <1>4, <2>1, WithStateType, CommandType DEF DisableCurrent, ChipTypes, SystemTypes
  <2>3. Goto(r, "list2") \/ Goto(r, "lastList")
    BY <1>4 DEF DisableCurrent
  <2> QED
    BY <1>1, <1>2, <2>1, <2>2, <2>3 DEF OnChipStep, Used, InUse, LpacSteps
<1>5. CASE List2(r)
  <2>1. req[r].pc = "list2" /\ OnlyChip /\ bound' = bound
    BY <1>5 DEF List2, At
  <2>2. ChipTypes'
    BY <1>2, <1>5, <2>1, ListType DEF List2, ChipTypes, SystemTypes
  <2>3. Fail(r) \/ Goto(r, "operate")
    BY <1>5 DEF List2
  <2> QED
    BY <1>1, <1>2, <2>1, <2>2, <2>3 DEF OnChipStep, Used, InUse, LpacSteps
<1>6. CASE Operate(r)
  <2>1. req[r].pc = "operate" /\ OnlyChip /\ bound' = bound /\ row' = row
    BY <1>6 DEF Operate, At
  <2> DEFINE able  == IF req[r].op = "enable" THEN CanEnable(req[r].profile)
                      ELSE CanDisable(req[r].profile)
             after == WithState(req[r].profile,
                                IF req[r].op = "enable" THEN "enabled" ELSE "disabled")
  <2>2. CommandOk(r, able, after) \/ CommandFails(r, able, after)
    BY <1>6 DEF Operate
  <2>3. after \in [Profiles -> {"absent", "disabled", "enabled"}]
    BY WithStateType
  <2>4. ChipTypes'
    <3> HIDE DEF able, after
    <3> QED
      BY <2>1, <2>2, <2>3, CommandType DEF ChipTypes, SystemTypes
  <2>5. ASSUME NEW pc \in Used,
               req' = [req EXCEPT ![r].pc = pc, ![r].tried = TRUE]
        PROVE  Moves(r, Used)
    <3> DEFINE rec == [req[r] EXCEPT !.pc = pc, !.tried = TRUE]
    <3>1. req[r] \in Request /\ pc \in Steps
      BY DEF SystemTypes, Used, InUse, Steps
    <3>2. rec \in Request /\ rec.op = req[r].op /\ rec.card = req[r].card /\ rec.pc = pc
      BY <3>1 DEF Request
    <3>3. req' = [req EXCEPT ![r] = rec]
      BY <2>5 DEF SystemTypes
    <3> QED
      BY <3>2, <3>3 DEF Moves
  <2>6. Moves(r, Used)
    <3>1. {"list3", "listAfterRefusal"} \subseteq Used
      BY DEF Used, InUse, LpacSteps
    <3>2. \E pc \in {"list3", "listAfterRefusal"} :
             req' = [req EXCEPT ![r].pc = pc, ![r].tried = TRUE]
      BY <1>6 DEF Operate
    <3> QED
      BY <2>5, <3>1, <3>2
  <2> QED
    BY <1>2, <2>1, <2>4, <2>6 DEF OnChipStep, LpacSteps
<1>7. CASE ListAfterRefusal(r)
  <2>1. req[r].pc = "listAfterRefusal" /\ OnlyChip /\ bound' = bound
    BY <1>7 DEF ListAfterRefusal, At
  <2>2. ChipTypes'
    BY <1>2, <1>7, <2>1, ListType DEF ListAfterRefusal, ChipTypes, SystemTypes
  <2>3. Fail(r) \/ Goto(r, "rollback")
    BY <1>7 DEF ListAfterRefusal
  <2> QED
    BY <1>1, <1>2, <2>1, <2>2, <2>3 DEF OnChipStep, Used, InUse, LpacSteps
<1>8. CASE Rollback(r)
  <2>1. req[r].pc = "rollback" /\ OnlyChip /\ bound' = bound /\ row' = row
    BY <1>8 DEF Rollback, At
  <2>2. ChipTypes'
    BY <1>8, <2>1, WithStateType, CommandType DEF Rollback, ChipTypes, SystemTypes
  <2>3. Goto(r, "lastList")
    BY <1>8 DEF Rollback
  <2> QED
    BY <1>1, <1>2, <2>1, <2>2, <2>3 DEF OnChipStep, Used, InUse, LpacSteps
<1>9. CASE LastList(r)
  <2>1. req[r].pc = "lastList" /\ OnlyChip /\ bound' = bound /\ Fail(r)
    BY <1>9 DEF LastList, At
  <2>2. ChipTypes'
    BY <1>2, <1>9, <2>1, ListType DEF LastList, ChipTypes, SystemTypes
  <2> QED
    BY <1>1, <1>2, <2>1, <2>2 DEF OnChipStep, LpacSteps
<1>10. CASE List3(r)
  <2>1. req[r].pc = "list3" /\ OnlyChip /\ bound' = bound /\ Goto(r, "closing")
    BY <1>10 DEF List3, At
  <2>2. ChipTypes'
    BY <1>2, <1>10, <2>1, ListType DEF List3, ChipTypes, SystemTypes
  <2> QED
    BY <1>1, <1>2, <2>1, <2>2 DEF OnChipStep, Used, InUse, LpacSteps
<1> QED
  BY <1>3, <1>4, <1>5, <1>6, <1>7, <1>8, <1>9, <1>10

(* So do runProfileWrite's callers: rename, delete, download.              *)
LEMMA WriteStep ==
    ASSUME SystemTypes, FlowOK, NEW r \in Reqs, Write(r)
    PROVE  OnChipStep(r) /\ Moves(r, Used) /\ req[r].op # "discover"
<1>1. /\ Fail(r) => Moves(r, Used)
      /\ Answer(r, "deferred", TRUE) => Moves(r, Used)
      /\ \A pc \in Used : Goto(r, pc) => Moves(r, Used)
  BY UsedMoves
<1>2. req[r].pc \in {"rename", "recheck", "erase", "forget", "download"}
      => req[r].card \in Cards /\ req[r].op # "discover"
  BY DEF FlowOK, KnowsCard
<1>3. CASE Rename(r)
  <2>1. req[r].pc = "rename" /\ OnlyChip /\ bound' = bound /\ row' = row
    BY <1>3 DEF Rename, At
  <2>2. ChipTypes'
    BY <1>3, <2>1, CommandType DEF Rename, ChipTypes, SystemTypes
  <2>3. Answer(r, "deferred", TRUE) \/ Fail(r)
    BY <1>3 DEF Rename
  <2> QED
    BY <1>1, <1>2, <2>1, <2>2, <2>3 DEF OnChipStep, LpacSteps
<1>4. CASE Recheck(r)
  <2>1. /\ req[r].pc = "recheck" /\ OnlyChip
        /\ UNCHANGED <<chip, bound, row, lpacFaults>>
    BY <1>4 DEF Recheck, At, OnlyReq, OnlyChip, dbVars
  <2>2. ChipTypes'
    BY <2>1 DEF ChipTypes, SystemTypes
  <2>3. Fail(r) \/ Goto(r, "erase")
    BY <1>4 DEF Recheck
  <2> QED
    BY <1>1, <1>2, <2>1, <2>2, <2>3 DEF OnChipStep, Used, InUse, LpacSteps
<1>5. CASE Erase(r)
  <2>1. req[r].pc = "erase" /\ OnlyChip /\ bound' = bound /\ row' = row
    BY <1>5 DEF Erase, At
  <2>2. ChipTypes'
    BY <1>5, <2>1, WithStateType, CommandType DEF Erase, ChipTypes, SystemTypes
  <2>3. Goto(r, "forget") \/ Fail(r)
    BY <1>5 DEF Erase
  <2> QED
    BY <1>1, <1>2, <2>1, <2>2, <2>3 DEF OnChipStep, Used, InUse, LpacSteps
<1>6. CASE Forget(r)
  <2> DEFINE rest == [row EXCEPT ![req[r].profile] = None]
  <2>1. req[r].pc = "forget" /\ OnlyChip /\ bound' = bound /\ chip' = chip
    BY <1>6 DEF Forget, At
  <2>2. rest \in [Profiles -> Row \cup {None}]
    BY DEF SystemTypes
  <2>3. \A failed : Upserted(req[r].card, rest, failed) \in [Profiles -> Row \cup {None}]
    BY <1>2, <2>1, <2>2, UpsertedType
  <2>4. \/ row' \in {row, rest}
        \/ \E failed : row' = Upserted(req[r].card, rest, failed)
    BY <1>6 DEF Forget, Writes
  <2>5. lpacFaults' = lpacFaults \/ Breaks(r)
    BY <1>6 DEF Forget
  <2>6. ChipTypes'
    <3>1. row \in [Profiles -> Row \cup {None}]
      BY DEF SystemTypes
    <3>2. row' \in [Profiles -> Row \cup {None}]
      <4> HIDE DEF rest
      <4> QED
        BY <2>2, <2>3, <2>4, <3>1
    <3> QED
      BY <2>1, <2>5, <3>2, BreaksType DEF ChipTypes, SystemTypes
  <2>7. Fail(r) \/ Goto(r, "closing")
    BY <1>6 DEF Forget
  <2> QED
    BY <1>1, <1>2, <2>1, <2>6, <2>7 DEF OnChipStep, Used, InUse, LpacSteps
<1>7. CASE Download(r)
  <2>1. req[r].pc = "download" /\ OnlyChip /\ bound' = bound /\ row' = row
    BY <1>7 DEF Download, At
  <2>2. ChipTypes'
    BY <1>7, <2>1, WithStateType, CommandType DEF Download, ChipTypes, SystemTypes
  <2>3. Goto(r, "info") \/ Fail(r)
    BY <1>7 DEF Download
  <2> QED
    BY <1>1, <1>2, <2>1, <2>2, <2>3 DEF OnChipStep, Used, InUse, LpacSteps
<1> QED
  BY <1>3, <1>4, <1>5, <1>6, <1>7 DEF Write

(* r goes on to one of the steps pcs, knowing its card.                    *)
Flows(r, pcs) ==
    \E rec \in Request : /\ req' = [req EXCEPT ![r] = rec]
                         /\ KnowsCard(rec) /\ rec.pc \in pcs

(* A request that is no discovery keeps the card of its lookup.            *)
LEMMA MovesFlows ==
    ASSUME SystemTypes, FlowOK, NEW r \in Reqs, NEW S, Moves(r, S),
           req[r].op # "discover", req[r].pc # "idle"
    PROVE  Flows(r, S)
  BY DEF Moves, Flows, FlowOK, KnowsCard

(* chip info gives a discovery its card; the list comes after it.          *)
LEMMA RefreshStep ==
    ASSUME SystemTypes, FlowOK, NEW r \in Reqs, Info(r) \/ List(r)
    PROVE  OnChipStep(r) /\ Flows(r, Used)
<1>1. CASE Info(r)
  <2>1. req[r].pc = "info" /\ OnlyChip /\ chip' = chip /\ row' = row
    BY <1>1 DEF Info, At
  <2>2. bound' \subseteq Cards
    BY <1>1 DEF Info, SystemTypes
  <2>3. lpacFaults' \in 0..MaxLpacFaults
    BY <1>1, BreaksType DEF Info, SystemTypes
  <2>4. OnChipStep(r)
    BY <2>1, <2>2, <2>3 DEF OnChipStep, ChipTypes, SystemTypes, LpacSteps
  <2> DEFINE card == IF req[r].op = "discover" THEN inserted ELSE req[r].card
             found  == [req[r] EXCEPT !.pc = "list", !.card = card]
             failed == [req[r] EXCEPT !.pc = "deferred", !.ok = FALSE]
             going  == [req[r] EXCEPT !.pc = "list"]
  <2>5. req[r] \in Request /\ req[r].pc = "info" /\ KnowsCard(req[r])
        /\ inserted \in Cards
    BY <2>1 DEF SystemTypes, FlowOK
  <2>6. card \in Cards \cup {None} /\ {"list", "deferred"} \subseteq Steps
    BY <2>5 DEF Request, Steps, LpacSteps
  <2>7. /\ found \in Request /\ found.pc = "list"
        /\ found.op = req[r].op /\ found.card = card
    <3> HIDE DEF card
    <3> QED
      BY <2>5, <2>6 DEF Request
  <2>8. /\ failed \in Request /\ failed.pc = "deferred"
        /\ failed.op = req[r].op /\ failed.card = req[r].card
    BY <2>5, <2>6 DEF Request
  <2>9. /\ going \in Request /\ going.pc = "list"
        /\ going.op = req[r].op /\ going.card = req[r].card
    BY <2>5, <2>6 DEF Request
  <2>10. /\ KnowsCard(found) /\ KnowsCard(failed)
         /\ req[r].op # "discover" => KnowsCard(going)
    <3> HIDE DEF found, failed, going
    <3> QED
      BY <2>5, <2>7, <2>8, <2>9 DEF KnowsCard
  <2>11. \/ req' = [req EXCEPT ![r] = found]
         \/ req' = [req EXCEPT ![r] = failed]
         \/ req[r].op # "discover" /\ req' = [req EXCEPT ![r] = going]
    BY <1>1 DEF Info, Fail, Answer, Goto, SystemTypes
  <2>12. Flows(r, Used)
    <3>1. {"list", "deferred"} \subseteq Used
      BY DEF Used, InUse, LpacSteps
    <3> HIDE DEF found, failed, going
    <3> QED
      BY <2>7, <2>8, <2>9, <2>10, <2>11, <3>1 DEF Flows
  <2> QED
    BY <2>4, <2>12
<1>2. CASE List(r)
  <2>1. req[r].pc = "list" /\ OnlyChip /\ bound' = bound
    BY <1>2 DEF List, At
  <2>2. req[r].card \in Cards
    BY <2>1 DEF FlowOK, KnowsCard
  <2>3. ChipTypes'
    BY <1>2, <2>1, <2>2, ListType DEF List, ChipTypes, SystemTypes
  <2>4. OnChipStep(r)
    BY <2>1, <2>3 DEF OnChipStep, LpacSteps
  <2>5. Moves(r, {"deferred"}) \/ (req[r].op # "discover" /\ Moves(r, {"closing"}))
    <3>1. \/ Answer(r, "deferred", TRUE) \/ Fail(r)
          \/ req[r].op # "discover" /\ Goto(r, "closing")
      BY <1>2 DEF List
    <3>2. "deferred" \in Steps /\ "closing" \in Steps
      BY DEF Steps
    <3>3. Answer(r, "deferred", TRUE) => Moves(r, {"deferred"})
      BY <3>2, AnswerMoves
    <3>4. Goto(r, "closing") => Moves(r, {"closing"})
      BY <3>2, GotoMoves
    <3> QED
      BY <3>1, <3>3, <3>4, FailMoves
  <2>6. Flows(r, {"deferred"}) \/ Flows(r, {"closing"})
    <3>1. req[r].op \in Ops
      BY <2>1 DEF FlowOK, KnowsCard
    <3> QED
      BY <2>2, <2>5, <3>1 DEF Flows, Moves, KnowsCard
  <2>7. Flows(r, Used)
    BY <2>6 DEF Flows, Used, InUse
  <2> QED
    BY <2>4, <2>7
<1> QED
  BY <1>1, <1>2

-----------------------------------------------------------------------------
(* The inductive invariant.                                                *)

Holding == Used \cup {"inhibiting", "recovering", "resetting"}

Exclusion ==
    /\ \A r \in Reqs : req[r].pc \in Holding => lock = r
    /\ \A r \in Reqs : req[r].pc \in InUse => mm = "inhibited" /\ active = 1
    /\ active > 0 => active = 1 /\ lock \in Reqs /\ req[lock].pc \in Used
    /\ cancelled = {} /\ busFaults = 0 /\ mm = "inhibited" => active = 1

IInv == SystemTypes /\ FlowOK /\ Exclusion

(* One request has moved, the others have not.                             *)
LEMMA FlowsKeep ==
    ASSUME SystemTypes, FlowOK, NEW r \in Reqs, NEW S, Flows(r, S)
    PROVE  /\ req' \in [Reqs -> Request] /\ FlowOK'
           /\ req'[r].pc \in S /\ \A q \in Reqs \ {r} : req'[q] = req[q]
  BY DEF SystemTypes, FlowOK, Flows

(* The steps, by whether they come before, within or after the inhibition. *)
LEMMA StepNames ==
    /\ LpacSteps \cap {"idle", "locking", "inhibiting", "closing", "recovering",
                       "resetting", "deferred", "done"} = {}
    /\ Used = LpacSteps \cup {"closing", "deferred"}
    /\ Holding = LpacSteps \cup {"closing", "deferred", "inhibiting",
                                 "recovering", "resetting"}
    /\ InUse = LpacSteps \cup {"closing"}
  BY DEF LpacSteps, Used, InUse, Holding

(* Steps on the chip keep the invariant.                                   *)
LEMMA ChipStepKeeps ==
    ASSUME IInv, NEW r \in Reqs, OnChipStep(r), Flows(r, Used)
    PROVE  IInv'
<1> USE DEF IInv
<1>1. /\ req' \in [Reqs -> Request] /\ FlowOK'
      /\ req'[r].pc \in Used /\ \A q \in Reqs \ {r} : req'[q] = req[q]
  BY FlowsKeep
<1>2. SystemTypes'
  BY <1>1 DEF OnChipStep, ChipTypes, OnlyChip, hwVars, SystemTypes
<1>3. /\ UNCHANGED <<mm, lock, active, cancelled, busFaults>>
      /\ req[r].pc \in LpacSteps
  BY DEF OnChipStep, OnlyChip, hwVars
<1>4. Exclusion'
  BY <1>1, <1>3, StepNames DEF Exclusion
<1> QED
  BY <1>1, <1>2, <1>4

(* inhibitor.uninhibit by the holder of the lock.                          *)
LEMMA Uninhibits ==
    ASSUME IInv, NEW cancel, UninhibitOk(cancel) \/ UninhibitFails(cancel)
    PROVE  /\ active' = 0 /\ mm' \in {mm, Released} /\ news' = news
           /\ busFaults' \in 0..MaxBusFaults /\ busFaults' >= busFaults
           /\ \/ active = 1 /\ mm' = Released
              \/ active = 0 /\ mm' = mm
              \/ cancel \/ busFaults' > 0
<1>1. active \in {0, 1} /\ busFaults \in 0..MaxBusFaults
  BY DEF IInv, SystemTypes, Exclusion
<1>2. CASE UninhibitOk(cancel)
  BY <1>1, <1>2 DEF UninhibitOk
<1>3. CASE UninhibitFails(cancel)
  BY <1>1, <1>3, ESimAssumption DEF UninhibitFails, BusBreaks
<1> QED
  BY <1>2, <1>3

(* When MM is told to take the modem back, it is not inhibited.            *)
LEMMA ReleasedType ==
    ASSUME SystemTypes
    PROVE  Released \in {"exported", "absent"}
  BY DEF SystemTypes, Released

(* The end of a request gives the mutex back.                              *)
LEMMA FinishFlows ==
    ASSUME SystemTypes, FlowOK, NEW r \in Reqs, NEW ok \in BOOLEAN, Finish(r, ok),
           req[r].pc # "idle"
    PROVE  lock' = None /\ Flows(r, {"done"})
<1>1. Answer(r, "done", ok) /\ "done" \in Steps /\ lock' = None
  BY DEF Finish, Steps
<1>2. Moves(r, {"done"})
  BY <1>1, AnswerMoves
<1> QED
  BY <1>1, <1>2 DEF Moves, Flows, FlowOK, KnowsCard

(* The deferred uninhibit and the unlock keep the invariant.               *)
LEMMA DeferredKeeps ==
    ASSUME IInv, NEW r \in Reqs, Deferred(r)
    PROVE  IInv'
<1> USE DEF IInv
<1>1. /\ req[r].pc = "deferred" /\ req[r].ok \in BOOLEAN /\ lock = r
      /\ UNCHANGED <<inserted, chip, cancelled, present, bound, row, lpacFaults, swaps>>
  BY StepNames DEF Deferred, At, OnlyBus, dbVars, SystemTypes, Request, Exclusion
<1>2. /\ lock' = None /\ req' \in [Reqs -> Request] /\ FlowOK'
      /\ req'[r].pc = "done" /\ \A q \in Reqs \ {r} : req'[q] = req[q]
  BY <1>1, FinishFlows, FlowsKeep DEF Deferred
<1>3. /\ active' = 0 /\ mm' \in {mm, Released} /\ news' = news
      /\ busFaults' \in 0..MaxBusFaults /\ busFaults' >= busFaults
      /\ \/ active = 1 /\ mm' = Released
         \/ active = 0 /\ mm' = mm
         \/ busFaults' > 0
  BY Uninhibits DEF Deferred
<1>4. SystemTypes'
  BY <1>1, <1>2, <1>3, ReleasedType DEF SystemTypes
<1>5. \A q \in Reqs : req'[q].pc \notin Holding
  BY <1>1, <1>2, StepNames DEF Exclusion
<1>6. cancelled' = {} /\ busFaults' = 0 => mm' # "inhibited"
  BY <1>1, <1>3, ReleasedType DEF Exclusion, SystemTypes
<1>7. Exclusion'
  BY <1>3, <1>5, <1>6, StepNames DEF Exclusion
<1> QED
  BY <1>2, <1>4, <1>7

(* A step of a request that is no discovery.                               *)
LEMMA GotoFlows ==
    ASSUME SystemTypes, FlowOK, NEW r \in Reqs, NEW pc \in Steps, Goto(r, pc),
           req[r].pc # "idle", req[r].op # "discover"
    PROVE  Flows(r, {pc})
  BY GotoMoves, MovesFlows

(* uninhibit under the request's context keeps the invariant.              *)
LEMMA ClosingKeeps ==
    ASSUME IInv, NEW r \in Reqs, Closing(r)
    PROVE  IInv'
<1> USE DEF IInv
<1>1. /\ req[r].pc = "closing" /\ lock = r /\ mm = "inhibited" /\ active = 1
      /\ req[r].op # "discover" /\ req[r].card \in Cards
      /\ UNCHANGED <<inserted, chip, cancelled, present, bound, row, lpacFaults, swaps>>
  BY StepNames DEF Closing, At, OnlyBus, dbVars, Exclusion, FlowOK, KnowsCard
<1>2. /\ active' = 0 /\ mm' \in {mm, Released} /\ news' = news
      /\ busFaults' \in 0..MaxBusFaults /\ busFaults' >= busFaults
      /\ \/ mm' = Released
         \/ r \in cancelled \/ busFaults' > 0
  <2> DEFINE cancel == r \in cancelled
  <2>1. UninhibitOk(cancel) \/ UninhibitFails(cancel)
    BY DEF Closing
  <2>2. cancel => r \in cancelled
    OBVIOUS
  <2> HIDE DEF cancel
  <2>3. /\ active' = 0 /\ mm' \in {mm, Released} /\ news' = news
        /\ busFaults' \in 0..MaxBusFaults /\ busFaults' >= busFaults
        /\ \/ active = 1 /\ mm' = Released
           \/ active = 0 /\ mm' = mm
           \/ cancel \/ busFaults' > 0
    BY <2>1, Uninhibits, Zenon
  <2> QED
    BY <1>1, <2>2, <2>3
<1>3. \/ lock' = None /\ Flows(r, {"done"})
      \/ lock' = r /\ Flows(r, {"recovering", "resetting", "deferred"})
  <2>1. CASE Finish(r, TRUE)
    BY <1>1, <2>1, FinishFlows
  <2>2. ASSUME NEW pc \in {"recovering", "resetting"}, Goto(r, pc), lock' = lock
        PROVE  lock' = r /\ Flows(r, {"recovering", "resetting", "deferred"})
    <3>1. pc \in Steps
      BY DEF Steps
    <3>2. Flows(r, {pc})
      BY <1>1, <2>2, <3>1, GotoFlows
    <3> QED
      BY <1>1, <2>2, <3>2 DEF Flows
  <2>3. ASSUME NEW ok \in BOOLEAN, Answer(r, "deferred", ok), lock' = lock
        PROVE  lock' = r /\ Flows(r, {"recovering", "resetting", "deferred"})
    <3>1. "deferred" \in Steps
      BY DEF Steps
    <3>2. Moves(r, {"deferred"})
      BY <2>3, <3>1, AnswerMoves
    <3>3. Flows(r, {"deferred"})
      BY <1>1, <3>2, MovesFlows
    <3> QED
      BY <1>1, <2>3, <3>3 DEF Flows
  <2>4. \/ Finish(r, TRUE)
        \/ lock' = lock /\ \E pc \in {"recovering", "resetting"} : Goto(r, pc)
        \/ lock' = lock /\ Answer(r, "deferred", req[r].op \in {"add", "delete"})
    BY DEF Closing
  <2>5. (req[r].op \in {"add", "delete"}) \in BOOLEAN
    OBVIOUS
  <2> QED
    BY <2>1, <2>2, <2>3, <2>4, <2>5
<1>4. /\ req' \in [Reqs -> Request] /\ FlowOK'
      /\ req'[r].pc \in {"done", "recovering", "resetting", "deferred"}
      /\ req'[r].pc = "done" => lock' = None
      /\ req'[r].pc # "done" => lock' = r
      /\ \A q \in Reqs \ {r} : req'[q] = req[q]
  BY <1>3, FlowsKeep
<1>5. SystemTypes'
  BY <1>1, <1>2, <1>4, ReleasedType DEF SystemTypes
<1>6. \A q \in Reqs \ {r} : req'[q].pc \notin Holding
  BY <1>1, <1>4 DEF Exclusion
<1>7. cancelled' = {} /\ busFaults' = 0 => mm' # "inhibited"
  BY <1>1, <1>2, ReleasedType
<1>8. Exclusion'
  BY <1>2, <1>4, <1>6, <1>7, StepNames DEF Exclusion
<1> QED
  BY <1>4, <1>5, <1>8

(* A step that ends the request and does not touch the inhibition.         *)
LEMMA UnlockKeeps ==
    ASSUME IInv, NEW r \in Reqs, NEW ok \in BOOLEAN, Finish(r, ok),
           req[r].pc \in {"inhibiting", "recovering", "resetting"},
           UNCHANGED <<inserted, chip, active, cancelled, present, bound, row,
                       lpacFaults, swaps>>,
           mm' \in {"exported", "inhibited", "absent"}, news' \in Seq(BOOLEAN),
           busFaults' \in 0..MaxBusFaults, busFaults' >= busFaults,
           mm' = "inhibited" => mm = "inhibited" \/ busFaults' > 0
    PROVE  IInv'
<1> USE DEF IInv
<1>1. lock = r /\ active = 0
  BY StepNames DEF Exclusion, SystemTypes
<1>2. /\ lock' = None /\ req' \in [Reqs -> Request] /\ FlowOK'
      /\ req'[r].pc = "done" /\ \A q \in Reqs \ {r} : req'[q] = req[q]
  BY FinishFlows, FlowsKeep
<1>3. SystemTypes'
  BY <1>2 DEF SystemTypes
<1>4. \A q \in Reqs : req'[q].pc \notin Holding
  BY <1>1, <1>2, StepNames DEF Exclusion
<1>5. cancelled' = {} /\ busFaults' = 0 => mm' # "inhibited"
  BY <1>1 DEF Exclusion, SystemTypes
<1>6. Exclusion'
  BY <1>1, <1>4, <1>5, StepNames DEF Exclusion
<1> QED
  BY <1>2, <1>3, <1>6

(* What MM announces about the modem.                                      *)
LEMMA NewsType ==
    ASSUME SystemTypes
    PROVE  /\ Append(news, TRUE) \in Seq(BOOLEAN)
           /\ Append(news, FALSE) \in Seq(BOOLEAN)
<1>1. \A b \in BOOLEAN : Append(news, b) \in Seq(BOOLEAN)
  BY DEF SystemTypes
<1> QED
  BY <1>1

(* The end of waitModemRecovery keeps the invariant.                       *)
LEMMA RecoveringKeeps ==
    ASSUME IInv, NEW r \in Reqs, Recovering(r)
    PROVE  IInv'
<1>1. req[r].pc = "recovering" /\ (Finish(r, TRUE) \/ Finish(r, FALSE))
  BY DEF Recovering, At
<1>2. /\ UNCHANGED <<inserted, chip, active, cancelled, present, bound, row,
                     lpacFaults, swaps>>
      /\ UNCHANGED <<mm, news, busFaults>>
  BY DEF Recovering, OnlyReq, hwVars, dbVars
<1>3. /\ mm' \in {"exported", "inhibited", "absent"} /\ news' \in Seq(BOOLEAN)
      /\ busFaults' \in 0..MaxBusFaults /\ busFaults' >= busFaults
      /\ mm' = "inhibited" => mm = "inhibited"
  BY <1>2, ESimAssumption DEF IInv, SystemTypes
<1>4. CASE Finish(r, TRUE)
  BY <1>1, <1>2, <1>3, <1>4, UnlockKeeps
<1>5. CASE Finish(r, FALSE)
  BY <1>1, <1>2, <1>3, <1>5, UnlockKeeps
<1> QED
  BY <1>1, <1>4, <1>5

(* ResetModem keeps the invariant.                                         *)
LEMMA ResettingKeeps ==
    ASSUME IInv, NEW r \in Reqs, Resetting(r)
    PROVE  IInv'
<1>1. req[r].pc = "resetting" /\ Finish(r, TRUE)
  BY DEF Resetting, At
<1>2. /\ UNCHANGED <<inserted, chip, active, cancelled, present, bound, row,
                     lpacFaults, swaps>>
      /\ UNCHANGED busFaults
  BY DEF Resetting, OnlyBus, dbVars
<1>3. /\ mm' \in {"exported", "inhibited", "absent"} /\ news' \in Seq(BOOLEAN)
      /\ mm' = "inhibited" => mm = "inhibited"
  BY NewsType DEF Resetting, IInv, SystemTypes
<1>4. busFaults' \in 0..MaxBusFaults /\ busFaults' >= busFaults
  BY <1>2, ESimAssumption DEF IInv, SystemTypes
<1> QED
  BY <1>1, <1>2, <1>3, <1>4, UnlockKeeps

(* Nothing of the service moves; the modem is not, or no longer, inhibited.*)
LEMMA EnvironmentKeeps ==
    ASSUME IInv, Export \/ TakeNews \/ Swap
    PROVE  IInv'
<1> USE DEF IInv
<1>1. CASE Export
  <2>1. SystemTypes'
    BY <1>1, NewsType DEF Export, dbVars, SystemTypes
  <2>2. FlowOK' /\ Exclusion'
    BY <1>1 DEF Export, FlowOK, KnowsCard, Exclusion
  <2> QED
    BY <2>1, <2>2
<1>2. CASE TakeNews
  <2>1. Head(news) \in BOOLEAN /\ Tail(news) \in Seq(BOOLEAN)
    BY <1>2 DEF TakeNews, SystemTypes
  <2>2. SystemTypes'
    BY <1>2, <2>1 DEF TakeNews, SystemTypes
  <2>3. FlowOK' /\ Exclusion'
    BY <1>2 DEF TakeNews, FlowOK, KnowsCard, Exclusion
  <2> QED
    BY <2>2, <2>3
<1>3. CASE Swap
  <2>1. SystemTypes'
    BY <1>3, NewsType, ESimAssumption DEF Swap, dbVars, SystemTypes
  <2>2. FlowOK' /\ Exclusion'
    BY <1>3 DEF Swap, FlowOK, KnowsCard, Exclusion
  <2> QED
    BY <2>1, <2>2
<1> QED
  BY <1>1, <1>2, <1>3

(* A step outside the lock.                                                *)
LEMMA OutsideKeeps ==
    ASSUME IInv, NEW r \in Reqs, Flows(r, {"locking"}), req[r].pc = "idle",
           UNCHANGED lock, OnlyReq
    PROVE  IInv'
<1> USE DEF IInv
<1>1. /\ req' \in [Reqs -> Request] /\ FlowOK'
      /\ req'[r].pc = "locking" /\ \A q \in Reqs \ {r} : req'[q] = req[q]
  BY FlowsKeep
<1>2. SystemTypes'
  BY <1>1 DEF OnlyReq, hwVars, dbVars, SystemTypes
<1>3. Exclusion'
  BY <1>1, StepNames DEF OnlyReq, hwVars, Exclusion
<1> QED
  BY <1>1, <1>2, <1>3

(* A lookup that succeeds keeps the invariant, if it found a card.         *)
LEMMA BeginFlows ==
    ASSUME IInv, NEW r \in Reqs, NEW op \in Ops, NEW p \in Profiles \cup {None},
           NEW c \in Cards \cup {None}, op # "discover" => c \in Cards,
           Begin(r, op, p, c)
    PROVE  IInv'
<1> DEFINE rec == [NotStarted EXCEPT !.pc = "locking", !.op = op,
                                    !.profile = p, !.card = c]
<1>1. /\ rec \in Request /\ rec.pc = "locking" /\ rec.op = op /\ rec.card = c
  BY DEF NotStarted, Request, Steps
<1>2. req' = [req EXCEPT ![r] = rec] /\ UNCHANGED lock /\ OnlyReq
  BY DEF Begin
<1>3. req[r].pc = "idle"
  BY DEF Begin, NotStarted
<1>4. KnowsCard(rec)
  <2> HIDE DEF rec
  <2> QED
    BY <1>1 DEF KnowsCard
<1>5. Flows(r, {"locking"})
  <2> HIDE DEF rec
  <2> QED
    BY <1>1, <1>2, <1>4 DEF Flows
<1> QED
  BY <1>2, <1>3, <1>5, OutsideKeeps

(* The start of any operation keeps the invariant.                         *)
LEMMA StartKeeps ==
    ASSUME IInv, NEW r \in Reqs, Start(r)
    PROVE  IInv'
<1>1. ASSUME NEW op \in ProfileOps, NEW p \in Profiles, BeginProfileOp(r, op, p)
      PROVE  IInv'
  <2>1. row[p] \in Row /\ row[p].card \in Cards
    BY <1>1 DEF BeginProfileOp, IInv, SystemTypes, Row
  <2>2. op \in Ops /\ op # "discover" /\ Begin(r, op, p, row[p].card)
    BY <1>1 DEF BeginProfileOp, Ops, ProfileOps, ToggleOps
  <2> QED
    BY <2>1, <2>2, BeginFlows
<1>2. ASSUME NEW p \in Profiles, NEW c \in Cards, BeginAdd(r, p, c) PROVE IInv'
  BY <1>2, BeginFlows DEF BeginAdd, Ops
<1>3. ASSUME NEW c \in Cards, BeginView(r, c) PROVE IInv'
  BY <1>3, BeginFlows DEF BeginView, Ops
<1>4. CASE BeginDiscover(r)
  BY <1>4, BeginFlows DEF BeginDiscover, Ops
<1> QED
  BY <1>1, <1>2, <1>3, <1>4 DEF Start

(* A client that goes away keeps the invariant.                            *)
LEMMA CancelKeeps ==
    ASSUME IInv, NEW r \in Reqs, Cancel(r)
    PROVE  IInv'
<1> USE DEF IInv
<1>1. /\ UNCHANGED <<hwVars, chip, lock, active, req, dbVars, lpacFaults,
                     busFaults, swaps>>
      /\ cancelled' = cancelled \cup {r}
  BY DEF Cancel
<1>2. SystemTypes'
  BY <1>1 DEF hwVars, dbVars, SystemTypes
<1>3. FlowOK' /\ Exclusion'
  BY <1>1 DEF hwVars, FlowOK, KnowsCard, Exclusion
<1> QED
  BY <1>2, <1>3

(* Whoever takes the mutex finds nobody counted in the inhibitor.          *)
LEMMA LockKeeps ==
    ASSUME IInv, NEW r \in Reqs, Lock(r)
    PROVE  IInv'
<1> USE DEF IInv
<1>1. /\ req[r].pc = "locking" /\ lock = None /\ lock' = r /\ OnlyReq
      /\ Goto(r, "inhibiting") /\ "inhibiting" \in Steps
  BY DEF Lock, At, Steps
<1>2. Flows(r, {"inhibiting"})
  BY <1>1, GotoMoves DEF Moves, Flows, FlowOK, KnowsCard
<1>3. /\ req' \in [Reqs -> Request] /\ FlowOK'
      /\ req'[r].pc = "inhibiting" /\ \A q \in Reqs \ {r} : req'[q] = req[q]
  BY <1>2, FlowsKeep
<1>4. SystemTypes'
  BY <1>1, <1>3 DEF OnlyReq, hwVars, dbVars, SystemTypes
<1>5. /\ active = 0 /\ \A q \in Reqs : req[q].pc \notin Holding
  BY <1>1, ESimAssumption, StepNames DEF Exclusion, SystemTypes
<1>6. Exclusion'
  BY <1>1, <1>3, <1>5, StepNames DEF OnlyReq, hwVars, Exclusion
<1> QED
  BY <1>3, <1>4, <1>6

(* The request that enters takes the only reference, and MM lets go.       *)
LEMMA InhibitKeeps ==
    ASSUME IInv, NEW r \in Reqs, Inhibit(r)
    PROVE  IInv'
<1> USE DEF IInv
<1>1. /\ req[r].pc = "inhibiting" /\ lock = r /\ active = 0
      /\ UNCHANGED <<inserted, chip, cancelled, present, bound, row,
                     lpacFaults, swaps>>
  BY StepNames DEF Inhibit, At, OnlyBus, dbVars, Exclusion, SystemTypes
<1>2. busFaults \in Nat /\ busFaults \in 0..MaxBusFaults
  BY ESimAssumption DEF SystemTypes
<1>3. CASE /\ active' = active + 1 /\ mm' = "inhibited"
           /\ news' = Append(news, FALSE) /\ UNCHANGED <<lock, busFaults>>
           /\ Goto(r, FirstStep(req[r].op))
  <2> DEFINE first == FirstStep(req[r].op)
  <2>1. /\ first \in LpacSteps /\ first \in Steps
        /\ req[r].op = "discover" => first = "info"
    <3>1. req[r].op \in Ops
      BY <1>1 DEF FlowOK, KnowsCard
    <3> QED
      BY <3>1 DEF FirstStep, LpacSteps, Steps, Ops, ProfileOps, ToggleOps
  <2>2. Goto(r, first)
    BY <1>3
  <2> HIDE DEF first
  <2>3. Moves(r, {first})
    BY <2>1, <2>2, GotoMoves
  <2>4. KnowsCard(req[r]) /\ req[r].pc = "inhibiting"
    BY <1>1 DEF FlowOK
  <2>5. Flows(r, LpacSteps)
    BY <2>1, <2>3, <2>4 DEF Moves, Flows, KnowsCard
  <2>6. /\ req' \in [Reqs -> Request] /\ FlowOK'
        /\ req'[r].pc \in LpacSteps /\ \A q \in Reqs \ {r} : req'[q] = req[q]
    BY <2>5, FlowsKeep
  <2>7. news' \in Seq(BOOLEAN)
    BY <1>3, NewsType
  <2>8. active' = 1 /\ mm' = "inhibited" /\ lock' = r
    BY <1>1, <1>3
  <2>9. SystemTypes'
    BY <1>1, <1>3, <2>6, <2>7, <2>8 DEF SystemTypes
  <2>10. \A q \in Reqs \ {r} : req'[q].pc \notin Holding
    BY <1>1, <2>6 DEF Exclusion
  <2>11. Exclusion'
    BY <2>6, <2>8, <2>10, StepNames DEF Exclusion
  <2> QED
    BY <2>6, <2>9, <2>11
<1>4. CASE Finish(r, FALSE) /\ UNCHANGED busVars
  <2>1. UNCHANGED <<active, mm, news, busFaults>>
    BY <1>4 DEF busVars
  <2>2. /\ mm' \in {"exported", "inhibited", "absent"} /\ news' \in Seq(BOOLEAN)
        /\ busFaults' \in 0..MaxBusFaults /\ busFaults' >= busFaults
        /\ mm' = "inhibited" => mm = "inhibited"
    BY <1>2, <2>1 DEF SystemTypes
  <2>3. /\ Finish(r, FALSE) /\ req[r].pc \in {"inhibiting", "recovering", "resetting"}
        /\ UNCHANGED <<inserted, chip, active, cancelled, present, bound, row,
                       lpacFaults, swaps>>
    BY <1>1, <1>4, <2>1
  <2> QED
    BY <2>2, <2>3, UnlockKeeps
<1>5. CASE /\ Finish(r, FALSE) /\ BusBreaks /\ UNCHANGED active
           /\ \/ UNCHANGED <<mm, news>>
              \/ mm' = "inhibited" /\ news' = Append(news, FALSE)
  <2>1. busFaults' \in 0..MaxBusFaults /\ busFaults' > 0 /\ busFaults' >= busFaults
    BY <1>2, <1>5, ESimAssumption DEF BusBreaks
  <2>2. mm' \in {"exported", "inhibited", "absent"} /\ news' \in Seq(BOOLEAN)
    BY <1>5, NewsType DEF SystemTypes
  <2> QED
    BY <1>1, <1>5, <2>1, <2>2, UnlockKeeps
<1>6. \/ /\ active' = active + 1 /\ mm' = "inhibited"
         /\ news' = Append(news, FALSE) /\ UNCHANGED <<lock, busFaults>>
         /\ Goto(r, FirstStep(req[r].op))
      \/ Finish(r, FALSE) /\ UNCHANGED busVars
      \/ /\ Finish(r, FALSE) /\ BusBreaks /\ UNCHANGED active
         /\ \/ UNCHANGED <<mm, news>>
            \/ mm' = "inhibited" /\ news' = Append(news, FALSE)
  <2>1. ~(active > 0)
    BY <1>1
  <2> QED
    BY <2>1, Zenon DEF Inhibit
<1> QED
  BY <1>3, <1>4, <1>5, <1>6

-----------------------------------------------------------------------------
(* The invariant holds when the daemon starts.                             *)
LEMMA InitIInv == Init => IInv
<1> SUFFICES ASSUME Init PROVE IInv
  OBVIOUS
<1>1. NotStarted \in Request /\ NotStarted.pc = "idle" /\ NotStarted.op = None
  BY DEF NotStarted, Request, Steps
<1>2. /\ req = [r \in Reqs |-> NotStarted] /\ active = 0 /\ mm = "exported"
      /\ inserted \in Cards
      /\ chip \in [Profiles -> {"absent", "disabled", "enabled"}]
  BY DEF Init
<1>3. bound \subseteq Cards
  BY DEF Init
<1>4. row \in [Profiles -> Row \cup {None}]
  <2>1. \A p \in OnChip : [card |-> inserted, state |-> chip[p]] \in Row
    BY <1>2 DEF OnChip, Row
  <2>2. [p \in Profiles |-> None] \in [Profiles -> Row \cup {None}]
    OBVIOUS
  <2>3. Upserted(inserted, [p \in Profiles |-> None], {}) \in [Profiles -> Row \cup {None}]
    BY <2>1 DEF Upserted
  <2> QED
    BY <2>2, <2>3 DEF Init
<1>5. SystemTypes
  <2>1. news \in Seq(BOOLEAN)
    BY DEF Init
  <2>2. req \in [Reqs -> Request]
    BY <1>1, <1>2
  <2>3. /\ lpacFaults \in 0..MaxLpacFaults /\ busFaults \in 0..MaxBusFaults
        /\ swaps \in 0..MaxSwaps
    BY ESimAssumption DEF Init
  <2> QED
    BY <1>2, <1>3, <1>4, <2>1, <2>2, <2>3 DEF Init, SystemTypes
<1>6. FlowOK
  BY <1>1, <1>2 DEF FlowOK, KnowsCard
<1>7. Exclusion
  BY <1>1, <1>2, StepNames DEF Exclusion
<1> QED
  BY <1>5, <1>6, <1>7 DEF IInv

(* Every step of a request keeps the invariant.                            *)
LEMMA StepKeeps ==
    ASSUME IInv, NEW r \in Reqs, Step(r)
    PROVE  IInv'
<1>1. SystemTypes /\ FlowOK
  BY DEF IInv
<1>2. ASSUME OnChipStep(r), Moves(r, Used), req[r].op # "discover"
      PROVE  IInv'
  <2>1. req[r].pc # "idle"
    BY <1>2 DEF OnChipStep, LpacSteps
  <2> QED
    BY <1>1, <1>2, <2>1, MovesFlows, ChipStepKeeps
<1>3. CASE Lock(r)
  BY <1>3, LockKeeps
<1>4. CASE Inhibit(r)
  BY <1>4, InhibitKeeps
<1>5. CASE Switch(r)
  <2>1. CASE Resetting(r)
    BY <2>1, ResettingKeeps
  <2>2. CASE \/ List1(r) \/ DisableCurrent(r) \/ List2(r) \/ Operate(r)
             \/ ListAfterRefusal(r) \/ Rollback(r) \/ LastList(r) \/ List3(r)
    BY <1>1, <1>2, <2>2, SwitchStep
  <2> QED
    BY <1>5, <2>1, <2>2 DEF Switch
<1>6. CASE Write(r)
  BY <1>1, <1>2, <1>6, WriteStep
<1>7. CASE Refresh(r)
  <2>1. CASE Recovering(r)
    BY <2>1, RecoveringKeeps
  <2>2. CASE Info(r) \/ List(r)
    BY <1>1, <2>2, RefreshStep, ChipStepKeeps
  <2> QED
    BY <1>7, <2>1, <2>2 DEF Refresh
<1>8. CASE Closing(r)
  BY <1>8, ClosingKeeps
<1>9. CASE Deferred(r)
  BY <1>9, DeferredKeeps
<1> QED
  BY <1>3, <1>4, <1>5, <1>6, <1>7, <1>8, <1>9 DEF Step

(* Every step of the system keeps the invariant.                           *)
LEMMA NextKeeps == IInv /\ [Next]_vars => IInv'
<1> SUFFICES ASSUME IInv, [Next]_vars PROVE IInv'
  OBVIOUS
<1>1. CASE Export \/ TakeNews \/ Swap
  BY <1>1, EnvironmentKeeps
<1>2. ASSUME NEW r \in Reqs, Start(r) PROVE IInv'
  BY <1>2, StartKeeps
<1>3. ASSUME NEW r \in Reqs, Step(r) PROVE IInv'
  BY <1>3, StepKeeps
<1>4. ASSUME NEW r \in Reqs, Cancel(r) PROVE IInv'
  BY <1>4, CancelKeeps
<1>5. CASE UNCHANGED vars
  BY <1>5 DEF vars, IInv, SystemTypes, FlowOK, KnowsCard, Exclusion
<1> QED
  BY <1>1, <1>2, <1>3, <1>4, <1>5 DEF Next

(* The inductive invariant holds in every reachable state.                 *)
THEOREM Invariance == Spec => []IInv
  BY InitIInv, NextKeeps, PTL DEF Spec

(* While a request runs lpac, MM has let go of the modem and no other      *)
(* request runs lpac on it, whatever fails or is cancelled.                *)
THEOREM LpacRunsAlone == Spec => []LpacAlone
<1>1. IInv => LpacAlone
  BY StepNames DEF IInv, Exclusion, LpacAlone
<1> QED
  BY <1>1, Invariance, PTL

(* As long as nobody cancels and the bus works, MM is only kept away from  *)
(* the modem while some request uses it.                                   *)
THEOREM ModemIsReleased == Spec => []ReleasedAfterUse
<1>1. IInv => ReleasedAfterUse
  BY StepNames DEF IInv, Exclusion, ReleasedAfterUse, Busy
<1> QED
  BY <1>1, Invariance, PTL

-----------------------------------------------------------------------------
(* What a request has found out and done, told from where it is.  As long  *)
(* as the card has not been replaced, the holder of the mutex is the only  *)
(* one to change the chip, so that what it saw and did still holds.        *)

\* The steps of an operation, and what is settled on the way.
Staged(rec) ==
    /\ rec.pc # "idle" /\ rec.op \in ProfileOps \cup {"add"} => rec.profile \in Profiles
    /\ rec.pc \in {"list1", "operate", "listAfterRefusal", "lastList", "list3",
                   "resetting"} => rec.op \in ToggleOps
    /\ rec.pc \in {"disableCurrent", "list2", "rollback"} =>
          rec.op = "enable" /\ rec.previous # None
    /\ rec.pc \in {"recheck", "erase", "forget"} => rec.op = "delete"
    /\ rec.pc = "rename" => rec.op = "nickname"
    /\ rec.pc = "download" => rec.op = "add"
    /\ rec.pc = "info" => rec.op \in {"add", "discover"}
    /\ rec.pc = "list" => rec.op \in {"add", "view", "discover"}
    /\ rec.pc = "recovering" => rec.op = "view"
    /\ rec.pc = "closing" => rec.op \in ToggleOps \cup {"add", "view", "delete"}
    /\ rec.pc \in {"locking", "inhibiting", "list1", "disableCurrent", "list2"} =>
          ~rec.tried
    /\ rec.pc \in {"locking", "inhibiting", "list1"} => rec.previous = None
    /\ rec.previous # None => rec.op = "enable"
    /\ rec.pc = "deferred" /\ rec.op \in ToggleOps \cup {"view"} => ~rec.ok

\* A switch on its way: what it saw before, and what it leaves behind.
Switching(rec) ==
    /\ rec.pc = "disableCurrent" =>
          /\ rec.profile \in OnChip /\ chip[rec.profile] = "disabled"
          /\ rec.previous \in Enabled
    /\ rec.pc \in {"list2", "operate"} /\ rec.previous # None =>
          CanEnable(rec.profile) /\ CanEnable(rec.previous)
    /\ rec.previous # None /\ rec.tried /\ cancelled = {} =>
          /\ rec.pc \in {"listAfterRefusal", "rollback"} =>
                /\ lpacFaults >= 1
                /\ Enabled # {} \/ CanEnable(rec.previous)
          /\ rec.pc \in {"lastList", "deferred"} => Enabled # {} \/ lpacFaults >= 2

\* An operation that has been done: the chip is as it was asked for.
Accomplished(rec) ==
    LET p == rec.profile
        ended == rec.pc = "closing" \/ (rec.pc = "deferred" /\ rec.ok)
    IN  /\ rec.pc \in {"list3", "closing", "resetting"} =>
              /\ rec.op = "enable"  => Enabled = {p}
              /\ rec.op = "disable" => chip[p] = "disabled"
        /\ rec.op = "delete" /\ (rec.pc = "forget" \/ ended) => chip[p] = "absent"
        /\ rec.op = "add" /\ (rec.pc \in {"info", "list"} \/ ended) => chip[p] # "absent"

OneEnabled == \A p, q \in Profiles :
                 chip[p] = "enabled" /\ chip[q] = "enabled" /\ Home[p] = Home[q] => p = q

\* The rows, compared with the chip, as long as nothing fails.
NoFaults == cancelled = {} /\ lpacFaults = 0 /\ swaps = 0
Homed == \A p \in Profiles : row[p] # None => Home[p] = inserted
Known == \A p \in Profiles : row[p] # None => chip[p] # "absent"
AgreeBut(q) == \A p \in Profiles \ {q} : row[p] # None => row[p].state = chip[p]
Agree == AgreeBut(None)

\* The rows trail the chip from a change to the list that follows it.
Trails(rec) == \/ rec.pc \in {"list2", "list3", "lastList"} /\ Known
               \/ rec.pc = "forget" /\ AgreeBut(rec.profile)

Progress == /\ \A r \in Reqs : Staged(req[r])
            /\ swaps = 0 => \A r \in Reqs : Switching(req[r]) /\ Accomplished(req[r])
Books == /\ swaps = 0 => Homed
         /\ NoFaults => /\ Agree \/ \E r \in Reqs : Trails(req[r])
                        /\ \A r \in Reqs :
                              At(r, "erase") => chip[req[r].profile] = "disabled"
IInv2 == IInv /\ OneEnabled /\ Progress /\ Books

Goes(r, pc, previous, tried, ok) ==
    /\ req'[r].pc = pc /\ req'[r].op = req[r].op /\ req'[r].profile = req[r].profile
    /\ req'[r].previous = previous /\ req'[r].tried = tried /\ req'[r].ok = ok
    /\ \A q \in Reqs \ {r} : req'[q] = req[q]

(* A step that goes on, and one that settles the answer.                   *)
LEMMA StepGoes ==
    ASSUME SystemTypes, NEW r \in Reqs
    PROVE  /\ \A pc : Goto(r, pc) => Goes(r, pc, req[r].previous, req[r].tried, req[r].ok)
           /\ \A pc, ok : Answer(r, pc, ok) => Goes(r, pc, req[r].previous, req[r].tried, ok)
           /\ Fail(r) => Goes(r, "deferred", req[r].previous, req[r].tried, FALSE)
           /\ \A ok : Finish(r, ok) => Goes(r, "done", req[r].previous, req[r].tried, ok)
<1>1. req \in [Reqs -> Request] /\ req[r] \in Request
  BY DEF SystemTypes
<1>2. ASSUME NEW pc, Goto(r, pc)
      PROVE  Goes(r, pc, req[r].previous, req[r].tried, req[r].ok)
  <2>1. /\ req'[r] = [req[r] EXCEPT !.pc = pc]
        /\ \A q \in Reqs \ {r} : req'[q] = req[q]
    BY <1>1, <1>2 DEF Goto
  <2> QED
    BY <1>1, <2>1 DEF Goes, Request
<1>3. ASSUME NEW pc, NEW ok, Answer(r, pc, ok)
      PROVE  Goes(r, pc, req[r].previous, req[r].tried, ok)
  <2>1. /\ req'[r] = [req[r] EXCEPT !.pc = pc, !.ok = ok]
        /\ \A q \in Reqs \ {r} : req'[q] = req[q]
    BY <1>1, <1>3 DEF Answer
  <2> QED
    BY <1>1, <2>1 DEF Goes, Request
<1> QED
  BY <1>2, <1>3 DEF Fail, Finish

(* Only the holder of the mutex is within an operation.                    *)
LEMMA OthersWait ==
    ASSUME IInv, NEW r \in Reqs, req[r].pc \in Holding, NEW q \in Reqs \ {r}
    PROVE  req[q].pc \in {"idle", "locking", "done"}
<1>1. req[q].pc \in Steps /\ req[q].pc \notin Holding
  BY DEF IInv, SystemTypes, Request, Exclusion
<1> QED
  BY <1>1, StepNames DEF Steps

(* What the holder may rely on.                                            *)
LEMMA HolderKnows ==
    ASSUME IInv2, NEW r \in Reqs, req[r].pc \in Holding
    PROVE  /\ SystemTypes /\ OneEnabled /\ req[r] \in Request /\ Staged(req[r])
           /\ swaps = 0 => Homed /\ Switching(req[r]) /\ Accomplished(req[r])
           /\ NoFaults => Agree \/ Trails(req[r])
           /\ NoFaults /\ At(r, "erase") => chip[req[r].profile] = "disabled"
<1>1. ASSUME NEW q \in Reqs, Trails(req[q]) PROVE q = r
  BY <1>1, OthersWait DEF IInv2, Trails
<1> QED
  BY <1>1 DEF IInv2, IInv, SystemTypes, Progress, Books

(* and what it has to keep.                                                *)
LEMMA HolderKeeps ==
    ASSUME IInv2, NEW r \in Reqs, req[r].pc \in Holding,
           \A q \in Reqs \ {r} : req'[q] = req[q], UNCHANGED swaps,
           OneEnabled', Staged(req[r])',
           swaps = 0 => Homed' /\ Switching(req[r])' /\ Accomplished(req[r])',
           NoFaults' => /\ Agree' \/ Trails(req[r])'
                        /\ At(r, "erase")' => chip'[req'[r].profile] = "disabled"
    PROVE  OneEnabled' /\ Progress' /\ Books'
<1>1. \A q \in Reqs \ {r} : req'[q].pc \in {"idle", "locking", "done"} /\ Staged(req'[q])
  <2>1. \A q \in Reqs \ {r} : req[q].pc \in {"idle", "locking", "done"}
    BY OthersWait DEF IInv2
  <2> QED
    BY <2>1 DEF IInv2, Progress
<1>2. \A rec : rec.pc \in {"idle", "locking", "done"} =>
         Switching(rec)' /\ Accomplished(rec)'
  BY DEF Switching, Accomplished
<1>3. Progress'
  <2>1. \A q \in Reqs : Staged(req'[q])
    BY <1>1
  <2>2. swaps' = 0 => \A q \in Reqs : (Switching(req[q]) /\ Accomplished(req[q]))'
    BY <1>1, <1>2
  <2> QED
    BY <2>1, <2>2 DEF Progress
<1>4. Books'
  BY <1>1 DEF Books, At
<1> QED
  BY <1>3, <1>4

-----------------------------------------------------------------------------
(* Commands and lists.                                                     *)

(* A fault is counted once and for all.                                    *)
LEMMA FaultsGrow ==
    ASSUME SystemTypes, NEW r, Breaks(r) \/ UNCHANGED lpacFaults
    PROVE  /\ lpacFaults \in Nat /\ lpacFaults' \in Nat /\ lpacFaults' >= lpacFaults
           /\ Breaks(r) => r \in cancelled \/ lpacFaults' = lpacFaults + 1
           /\ Breaks(r) /\ UNCHANGED cancelled => ~NoFaults'
<1>1. lpacFaults \in Nat
  BY ESimAssumption DEF SystemTypes
<1> QED
  BY <1>1 DEF Breaks, NoFaults

(* Where rows agree with the chip, no row is about a profile that is gone. *)
LEMMA AgreeKnown ==
    ASSUME SystemTypes, Agree PROVE Known
<1>1. \A p \in Profiles : row[p] # None => row[p].state \in {"disabled", "enabled"}
  BY DEF SystemTypes, Row
<1> QED
  BY <1>1, ESimAssumption DEF Agree, AgreeBut, Known

(* A list sets the rows right, if no row is about a profile that is gone.  *)
LEMMA ListRights ==
    ASSUME SystemTypes, NEW r \in Reqs, NEW card, ListOk(r, card) \/ ListFails(r),
           UNCHANGED <<inserted, cancelled, swaps>>,
           swaps = 0 => Homed, NoFaults => Known
    PROVE  /\ UNCHANGED chip /\ (Breaks(r) \/ UNCHANGED lpacFaults)
           /\ swaps = 0 => Homed'
           /\ NoFaults' => Agree'
<1>1. CASE ListFails(r)
  <2>1. ~NoFaults' /\ UNCHANGED <<chip, row>> /\ Breaks(r)
    BY <1>1, FaultsGrow DEF ListFails
  <2> QED
    BY <2>1 DEF Homed
<1>2. CASE ListOk(r, card)
  <2>0. PICK failed : /\ row' = Upserted(card, row, failed)
                      /\ \/ failed = {} /\ UNCHANGED lpacFaults
                         \/ Breaks(r)
    BY <1>2 DEF ListOk, Writes
  <2>1. /\ UNCHANGED chip /\ (Breaks(r) \/ UNCHANGED lpacFaults)
        /\ NoFaults' => failed = {} /\ UNCHANGED lpacFaults
        /\ \A p \in Profiles :
              row'[p] = IF p \in OnChip \ failed THEN [card |-> card, state |-> chip[p]]
                        ELSE row[p]
    BY <1>2, <2>0, FaultsGrow DEF ListOk, Upserted
  <2>2. \A p \in OnChip : Home[p] = inserted
    BY DEF OnChip
  <2>3. swaps = 0 => Homed'
    BY <2>1, <2>2 DEF Homed
  <2>4. ASSUME NoFaults', NEW p \in Profiles, row'[p] # None
        PROVE  row'[p].state = chip'[p]
    <3>1. Homed /\ Known
      BY <2>1, <2>4 DEF NoFaults
    <3>2. CASE p \in OnChip
      <4>1. row'[p] = [card |-> card, state |-> chip[p]]
        BY <2>1, <2>4, <3>2
      <4> QED
        BY <2>1, <4>1
    <3>3. CASE p \notin OnChip
      BY <2>1, <2>4, <3>1, <3>3 DEF Homed, Known, OnChip
    <3> QED
      BY <3>2, <3>3
  <2>5. NoFaults' => Agree'
    BY <2>4 DEF Agree, AgreeBut
  <2> QED
    BY <2>1, <2>3, <2>5
<1> QED
  BY <1>1, <1>2

(* A command that writes: done, or not done, or in doubt after a fault.    *)
LEMMA CommandDoes ==
    ASSUME SystemTypes, NEW r \in Reqs, NEW able \in BOOLEAN, NEW after,
           CommandOk(r, able, after) \/ CommandFails(r, able, after),
           UNCHANGED cancelled
    PROVE  /\ chip' = chip \/ (able /\ chip' = after)
           /\ Breaks(r) \/ UNCHANGED lpacFaults
           /\ CommandOk(r, able, after) => able /\ chip' = after
           /\ CommandFails(r, able, after) /\ NoFaults' => chip' = chip
           /\ CommandFails(r, able, after) /\ able =>
                 r \in cancelled \/ lpacFaults' = lpacFaults + 1
<1>1. CASE CommandOk(r, able, after)
  <2>1. ~CommandFails(r, able, after)
    BY <1>1, FaultsGrow DEF CommandOk, CommandFails
  <2> QED
    BY <1>1, <2>1 DEF CommandOk
<1>2. CASE CommandFails(r, able, after) /\ ~CommandOk(r, able, after)
  BY <1>2, FaultsGrow DEF CommandFails
<1> QED
  BY <1>1, <1>2

(* After a profile is enabled it is the one; after it is disabled no other *)
(* one is, and both can be enabled.                                        *)
LEMMA ChipEnabled ==
    ASSUME SystemTypes, OneEnabled, NEW p \in Profiles, CanEnable(p),
           chip' = WithState(p, "enabled"), UNCHANGED inserted
    PROVE  OneEnabled' /\ Enabled' = {p}
<1>1. /\ chip'[p] = "enabled" /\ \A q \in Profiles \ {p} : chip'[q] = chip[q]
      /\ Home[p] = inserted
  BY DEF WithState, SystemTypes, CanEnable, OnChip
<1>2. \A q \in Profiles : Home[q] = inserted => chip[q] # "enabled"
  BY DEF CanEnable, Enabled, OnChip
<1>3. Enabled' = {p}
  BY <1>1, <1>2 DEF Enabled, OnChip
<1>4. OneEnabled'
  BY <1>1, <1>2 DEF OneEnabled
<1> QED
  BY <1>3, <1>4

LEMMA ChipDisabled ==
    ASSUME SystemTypes, OneEnabled, NEW p \in Profiles, CanDisable(p),
           chip' = WithState(p, "disabled"), UNCHANGED inserted
    PROVE  /\ OneEnabled' /\ chip'[p] = "disabled" /\ CanEnable(p)'
           /\ \A q \in OnChip : chip[q] = "disabled" => CanEnable(q)'
<1>1. /\ chip'[p] = "disabled" /\ \A q \in Profiles \ {p} : chip'[q] = chip[q]
      /\ Home[p] = inserted /\ chip[p] = "enabled"
  BY DEF WithState, SystemTypes, CanDisable, Enabled, OnChip
<1>2. \A q \in Profiles \ {p} : Home[q] = inserted => chip'[q] # "enabled"
  BY <1>1 DEF OneEnabled
<1>3. Enabled' = {}
  BY <1>1, <1>2 DEF Enabled, OnChip
<1>4. OneEnabled'
  BY <1>1 DEF OneEnabled
<1> QED
  BY <1>1, <1>3, <1>4 DEF CanEnable, OnChip

(* A profile that is not enabled afterwards does no harm.                  *)
LEMMA ChipOther ==
    ASSUME SystemTypes, OneEnabled, NEW p \in Profiles, NEW state \in {"absent", "disabled"},
           chip' = WithState(p, state)
    PROVE  /\ OneEnabled' /\ chip'[p] = state
           /\ \A q \in Profiles \ {p} : chip'[q] = chip[q]
<1>1. chip'[p] = state /\ \A q \in Profiles \ {p} : chip'[q] = chip[q]
  BY DEF WithState, SystemTypes
<1> QED
  BY <1>1 DEF OneEnabled

-----------------------------------------------------------------------------
(* The steps of a switch.                                                  *)

IInv2Next == OneEnabled' /\ Progress' /\ Books'

(* The facts a step on the chip starts from.                               *)
LEMMA ChipStepFacts ==
    ASSUME IInv2, NEW r \in Reqs, req[r].pc \in LpacSteps, OnlyChip
    PROVE  /\ SystemTypes /\ req[r].pc \in Holding /\ req[r] \in Request /\ Staged(req[r])
           /\ UNCHANGED <<inserted, cancelled, swaps>>
           /\ swaps = 0 => Homed /\ Switching(req[r]) /\ Accomplished(req[r])
           /\ NoFaults => Agree \/ Trails(req[r])
           /\ OneEnabled /\ lpacFaults \in Nat
<1>1. req[r].pc \in Holding
  BY StepNames
<1>2. lpacFaults \in Nat
  BY ESimAssumption DEF IInv2, IInv, SystemTypes
<1> QED
  BY <1>1, <1>2, HolderKnows DEF OnlyChip, hwVars

(* The rows of a list in the course of a switch.                           *)
LEMMA SwitchLists ==
    ASSUME IInv2, NEW r \in Reqs, req[r].pc \in LpacSteps \ {"forget"}, OnlyChip,
           ListOk(r, req[r].card) \/ ListFails(r)
    PROVE  /\ UNCHANGED chip /\ OneEnabled' /\ lpacFaults' \in Nat /\ lpacFaults' >= lpacFaults
           /\ swaps = 0 => Homed'
           /\ NoFaults' => Agree'
<1>1. /\ SystemTypes /\ UNCHANGED <<inserted, cancelled, swaps>> /\ OneEnabled
      /\ swaps = 0 => Homed
      /\ NoFaults => Agree \/ Trails(req[r])
  BY ChipStepFacts
<1>2. NoFaults => Known
  BY <1>1, AgreeKnown DEF Trails
<1>3. /\ UNCHANGED chip /\ (Breaks(r) \/ UNCHANGED lpacFaults)
      /\ swaps = 0 => Homed'
      /\ NoFaults' => Agree'
  BY <1>1, <1>2, ListRights
<1>4. lpacFaults' \in Nat /\ lpacFaults' >= lpacFaults
  BY <1>1, <1>3, FaultsGrow
<1>5. OneEnabled'
  BY <1>1, <1>3 DEF OneEnabled
<1> QED
  BY <1>3, <1>4, <1>5

(* After a list nothing trails.                                            *)
LEMMA ListKeeps ==
    ASSUME IInv2, NEW r \in Reqs, req[r].pc \in LpacSteps \ {"forget"}, OnlyChip,
           ListOk(r, req[r].card) \/ ListFails(r),
           \A q \in Reqs \ {r} : req'[q] = req[q], req'[r].pc # "erase",
           Staged(req[r])', swaps = 0 => Switching(req[r])' /\ Accomplished(req[r])'
    PROVE  IInv2Next
<1>1. req[r].pc \in Holding /\ UNCHANGED swaps
  BY ChipStepFacts
<1>2. /\ OneEnabled'
      /\ swaps = 0 => Homed'
      /\ NoFaults' => Agree'
  BY SwitchLists
<1> QED
  BY <1>1, <1>2, HolderKeeps DEF IInv2Next, At

LEMMA List1Keeps ==
    ASSUME IInv2, NEW r \in Reqs, List1(r) PROVE IInv2Next
<1> DEFINE target == req[r].profile
<1>1. req[r].pc = "list1" /\ OnlyChip /\ (ListOk(r, req[r].card) \/ ListFails(r))
  BY DEF List1, At
<1>2. "list1" \in LpacSteps \ {"forget"}
  BY DEF LpacSteps
<1>3. /\ SystemTypes /\ req[r] \in Request /\ Staged(req[r]) /\ UNCHANGED inserted
  BY <1>1, <1>2, ChipStepFacts
<1>4. UNCHANGED chip
  BY <1>1, <1>2, SwitchLists
<1>5. req[r].op \in ToggleOps /\ ~req[r].tried /\ req[r].previous = None /\ target \in Profiles
  BY <1>1, <1>3 DEF Staged, ProfileOps
<1>6. CASE Fail(r) \/ Goto(r, "operate")
  <2>1. \/ Goes(r, "deferred", None, FALSE, FALSE)
        \/ Goes(r, "operate", None, FALSE, req[r].ok)
    BY <1>3, <1>5, <1>6, StepGoes DEF Request
  <2>2. /\ \A q \in Reqs \ {r} : req'[q] = req[q]
        /\ req'[r].pc # "erase" /\ Staged(req[r])' /\ Switching(req[r])' /\ Accomplished(req[r])'
    BY <1>5, <2>1 DEF Goes, Staged, Switching, Accomplished, ToggleOps, ProfileOps
  <2> QED
    BY <1>1, <1>2, <2>2, ListKeeps
<1>7. ASSUME NEW p \in Enabled \ {target}, req[r].op = "enable", target \in OnChip,
             chip[target] # "enabled",
             req' = [req EXCEPT ![r].pc = "disableCurrent", ![r].previous = p]
      PROVE  IInv2Next
  <2>1. p # None
    BY ESimAssumption DEF Enabled, OnChip
  <2>2. Goes(r, "disableCurrent", p, FALSE, req[r].ok)
    <3>1. /\ req'[r] = [req[r] EXCEPT !.pc = "disableCurrent", !.previous = p]
          /\ \A q \in Reqs \ {r} : req'[q] = req[q]
      BY <1>3, <1>7 DEF SystemTypes
    <3> QED
      BY <1>3, <1>5, <3>1 DEF Goes, Request
  <2>3. chip[target] = "disabled"
    BY <1>3, <1>5, <1>7 DEF SystemTypes, OnChip
  <2>4. Enabled' = Enabled /\ OnChip' = OnChip
    BY <1>3, <1>4 DEF Enabled, OnChip
  <2>5. /\ \A q \in Reqs \ {r} : req'[q] = req[q]
        /\ req'[r].pc # "erase" /\ Staged(req[r])' /\ Accomplished(req[r])'
    BY <1>5, <1>7, <2>1, <2>2 DEF Goes, Staged, Accomplished, ToggleOps, ProfileOps
  <2>6. Switching(req[r])'
    BY <1>4, <1>7, <2>2, <2>3, <2>4 DEF Goes, Switching
  <2> QED
    BY <1>1, <1>2, <2>5, <2>6, ListKeeps
<1>8. \/ Fail(r) \/ Goto(r, "operate")
      \/ /\ req[r].op = "enable" /\ target \in OnChip /\ chip[target] # "enabled"
         /\ \E p \in Enabled \ {target} :
               req' = [req EXCEPT ![r].pc = "disableCurrent", ![r].previous = p]
  BY DEF List1
<1> QED
  BY <1>6, <1>7, <1>8

LEMMA DisableCurrentKeeps ==
    ASSUME IInv2, NEW r \in Reqs, DisableCurrent(r) PROVE IInv2Next
<1>0. PICK p, target : p = req[r].previous /\ target = req[r].profile
  OBVIOUS
<1> DEFINE after == WithState(p, "disabled")
<1>1. /\ req[r].pc = "disableCurrent" /\ OnlyChip /\ UNCHANGED row
      /\ \/ CommandOk(r, CanDisable(p), after) /\ Goto(r, "list2")
         \/ CommandFails(r, CanDisable(p), after) /\ Goto(r, "lastList")
  BY <1>0 DEF DisableCurrent, At
<1>2. "disableCurrent" \in LpacSteps
  BY DEF LpacSteps
<1>3. /\ SystemTypes /\ req[r].pc \in Holding /\ req[r] \in Request /\ Staged(req[r])
      /\ UNCHANGED <<inserted, cancelled, swaps>>
      /\ swaps = 0 => Homed /\ Switching(req[r])
      /\ NoFaults => Agree \/ Trails(req[r])
      /\ OneEnabled
  BY <1>1, <1>2, ChipStepFacts
<1>4. req[r].op = "enable" /\ p \in Profiles /\ p # None /\ ~req[r].tried /\ target \in Profiles
  BY <1>0, <1>1, <1>3 DEF Staged, Request, ProfileOps, ToggleOps
<1>5. CanDisable(p) \in BOOLEAN
  BY DEF CanDisable
<1>6. /\ chip' = chip \/ (CanDisable(p) /\ chip' = after)
      /\ Breaks(r) \/ UNCHANGED lpacFaults
      /\ CommandOk(r, CanDisable(p), after) => CanDisable(p) /\ chip' = after
  <2> HIDE DEF after
  <2> QED
    BY <1>1, <1>3, <1>5, CommandDoes
<1>7. OneEnabled'
  <2>1. chip' = chip => OneEnabled'
    BY <1>3 DEF OneEnabled
  <2> QED
    BY <1>3, <1>4, <1>6, <2>1, ChipDisabled
<1>8. \/ Goes(r, "list2", p, FALSE, req[r].ok) \/ Goes(r, "lastList", p, FALSE, req[r].ok)
  BY <1>0, <1>1, <1>3, <1>4, StepGoes DEF Request
<1>9. /\ \A q \in Reqs \ {r} : req'[q] = req[q]
      /\ req'[r].pc \in {"list2", "lastList"} /\ Staged(req[r])' /\ Accomplished(req[r])'
  BY <1>0, <1>4, <1>8 DEF Goes, Staged, Accomplished, ToggleOps, ProfileOps
<1>10. ASSUME swaps = 0 PROVE Switching(req[r])'
  <2>1. CASE CommandOk(r, CanDisable(p), after) /\ Goto(r, "list2")
    <3>1. CanEnable(p)' /\ \A q \in OnChip : chip[q] = "disabled" => CanEnable(q)'
      BY <1>3, <1>4, <1>6, <2>1, ChipDisabled
    <3>2. target \in OnChip /\ chip[target] = "disabled"
      BY <1>0, <1>1, <1>3, <1>10 DEF Switching
    <3>3. Goes(r, "list2", p, FALSE, req[r].ok)
      BY <1>0, <1>3, <1>4, <2>1, StepGoes DEF Request
    <3>4. req'[r].pc = "list2" /\ req'[r].profile = target /\ req'[r].previous = p /\ ~req'[r].tried
      BY <1>0, <3>3 DEF Goes
    <3>5. CanEnable(target)' /\ CanEnable(p)'
      BY <3>1, <3>2
    <3> QED
      BY <3>4, <3>5 DEF Switching, CanEnable
  <2>2. CASE Goto(r, "lastList")
    <3>1. Goes(r, "lastList", p, FALSE, req[r].ok)
      BY <1>0, <1>3, <1>4, <2>2, StepGoes DEF Request
    <3> QED
      BY <3>1 DEF Goes, Switching
  <2> QED
    BY <1>1, <2>1, <2>2
<1>11. swaps = 0 => Homed'
  BY <1>1, <1>3 DEF Homed
<1>12. NoFaults' => Known'
  <2>1. NoFaults' => NoFaults
    BY <1>3, <1>6, FaultsGrow DEF NoFaults
  <2>2. NoFaults => Known
    BY <1>1, <1>3, AgreeKnown DEF Trails
  <2>3. \A q \in Profiles : chip[q] # "absent" => chip'[q] # "absent"
    BY <1>3, <1>4, <1>6 DEF WithState, SystemTypes
  <2> QED
    BY <1>1, <2>1, <2>2, <2>3 DEF Known
<1>13. NoFaults' => Trails(req[r])'
  BY <1>9, <1>12 DEF Trails
<1> QED
  BY <1>3, <1>7, <1>9, <1>10, <1>11, <1>13, HolderKeeps DEF IInv2Next, At

LEMMA List2Keeps ==
    ASSUME IInv2, NEW r \in Reqs, List2(r) PROVE IInv2Next
<1>1. /\ req[r].pc = "list2" /\ OnlyChip /\ (ListOk(r, req[r].card) \/ ListFails(r))
      /\ Fail(r) \/ Goto(r, "operate")
  BY DEF List2, At
<1>2. "list2" \in LpacSteps \ {"forget"}
  BY DEF LpacSteps
<1>3. /\ SystemTypes /\ req[r] \in Request /\ Staged(req[r]) /\ UNCHANGED inserted
      /\ swaps = 0 => Switching(req[r])
  BY <1>1, <1>2, ChipStepFacts
<1>4. UNCHANGED chip
  BY <1>1, <1>2, SwitchLists
<1>5. req[r].op = "enable" /\ ~req[r].tried /\ req[r].previous # None
  BY <1>1, <1>3 DEF Staged
<1>6. \/ Goes(r, "deferred", req[r].previous, FALSE, FALSE)
      \/ Goes(r, "operate", req[r].previous, FALSE, req[r].ok)
  BY <1>1, <1>3, <1>5, StepGoes DEF Request
<1>7. /\ \A q \in Reqs \ {r} : req'[q] = req[q]
      /\ req'[r].pc # "erase" /\ Staged(req[r])' /\ Accomplished(req[r])'
  BY <1>1, <1>3, <1>5, <1>6 DEF Goes, Staged, Accomplished, ToggleOps, ProfileOps
<1>8. \A p : CanEnable(p)' <=> CanEnable(p)
  BY <1>3, <1>4 DEF CanEnable, Enabled, OnChip
<1>9. swaps = 0 => Switching(req[r])'
  BY <1>1, <1>3, <1>5, <1>6, <1>8 DEF Goes, Switching
<1> QED
  BY <1>1, <1>2, <1>7, <1>9, ListKeeps

LEMMA OperateKeeps ==
    ASSUME IInv2, NEW r \in Reqs, Operate(r) PROVE IInv2Next
<1>0. PICK p, prev : p = req[r].profile /\ prev = req[r].previous
  OBVIOUS
<1> DEFINE on    == req[r].op = "enable"
           able  == IF on THEN CanEnable(p) ELSE CanDisable(p)
           after == WithState(p, IF on THEN "enabled" ELSE "disabled")
<1>1. /\ req[r].pc = "operate" /\ OnlyChip /\ UNCHANGED row
      /\ \/ /\ CommandOk(r, able, after)
            /\ req' = [req EXCEPT ![r].pc = "list3", ![r].tried = TRUE]
         \/ /\ CommandFails(r, able, after)
            /\ req' = [req EXCEPT ![r].pc = "listAfterRefusal", ![r].tried = TRUE]
  BY <1>0 DEF Operate, At
<1>2. "operate" \in LpacSteps
  BY DEF LpacSteps
<1>3. /\ SystemTypes /\ req[r].pc \in Holding /\ req[r] \in Request /\ Staged(req[r])
      /\ UNCHANGED <<inserted, cancelled, swaps>>
      /\ swaps = 0 => Homed /\ Switching(req[r])
      /\ NoFaults => Agree \/ Trails(req[r])
      /\ OneEnabled /\ lpacFaults \in Nat
  BY <1>1, <1>2, ChipStepFacts
<1>4. /\ req[r].op \in ToggleOps /\ p \in Profiles
      /\ prev # None => on
  BY <1>0, <1>1, <1>3 DEF Staged, ProfileOps
<1>5. able \in BOOLEAN
  <2>1. CanDisable(p) \in BOOLEAN /\ CanEnable(p) \in BOOLEAN
    BY DEF CanDisable, CanEnable
  <2> QED
    BY <2>1
<1>6. /\ chip' = chip \/ (able /\ chip' = after)
      /\ Breaks(r) \/ UNCHANGED lpacFaults
      /\ CommandOk(r, able, after) => able /\ chip' = after
      /\ CommandFails(r, able, after) /\ NoFaults' => chip' = chip
      /\ CommandFails(r, able, after) /\ able => r \in cancelled \/ lpacFaults' = lpacFaults + 1
  <2> HIDE DEF after, able
  <2> QED
    BY <1>1, <1>3, <1>5, CommandDoes
<1>7. able /\ chip' = after =>
        /\ OneEnabled'
        /\ on => Enabled' = {p}
        /\ ~on => chip'[p] = "disabled"
  BY <1>3, <1>4, ChipEnabled, ChipDisabled
<1>8. OneEnabled'
  <2>1. chip' = chip => OneEnabled'
    BY <1>3 DEF OneEnabled
  <2> QED
    BY <1>6, <1>7, <2>1
<1>9. ASSUME NEW pc, req' = [req EXCEPT ![r].pc = pc, ![r].tried = TRUE]
      PROVE  Goes(r, pc, prev, TRUE, req[r].ok)
  <2>1. /\ req'[r] = [req[r] EXCEPT !.pc = pc, !.tried = TRUE]
        /\ \A q \in Reqs \ {r} : req'[q] = req[q]
    BY <1>3, <1>9 DEF SystemTypes
  <2> QED
    BY <1>0, <1>3, <2>1 DEF Goes, Request
<1>10. /\ \A q \in Reqs \ {r} : req'[q] = req[q]
       /\ req'[r].pc \in {"list3", "listAfterRefusal"} /\ Staged(req[r])'
  <2>1. Goes(r, "list3", prev, TRUE, req[r].ok) \/ Goes(r, "listAfterRefusal", prev, TRUE, req[r].ok)
    BY <1>1, <1>9
  <2> QED
    BY <1>0, <1>4, <2>1 DEF Goes, Staged, ToggleOps, ProfileOps
<1>11. swaps = 0 => Switching(req[r])' /\ Accomplished(req[r])'
  <2> SUFFICES ASSUME swaps = 0 PROVE Switching(req[r])' /\ Accomplished(req[r])'
    OBVIOUS
  <2>1. CASE /\ CommandOk(r, able, after)
             /\ req' = [req EXCEPT ![r].pc = "list3", ![r].tried = TRUE]
    <3>1. Goes(r, "list3", prev, TRUE, req[r].ok)
      BY <1>9, <2>1
    <3>2. /\ on => Enabled' = {p}
          /\ ~on => chip'[p] = "disabled"
      BY <1>6, <1>7, <2>1
    <3> QED
      BY <1>0, <1>4, <3>1, <3>2 DEF Goes, Switching, Accomplished, ToggleOps
  <2>2. CASE /\ CommandFails(r, able, after)
             /\ req' = [req EXCEPT ![r].pc = "listAfterRefusal", ![r].tried = TRUE]
    <3>1. Goes(r, "listAfterRefusal", prev, TRUE, req[r].ok)
      BY <1>9, <2>2
    <3>2. ASSUME prev # None, cancelled' = {}
          PROVE  lpacFaults' >= 1 /\ (Enabled' # {} \/ CanEnable(prev)')
      <4>1. CanEnable(p) /\ CanEnable(prev) /\ on
        BY <1>0, <1>1, <1>3, <1>4, <3>2 DEF Switching
      <4>2. lpacFaults' = lpacFaults + 1
        BY <1>3, <1>6, <2>2, <3>2, <4>1
      <4>3. CASE chip' = chip
        BY <1>3, <4>1, <4>2, <4>3 DEF CanEnable, Enabled, OnChip
      <4>4. CASE able /\ chip' = after
        BY <1>3, <1>7, <4>1, <4>2, <4>4
      <4> QED
        BY <1>6, <4>3, <4>4
    <3> QED
      BY <3>1, <3>2 DEF Goes, Switching, Accomplished, CanEnable
  <2> QED
    BY <1>1, <2>1, <2>2
<1>12. swaps = 0 => Homed'
  BY <1>1, <1>3 DEF Homed
<1>13. ASSUME NoFaults' PROVE Agree' \/ Trails(req[r])'
  <2>1. NoFaults
    BY <1>3, <1>6, <1>13, FaultsGrow DEF NoFaults
  <2>2. Agree /\ Known
    BY <1>1, <1>3, <2>1, AgreeKnown DEF Trails
  <2>3. CASE CommandFails(r, able, after)
    BY <1>1, <1>6, <1>13, <2>2, <2>3 DEF Agree, AgreeBut
  <2>4. CASE req' = [req EXCEPT ![r].pc = "list3", ![r].tried = TRUE]
    <3>1. req'[r].pc = "list3"
      BY <1>9, <2>4 DEF Goes
    <3>2. \A q \in Profiles : chip[q] # "absent" => chip'[q] # "absent"
      BY <1>3, <1>4, <1>6 DEF WithState, SystemTypes
    <3> QED
      BY <1>1, <2>2, <3>1, <3>2 DEF Known, Trails
  <2> QED
    BY <1>1, <2>3, <2>4
<1> QED
  BY <1>3, <1>8, <1>10, <1>11, <1>12, <1>13, HolderKeeps DEF IInv2Next, At

LEMMA ListAfterRefusalKeeps ==
    ASSUME IInv2, NEW r \in Reqs, ListAfterRefusal(r) PROVE IInv2Next
<1>1. /\ req[r].pc = "listAfterRefusal" /\ OnlyChip
      /\ ListOk(r, req[r].card) \/ ListFails(r)
      /\ IF req[r].previous # None THEN Goto(r, "rollback") ELSE Fail(r)
  BY DEF ListAfterRefusal, At
<1>2. "listAfterRefusal" \in LpacSteps \ {"forget"}
  BY DEF LpacSteps
<1>3. /\ SystemTypes /\ req[r] \in Request /\ Staged(req[r]) /\ UNCHANGED <<inserted, cancelled>>
      /\ swaps = 0 => Switching(req[r])
      /\ lpacFaults \in Nat
  BY <1>1, <1>2, ChipStepFacts
<1>4. UNCHANGED chip /\ lpacFaults' \in Nat /\ lpacFaults' >= lpacFaults
  BY <1>1, <1>2, SwitchLists
<1>5. Enabled' = Enabled /\ \A q : CanEnable(q)' <=> CanEnable(q)
  BY <1>3, <1>4 DEF Enabled, OnChip, CanEnable
<1>6. CASE req[r].previous # None
  <2>1. Goes(r, "rollback", req[r].previous, req[r].tried, req[r].ok)
    BY <1>1, <1>3, <1>6, StepGoes
  <2>2. /\ \A q \in Reqs \ {r} : req'[q] = req[q]
        /\ req'[r].pc # "erase" /\ Staged(req[r])' /\ Accomplished(req[r])'
    BY <1>1, <1>3, <1>6, <2>1 DEF Goes, Staged, Accomplished, ToggleOps, ProfileOps
  <2>3. swaps = 0 => Switching(req[r])'
    BY <1>1, <1>3, <1>4, <1>5, <1>6, <2>1 DEF Goes, Switching
  <2> QED
    BY <1>1, <1>2, <2>2, <2>3, ListKeeps
<1>7. CASE req[r].previous = None
  <2>1. Goes(r, "deferred", None, req[r].tried, FALSE)
    BY <1>1, <1>3, <1>7, StepGoes
  <2>2. /\ \A q \in Reqs \ {r} : req'[q] = req[q]
        /\ req'[r].pc # "erase" /\ Staged(req[r])' /\ Accomplished(req[r])' /\ Switching(req[r])'
    BY <1>1, <1>3, <2>1 DEF Goes, Staged, Accomplished, Switching, ToggleOps, ProfileOps
  <2> QED
    BY <1>1, <1>2, <2>2, ListKeeps
<1> QED
  BY <1>6, <1>7

LEMMA RollbackKeeps ==
    ASSUME IInv2, NEW r \in Reqs, Rollback(r) PROVE IInv2Next
<1>0. PICK p : p = req[r].previous
  OBVIOUS
<1> DEFINE after == WithState(p, "enabled")
<1>1. /\ req[r].pc = "rollback" /\ OnlyChip /\ UNCHANGED row /\ Goto(r, "lastList")
      /\ CommandOk(r, CanEnable(p), after) \/ CommandFails(r, CanEnable(p), after)
  BY <1>0 DEF Rollback, At
<1>2. "rollback" \in LpacSteps
  BY DEF LpacSteps
<1>3. /\ SystemTypes /\ req[r].pc \in Holding /\ req[r] \in Request /\ Staged(req[r])
      /\ UNCHANGED <<inserted, cancelled, swaps>>
      /\ swaps = 0 => Homed /\ Switching(req[r])
      /\ NoFaults => Agree \/ Trails(req[r])
      /\ OneEnabled /\ lpacFaults \in Nat
  BY <1>1, <1>2, ChipStepFacts
<1>4. req[r].op = "enable" /\ p \in Profiles /\ p # None
  BY <1>0, <1>1, <1>3 DEF Staged, Request
<1>5. CanEnable(p) \in BOOLEAN
  BY DEF CanEnable
<1>6. /\ chip' = chip \/ (CanEnable(p) /\ chip' = after)
      /\ Breaks(r) \/ UNCHANGED lpacFaults
      /\ CommandOk(r, CanEnable(p), after) => CanEnable(p) /\ chip' = after
      /\ CommandFails(r, CanEnable(p), after) /\ CanEnable(p) =>
            r \in cancelled \/ lpacFaults' = lpacFaults + 1
  <2> HIDE DEF after
  <2> QED
    BY <1>1, <1>3, <1>5, CommandDoes
<1>7. CanEnable(p) /\ chip' = after => OneEnabled' /\ Enabled' = {p}
  BY <1>3, <1>4, ChipEnabled
<1>8. OneEnabled'
  <2>1. chip' = chip => OneEnabled'
    BY <1>3 DEF OneEnabled
  <2> QED
    BY <1>6, <1>7, <2>1
<1>9. Goes(r, "lastList", p, req[r].tried, req[r].ok)
  BY <1>0, <1>1, <1>3, StepGoes
<1>10. /\ \A q \in Reqs \ {r} : req'[q] = req[q]
       /\ req'[r].pc = "lastList" /\ Staged(req[r])' /\ Accomplished(req[r])'
  BY <1>0, <1>1, <1>3, <1>4, <1>9 DEF Goes, Staged, Accomplished, ToggleOps, ProfileOps
<1>11. ASSUME swaps = 0, req[r].tried, cancelled = {}
       PROVE  Enabled' # {} \/ lpacFaults' >= 2
  <2>1. lpacFaults >= 1 /\ (Enabled # {} \/ CanEnable(p))
    BY <1>0, <1>1, <1>3, <1>4, <1>11 DEF Switching
  <2>2. CASE CanEnable(p) /\ CommandOk(r, CanEnable(p), after)
    BY <1>6, <1>7, <2>2
  <2>3. CASE CanEnable(p) /\ CommandFails(r, CanEnable(p), after)
    <3>1. lpacFaults' = lpacFaults + 1
      BY <1>6, <1>11, <2>3
    <3> QED
      BY <1>3, <2>1, <3>1
  <2>4. CASE ~CanEnable(p)
    BY <1>3, <1>6, <2>1, <2>4 DEF Enabled, OnChip
  <2> QED
    BY <1>1, <2>2, <2>3, <2>4
<1>12. swaps = 0 => Switching(req[r])'
  BY <1>3, <1>9, <1>11 DEF Goes, Switching
<1>13. swaps = 0 => Homed'
  BY <1>1, <1>3 DEF Homed
<1>14. ASSUME NoFaults' PROVE Trails(req[r])'
  <2>1. NoFaults
    BY <1>3, <1>6, <1>14, FaultsGrow DEF NoFaults
  <2>2. Known
    BY <1>1, <1>3, <2>1, AgreeKnown DEF Trails
  <2>3. \A q \in Profiles : chip[q] # "absent" => chip'[q] # "absent"
    BY <1>3, <1>4, <1>6 DEF WithState, SystemTypes
  <2> QED
    BY <1>1, <1>10, <2>2, <2>3 DEF Known, Trails
<1> QED
  BY <1>3, <1>8, <1>10, <1>12, <1>13, <1>14, HolderKeeps DEF IInv2Next, At

LEMMA LastListKeeps ==
    ASSUME IInv2, NEW r \in Reqs, LastList(r) PROVE IInv2Next
<1>1. /\ req[r].pc = "lastList" /\ OnlyChip /\ Fail(r)
      /\ ListOk(r, req[r].card) \/ ListFails(r)
  BY DEF LastList, At
<1>2. "lastList" \in LpacSteps \ {"forget"}
  BY DEF LpacSteps
<1>3. /\ SystemTypes /\ req[r] \in Request /\ Staged(req[r]) /\ UNCHANGED <<inserted, cancelled>>
      /\ swaps = 0 => Switching(req[r])
      /\ lpacFaults \in Nat
  BY <1>1, <1>2, ChipStepFacts
<1>4. UNCHANGED chip /\ lpacFaults' \in Nat /\ lpacFaults' >= lpacFaults
  BY <1>1, <1>2, SwitchLists
<1>5. Enabled' = Enabled
  BY <1>3, <1>4 DEF Enabled, OnChip
<1>6. Goes(r, "deferred", req[r].previous, req[r].tried, FALSE)
  BY <1>1, <1>3, StepGoes
<1>7. /\ \A q \in Reqs \ {r} : req'[q] = req[q]
      /\ req'[r].pc # "erase" /\ Staged(req[r])' /\ Accomplished(req[r])'
  BY <1>1, <1>3, <1>6 DEF Goes, Staged, Accomplished, ToggleOps, ProfileOps
<1>8. swaps = 0 => Switching(req[r])'
  BY <1>1, <1>3, <1>4, <1>5, <1>6 DEF Goes, Switching
<1> QED
  BY <1>1, <1>2, <1>7, <1>8, ListKeeps

LEMMA List3Keeps ==
    ASSUME IInv2, NEW r \in Reqs, List3(r) PROVE IInv2Next
<1>1. /\ req[r].pc = "list3" /\ OnlyChip /\ Goto(r, "closing")
      /\ ListOk(r, req[r].card) \/ ListFails(r)
  BY DEF List3, At
<1>2. "list3" \in LpacSteps \ {"forget"}
  BY DEF LpacSteps
<1>3. /\ SystemTypes /\ req[r] \in Request /\ Staged(req[r]) /\ UNCHANGED inserted
      /\ swaps = 0 => Accomplished(req[r])
  BY <1>1, <1>2, ChipStepFacts
<1>4. UNCHANGED chip
  BY <1>1, <1>2, SwitchLists
<1>5. Enabled' = Enabled
  BY <1>3, <1>4 DEF Enabled, OnChip
<1>6. Goes(r, "closing", req[r].previous, req[r].tried, req[r].ok)
  BY <1>1, <1>3, StepGoes
<1>7. /\ \A q \in Reqs \ {r} : req'[q] = req[q]
      /\ req'[r].pc # "erase" /\ Staged(req[r])' /\ Switching(req[r])'
  BY <1>1, <1>3, <1>6 DEF Goes, Staged, Switching, ToggleOps, ProfileOps
<1>8. swaps = 0 => Accomplished(req[r])'
  <2>1. req[r].op \in ToggleOps
    BY <1>1, <1>3 DEF Staged
  <2> QED
    BY <1>1, <1>3, <1>4, <1>5, <1>6, <2>1 DEF Goes, Accomplished, ToggleOps
<1> QED
  BY <1>1, <1>2, <1>7, <1>8, ListKeeps

-----------------------------------------------------------------------------
(* The steps of the other operations.                                      *)

LEMMA RenameKeeps ==
    ASSUME IInv2, NEW r \in Reqs, Rename(r) PROVE IInv2Next
<1> DEFINE able == req[r].profile \in OnChip
<1>1. /\ req[r].pc = "rename" /\ OnlyChip /\ UNCHANGED row
      /\ \/ CommandOk(r, able, chip) /\ Answer(r, "deferred", TRUE)
         \/ CommandFails(r, able, chip) /\ Fail(r)
  BY DEF Rename, At
<1>2. "rename" \in LpacSteps
  BY DEF LpacSteps
<1>3. /\ SystemTypes /\ req[r].pc \in Holding /\ req[r] \in Request /\ Staged(req[r])
      /\ UNCHANGED <<inserted, cancelled, swaps>>
      /\ swaps = 0 => Homed
      /\ NoFaults => Agree \/ Trails(req[r])
      /\ OneEnabled
  BY <1>1, <1>2, ChipStepFacts
<1>4. UNCHANGED chip /\ (Breaks(r) \/ UNCHANGED lpacFaults)
  BY <1>1 DEF CommandOk, CommandFails
<1>5. Goes(r, "deferred", req[r].previous, req[r].tried, TRUE)
      \/ Goes(r, "deferred", req[r].previous, req[r].tried, FALSE)
  BY <1>1, <1>3, StepGoes
<1>6. /\ \A q \in Reqs \ {r} : req'[q] = req[q]
      /\ req'[r].pc = "deferred" /\ Staged(req[r])' /\ Switching(req[r])' /\ Accomplished(req[r])'
  BY <1>1, <1>3, <1>5 DEF Goes, Staged, Switching, Accomplished, ToggleOps, ProfileOps
<1>7. OneEnabled' /\ (swaps = 0 => Homed')
  BY <1>1, <1>3, <1>4 DEF OneEnabled, Homed
<1>8. NoFaults' => Agree'
  <2>1. NoFaults' => NoFaults
    BY <1>3, <1>4, FaultsGrow DEF NoFaults
  <2> QED
    BY <1>1, <1>3, <1>4, <2>1 DEF Trails, Agree, AgreeBut
<1> QED
  BY <1>3, <1>6, <1>7, <1>8, HolderKeeps DEF IInv2Next, At

(* The row read under the lock says what the chip says.                    *)
LEMMA RecheckKeeps ==
    ASSUME IInv2, NEW r \in Reqs, Recheck(r) PROVE IInv2Next
<1> DEFINE p == req[r].profile
<1>1. /\ req[r].pc = "recheck"
      /\ UNCHANGED <<inserted, chip, cancelled, row, lpacFaults, swaps>>
      /\ \/ Fail(r)
         \/ row[p] # None /\ row[p].state # "enabled" /\ Goto(r, "erase")
  BY DEF Recheck, At, OnlyReq, hwVars, dbVars
<1>2. req[r].pc \in Holding
  BY <1>1, StepNames DEF LpacSteps
<1>3. /\ SystemTypes /\ req[r] \in Request /\ Staged(req[r])
      /\ swaps = 0 => Homed
      /\ NoFaults => Agree \/ Trails(req[r])
      /\ OneEnabled
  BY <1>2, HolderKnows
<1>4. NoFaults => Agree
  BY <1>1, <1>3 DEF Trails
<1>5. req[r].op = "delete" /\ p \in Profiles
  BY <1>1, <1>3 DEF Staged, ProfileOps
<1>6. \/ Goes(r, "deferred", req[r].previous, req[r].tried, FALSE)
      \/ /\ Goes(r, "erase", req[r].previous, req[r].tried, req[r].ok)
         /\ row[p] # None /\ row[p].state # "enabled"
  BY <1>1, <1>3, StepGoes
<1>7. /\ \A q \in Reqs \ {r} : req'[q] = req[q]
      /\ req'[r].pc \in {"deferred", "erase"} /\ req'[r].profile = p
      /\ Staged(req[r])' /\ Switching(req[r])' /\ Accomplished(req[r])'
  BY <1>1, <1>3, <1>5, <1>6 DEF Goes, Staged, Switching, Accomplished, ToggleOps, ProfileOps
<1>8. OneEnabled' /\ (swaps = 0 => Homed')
  BY <1>1, <1>3 DEF OneEnabled, Homed
<1>9. NoFaults' => Agree'
  BY <1>1, <1>4 DEF NoFaults, Agree, AgreeBut
<1>10. ASSUME NoFaults', req'[r].pc = "erase" PROVE chip'[req'[r].profile] = "disabled"
  <2>1. row[p] # None /\ row[p].state # "enabled" /\ Agree
    BY <1>1, <1>4, <1>6, <1>10 DEF Goes, NoFaults
  <2>2. row[p].state = "disabled"
    BY <1>3, <1>5, <2>1 DEF SystemTypes, Row
  <2>3. p # None
    BY <1>5, ESimAssumption
  <2>4. chip[p] = "disabled"
    BY <1>5, <2>1, <2>2, <2>3 DEF Agree, AgreeBut
  <2> QED
    BY <1>1, <1>7, <2>4
<1> QED
  BY <1>1, <1>2, <1>7, <1>8, <1>9, <1>10, HolderKeeps DEF IInv2Next, At

LEMMA EraseKeeps ==
    ASSUME IInv2, NEW r \in Reqs, Erase(r) PROVE IInv2Next
<1>0. PICK p : p = req[r].profile
  OBVIOUS
<1> DEFINE after == WithState(p, "absent")
<1>1. /\ req[r].pc = "erase" /\ OnlyChip /\ UNCHANGED row
      /\ \/ CommandOk(r, CanDelete(p), after) /\ Goto(r, "forget")
         \/ CommandFails(r, CanDelete(p), after) /\ Fail(r)
  BY <1>0 DEF Erase, At
<1>2. "erase" \in LpacSteps
  BY DEF LpacSteps
<1>3. /\ SystemTypes /\ req[r].pc \in Holding /\ req[r] \in Request /\ Staged(req[r])
      /\ UNCHANGED <<inserted, cancelled, swaps>>
      /\ swaps = 0 => Homed
      /\ NoFaults => Agree \/ Trails(req[r])
      /\ OneEnabled
  BY <1>1, <1>2, ChipStepFacts
<1>4. req[r].op = "delete" /\ p \in Profiles
  BY <1>0, <1>1, <1>3 DEF Staged, ProfileOps
<1>5. CanDelete(p) \in BOOLEAN
  BY DEF CanDelete
<1>6. /\ chip' = chip \/ (CanDelete(p) /\ chip' = after)
      /\ Breaks(r) \/ UNCHANGED lpacFaults
      /\ CommandOk(r, CanDelete(p), after) => CanDelete(p) /\ chip' = after
      /\ CommandFails(r, CanDelete(p), after) /\ NoFaults' => chip' = chip
  <2> HIDE DEF after
  <2> QED
    BY <1>1, <1>3, <1>5, CommandDoes
<1>7. chip' = after => /\ OneEnabled' /\ chip'[p] = "absent"
                       /\ \A q \in Profiles \ {p} : chip'[q] = chip[q]
  BY <1>3, <1>4, ChipOther
<1>8. OneEnabled'
  <2>1. chip' = chip => OneEnabled'
    BY <1>3 DEF OneEnabled
  <2> QED
    BY <1>6, <1>7, <2>1
<1>9. swaps = 0 => Homed'
  BY <1>1, <1>3 DEF Homed
<1>10. NoFaults' => Agree
  <2>1. NoFaults' => NoFaults
    BY <1>3, <1>6, FaultsGrow DEF NoFaults
  <2> QED
    BY <1>1, <1>3, <2>1 DEF Trails
<1>11. CASE CommandOk(r, CanDelete(p), after) /\ Goto(r, "forget")
  <2>1. Goes(r, "forget", req[r].previous, req[r].tried, req[r].ok)
    BY <1>3, <1>11, StepGoes
  <2>2. chip'[p] = "absent" /\ \A q \in Profiles \ {p} : chip'[q] = chip[q]
    BY <1>6, <1>7, <1>11
  <2>3. /\ \A q \in Reqs \ {r} : req'[q] = req[q]
        /\ req'[r].pc = "forget" /\ req'[r].profile = p
        /\ Staged(req[r])' /\ Switching(req[r])' /\ Accomplished(req[r])'
    BY <1>0, <1>3, <1>4, <2>1, <2>2 DEF Goes, Staged, Switching, Accomplished, ToggleOps, ProfileOps
  <2>4. Agree => AgreeBut(p)'
    BY <1>1, <2>2, ESimAssumption DEF Agree, AgreeBut
  <2>5. NoFaults' => Trails(req[r])'
    BY <1>10, <2>3, <2>4 DEF Trails, AgreeBut
  <2> QED
    BY <1>3, <1>8, <1>9, <2>3, <2>5, HolderKeeps DEF IInv2Next, At
<1>12. CASE CommandFails(r, CanDelete(p), after) /\ Fail(r)
  <2>1. Goes(r, "deferred", req[r].previous, req[r].tried, FALSE)
    BY <1>3, <1>12, StepGoes
  <2>2. /\ \A q \in Reqs \ {r} : req'[q] = req[q]
        /\ req'[r].pc = "deferred"
        /\ Staged(req[r])' /\ Switching(req[r])' /\ Accomplished(req[r])'
    BY <1>0, <1>3, <1>4, <2>1 DEF Goes, Staged, Switching, Accomplished, ToggleOps, ProfileOps
  <2>3. NoFaults' => Agree'
    BY <1>1, <1>6, <1>10, <1>12 DEF Agree, AgreeBut
  <2> QED
    BY <1>3, <1>8, <1>9, <2>2, <2>3, HolderKeeps DEF IInv2Next, At
<1> QED
  BY <1>1, <1>11, <1>12

LEMMA ForgetKeeps ==
    ASSUME IInv2, NEW r \in Reqs, Forget(r) PROVE IInv2Next
<1>0. PICK p, card : p = req[r].profile /\ card = req[r].card
  OBVIOUS
<1> DEFINE rest == [row EXCEPT ![p] = None]
<1>1. /\ req[r].pc = "forget" /\ OnlyChip /\ UNCHANGED chip
      /\ \/ Fail(r) /\ Breaks(r) /\ row' \in {row, rest}
         \/ /\ Goto(r, "closing")
            /\ \/ row' = Upserted(card, rest, {}) /\ UNCHANGED lpacFaults
               \/ \E failed : row' = Upserted(card, rest, failed) /\ Breaks(r)
  BY <1>0 DEF Forget, Writes, At
<1>2. "forget" \in LpacSteps
  BY DEF LpacSteps
<1>3. /\ SystemTypes /\ req[r].pc \in Holding /\ req[r] \in Request /\ Staged(req[r])
      /\ UNCHANGED <<inserted, cancelled, swaps>>
      /\ swaps = 0 => Homed /\ Accomplished(req[r])
      /\ NoFaults => Agree \/ Trails(req[r])
      /\ OneEnabled
  BY <1>1, <1>2, ChipStepFacts
<1>4. req[r].op = "delete" /\ p \in Profiles
  BY <1>0, <1>1, <1>3 DEF Staged, ProfileOps
<1>5. \/ Goes(r, "deferred", req[r].previous, req[r].tried, FALSE)
      \/ Goes(r, "closing", req[r].previous, req[r].tried, req[r].ok)
  BY <1>1, <1>3, StepGoes
<1>6. /\ \A q \in Reqs \ {r} : req'[q] = req[q]
      /\ req'[r].pc \in {"deferred", "closing"} /\ Staged(req[r])' /\ Switching(req[r])'
      /\ swaps = 0 => Accomplished(req[r])'
  <2>1. swaps = 0 => chip[p] = "absent"
    BY <1>0, <1>1, <1>3, <1>4 DEF Accomplished
  <2> QED
    BY <1>0, <1>1, <1>3, <1>4, <1>5, <2>1
    DEF Goes, Staged, Switching, Accomplished, ToggleOps, ProfileOps
<1>7. /\ row' = row \/ row' = rest \/ \E failed : row' = Upserted(card, rest, failed)
      /\ Breaks(r) \/ UNCHANGED lpacFaults
      /\ NoFaults' => row' = Upserted(card, rest, {}) /\ UNCHANGED lpacFaults
  BY <1>1, <1>3, FaultsGrow DEF NoFaults
<1>8. /\ rest[p] = None /\ \A q \in Profiles \ {p} : rest[q] = row[q]
  BY <1>3, <1>4 DEF SystemTypes
<1> HIDE DEF rest
<1>9. \A q \in OnChip : Home[q] = inserted
  BY DEF OnChip
<1>10. swaps = 0 => Homed'
  <2> SUFFICES ASSUME swaps = 0, NEW q \in Profiles, row'[q] # None PROVE Home[q] = inserted
    BY <1>3 DEF Homed
  <2>1. Homed
    BY <1>3
  <2>2. q \in OnChip \/ row[q] # None
    BY <1>7, <1>8 DEF Upserted
  <2> QED
    BY <1>9, <2>1, <2>2 DEF Homed
<1>11. ASSUME NoFaults', NEW q \in Profiles, row'[q] # None PROVE row'[q].state = chip'[q]
  <2>1. NoFaults /\ Homed
    BY <1>3, <1>7, <1>11 DEF NoFaults
  <2>2. row'[q] = IF q \in OnChip THEN [card |-> card, state |-> chip[q]] ELSE rest[q]
    BY <1>7, <1>11 DEF Upserted
  <2>3. CASE q \in OnChip
    <3>1. row'[q] = [card |-> card, state |-> chip[q]]
      BY <2>2, <2>3
    <3> QED
      BY <1>1, <3>1
  <2>4. CASE q \notin OnChip
    <3>1. q # p /\ row[q] # None /\ row'[q] = row[q]
      BY <1>8, <1>11, <2>2, <2>4
    <3>2. row[q].state = chip[q]
      BY <1>0, <1>1, <1>3, <2>1, <3>1, ESimAssumption DEF Agree, AgreeBut, Trails
    <3>3. chip[q] = "absent"
      BY <2>1, <2>4, <3>1 DEF Homed, OnChip
    <3>4. row[q].state # "absent"
      BY <1>3, <3>1 DEF SystemTypes, Row
    <3> QED
      BY <3>2, <3>3, <3>4
  <2> QED
    BY <2>3, <2>4
<1>12. NoFaults' => Agree'
  BY <1>11 DEF Agree, AgreeBut
<1>13. OneEnabled'
  BY <1>1, <1>3 DEF OneEnabled
<1> QED
  BY <1>3, <1>6, <1>10, <1>12, <1>13, HolderKeeps DEF IInv2Next, At

LEMMA DownloadKeeps ==
    ASSUME IInv2, NEW r \in Reqs, Download(r) PROVE IInv2Next
<1>0. PICK p : p = req[r].profile
  OBVIOUS
<1> DEFINE after == WithState(p, "disabled")
<1>1. /\ req[r].pc = "download" /\ OnlyChip /\ UNCHANGED row
      /\ \/ CommandOk(r, CanDownload(p), after) /\ Goto(r, "info")
         \/ CommandFails(r, CanDownload(p), after) /\ Fail(r)
  BY <1>0 DEF Download, At
<1>2. "download" \in LpacSteps
  BY DEF LpacSteps
<1>3. /\ SystemTypes /\ req[r].pc \in Holding /\ req[r] \in Request /\ Staged(req[r])
      /\ UNCHANGED <<inserted, cancelled, swaps>>
      /\ swaps = 0 => Homed
      /\ NoFaults => Agree \/ Trails(req[r])
      /\ OneEnabled
  BY <1>1, <1>2, ChipStepFacts
<1>4. req[r].op = "add" /\ p \in Profiles
  BY <1>0, <1>1, <1>3 DEF Staged
<1>5. CanDownload(p) \in BOOLEAN
  BY DEF CanDownload
<1>6. /\ chip' = chip \/ (CanDownload(p) /\ chip' = after)
      /\ Breaks(r) \/ UNCHANGED lpacFaults
      /\ CommandOk(r, CanDownload(p), after) => CanDownload(p) /\ chip' = after
      /\ CommandFails(r, CanDownload(p), after) /\ NoFaults' => chip' = chip
  <2> HIDE DEF after
  <2> QED
    BY <1>1, <1>3, <1>5, CommandDoes
<1>7. chip' = after => /\ OneEnabled' /\ chip'[p] = "disabled"
                       /\ \A q \in Profiles \ {p} : chip'[q] = chip[q]
  BY <1>3, <1>4, ChipOther
<1>8. OneEnabled'
  <2>1. chip' = chip => OneEnabled'
    BY <1>3 DEF OneEnabled
  <2> QED
    BY <1>6, <1>7, <2>1
<1>9. swaps = 0 => Homed'
  BY <1>1, <1>3 DEF Homed
<1>10. NoFaults' => Agree /\ Known
  <2>1. NoFaults' => NoFaults
    BY <1>3, <1>6, FaultsGrow DEF NoFaults
  <2> QED
    BY <1>1, <1>3, <2>1, AgreeKnown DEF Trails
<1>11. NoFaults' => Agree'
  <2>1. CASE chip' = chip
    BY <1>1, <1>10, <2>1 DEF Agree, AgreeBut
  <2>2. CASE CanDownload(p) /\ chip' = after
    <3>1. chip[p] = "absent"
      BY <2>2 DEF CanDownload
    <3> QED
      BY <1>1, <1>4, <1>7, <1>10, <2>2, <3>1 DEF Agree, AgreeBut, Known
  <2> QED
    BY <1>6, <2>1, <2>2
<1>12. /\ \A q \in Reqs \ {r} : req'[q] = req[q]
       /\ req'[r].pc \in {"info", "deferred"} /\ Staged(req[r])' /\ Switching(req[r])'
       /\ Accomplished(req[r])'
  <2>1. CASE CommandOk(r, CanDownload(p), after) /\ Goto(r, "info")
    <3>1. Goes(r, "info", req[r].previous, req[r].tried, req[r].ok) /\ chip'[p] = "disabled"
      BY <1>3, <1>6, <1>7, <2>1, StepGoes
    <3> QED
      BY <1>0, <1>3, <1>4, <3>1 DEF Goes, Staged, Switching, Accomplished, ToggleOps, ProfileOps
  <2>2. CASE CommandFails(r, CanDownload(p), after) /\ Fail(r)
    <3>1. Goes(r, "deferred", req[r].previous, req[r].tried, FALSE)
      BY <1>3, <2>2, StepGoes
    <3> QED
      BY <1>0, <1>3, <1>4, <3>1 DEF Goes, Staged, Switching, Accomplished, ToggleOps, ProfileOps
  <2> QED
    BY <1>1, <2>1, <2>2
<1> QED
  BY <1>3, <1>8, <1>9, <1>11, <1>12, HolderKeeps DEF IInv2Next, At

LEMMA InfoKeeps ==
    ASSUME IInv2, NEW r \in Reqs, Info(r) PROVE IInv2Next
<1>1. /\ req[r].pc = "info" /\ OnlyChip /\ UNCHANGED <<chip, row>>
      /\ Breaks(r) \/ UNCHANGED lpacFaults
      /\ \/ req' = [req EXCEPT ![r].pc = "list",
                      ![r].card = IF req[r].op = "discover" THEN inserted ELSE @]
         \/ Fail(r) \/ Goto(r, "list")
  BY DEF Info, At
<1>2. "info" \in LpacSteps
  BY DEF LpacSteps
<1>3. /\ SystemTypes /\ req[r].pc \in Holding /\ req[r] \in Request /\ Staged(req[r])
      /\ UNCHANGED <<inserted, cancelled, swaps>>
      /\ swaps = 0 => Homed /\ Accomplished(req[r])
      /\ NoFaults => Agree \/ Trails(req[r])
      /\ OneEnabled
  BY <1>1, <1>2, ChipStepFacts
<1>4. ASSUME NEW card, req' = [req EXCEPT ![r].pc = "list", ![r].card = card]
      PROVE  Goes(r, "list", req[r].previous, req[r].tried, req[r].ok)
  <2>1. /\ req'[r] = [req[r] EXCEPT !.pc = "list", !.card = card]
        /\ \A q \in Reqs \ {r} : req'[q] = req[q]
    BY <1>3, <1>4 DEF SystemTypes
  <2> QED
    BY <1>3, <2>1 DEF Goes, Request
<1>5. \/ Goes(r, "list", req[r].previous, req[r].tried, req[r].ok)
      \/ Goes(r, "deferred", req[r].previous, req[r].tried, FALSE)
  BY <1>1, <1>3, <1>4, StepGoes
<1>6. /\ \A q \in Reqs \ {r} : req'[q] = req[q]
      /\ req'[r].pc \in {"list", "deferred"} /\ Staged(req[r])' /\ Switching(req[r])'
      /\ swaps = 0 => Accomplished(req[r])'
  <2>1. /\ \A q \in Reqs \ {r} : req'[q] = req[q]
        /\ req'[r].pc \in {"list", "deferred"} /\ Staged(req[r])' /\ Switching(req[r])'
    BY <1>1, <1>3, <1>5 DEF Goes, Staged, Switching, ToggleOps, ProfileOps
  <2>2. swaps = 0 => Accomplished(req[r])'
    BY <1>1, <1>3, <1>5 DEF Goes, Staged, Accomplished
  <2> QED
    BY <2>1, <2>2
<1>7. OneEnabled' /\ (swaps = 0 => Homed')
  BY <1>1, <1>3 DEF OneEnabled, Homed
<1>8. NoFaults' => Agree'
  <2>1. NoFaults' => NoFaults
    BY <1>1, <1>3, FaultsGrow DEF NoFaults
  <2> QED
    BY <1>1, <1>3, <2>1 DEF Trails, Agree, AgreeBut
<1> QED
  BY <1>3, <1>6, <1>7, <1>8, HolderKeeps DEF IInv2Next, At

LEMMA ListProfilesKeeps ==
    ASSUME IInv2, NEW r \in Reqs, List(r) PROVE IInv2Next
<1>1. /\ req[r].pc = "list" /\ OnlyChip /\ (ListOk(r, req[r].card) \/ ListFails(r))
      /\ \/ req[r].op = "discover" /\ Answer(r, "deferred", TRUE)
         \/ req[r].op # "discover" /\ Goto(r, "closing")
         \/ Fail(r)
  BY DEF List, At
<1>2. "list" \in LpacSteps \ {"forget"}
  BY DEF LpacSteps
<1>3. /\ SystemTypes /\ req[r] \in Request /\ Staged(req[r]) /\ UNCHANGED inserted
      /\ swaps = 0 => Accomplished(req[r])
  BY <1>1, <1>2, ChipStepFacts
<1>4. UNCHANGED chip
  BY <1>1, <1>2, SwitchLists
<1>5. \/ req[r].op = "discover" /\ Goes(r, "deferred", req[r].previous, req[r].tried, TRUE)
      \/ req[r].op # "discover" /\ Goes(r, "closing", req[r].previous, req[r].tried, req[r].ok)
      \/ Goes(r, "deferred", req[r].previous, req[r].tried, FALSE)
  BY <1>1, <1>3, StepGoes
<1>6. /\ \A q \in Reqs \ {r} : req'[q] = req[q]
      /\ req'[r].pc # "erase" /\ Staged(req[r])' /\ Switching(req[r])'
  BY <1>1, <1>3, <1>5 DEF Goes, Staged, Switching, ToggleOps, ProfileOps
<1>7. swaps = 0 => Accomplished(req[r])'
  BY <1>1, <1>3, <1>4, <1>5 DEF Goes, Staged, Accomplished
<1> QED
  BY <1>1, <1>2, <1>6, <1>7, ListKeeps

-----------------------------------------------------------------------------
(* Steps that touch neither the chip nor the rows.                         *)

LEMMA QuietKeeps ==
    ASSUME IInv2, NEW r \in Reqs, \A q \in Reqs \ {r} : req'[q] = req[q],
           UNCHANGED <<inserted, chip, row, lpacFaults, cancelled, swaps>>,
           req[r].pc \notin {"list2", "list3", "lastList", "forget"},
           req'[r].pc # "erase", Staged(req[r])',
           swaps = 0 => Switching(req[r])' /\ Accomplished(req[r])'
    PROVE  IInv2Next
<1>1. /\ \A rec : Switching(rec)' <=> Switching(rec)
      /\ \A rec : Accomplished(rec)' <=> Accomplished(rec)
      /\ \A rec : Trails(rec)' <=> Trails(rec)
  BY DEF Switching, Accomplished, Trails, Known, AgreeBut, Enabled, OnChip, CanEnable
<1>2. OneEnabled'
  BY DEF IInv2, OneEnabled
<1>3. Progress'
  <2>1. \A q \in Reqs : Staged(req'[q])
    BY DEF IInv2, Progress
  <2>2. ASSUME swaps' = 0, NEW q \in Reqs PROVE Switching(req[q])' /\ Accomplished(req[q])'
    <3>1. CASE q = r
      BY <2>2, <3>1
    <3>2. CASE q # r
      <4>1. PICK rec : rec = req[q]
        OBVIOUS
      <4>2. req'[q] = rec /\ Switching(rec) /\ Accomplished(rec)
        BY <2>2, <3>2, <4>1 DEF IInv2, Progress
      <4>3. Switching(rec)' /\ Accomplished(rec)'
        BY <1>1, <4>2
      <4> QED
        BY <4>2, <4>3
    <3> QED
      BY <3>1, <3>2
  <2> QED
    BY <2>1, <2>2 DEF Progress
<1>4. swaps' = 0 => Homed'
  BY DEF IInv2, Books, Homed
<1>5. NoFaults' => NoFaults
  BY DEF NoFaults
<1>6. Agree => Agree'
  BY DEF Agree, AgreeBut
<1>7. ASSUME NEW q \in Reqs, Trails(req[q]) PROVE \E x \in Reqs : Trails(req[x])'
  <2>1. PICK rec : rec = req[q]
    OBVIOUS
  <2>2. q # r /\ req'[q] = rec /\ Trails(rec)
    BY <1>7, <2>1 DEF Trails
  <2>3. Trails(rec)'
    BY <1>1, <2>2
  <2> QED
    BY <2>2, <2>3
<1>8. NoFaults' => Agree' \/ \E q \in Reqs : Trails(req[q])'
  BY <1>5, <1>6, <1>7 DEF IInv2, Books
<1>9. NoFaults' => \A q \in Reqs : At(q, "erase")' => chip'[req'[q].profile] = "disabled"
  BY <1>5 DEF IInv2, Books, At
<1>10. Books'
  BY <1>4, <1>8, <1>9 DEF Books
<1> QED
  BY <1>2, <1>3, <1>10 DEF IInv2Next

(* Nothing is on record of a request that has not begun.                   *)
LEMMA BeginKeepsBooks ==
    ASSUME IInv2, NEW r \in Reqs, NEW op \in Ops, NEW p, NEW c, Begin(r, op, p, c),
           op \in ProfileOps \cup {"add"} => p \in Profiles
    PROVE  IInv2Next
<1> DEFINE rec == [NotStarted EXCEPT !.pc = "locking", !.op = op, !.profile = p, !.card = c]
<1>1. /\ req[r] = NotStarted /\ req' = [req EXCEPT ![r] = rec]
      /\ UNCHANGED <<inserted, chip, row, lpacFaults, cancelled, swaps>>
  BY DEF Begin, OnlyReq, hwVars, dbVars
<1>2. req'[r] = rec /\ \A q \in Reqs \ {r} : req'[q] = req[q]
  BY <1>1 DEF IInv2, IInv, SystemTypes
<1>3. /\ rec.pc = "locking" /\ rec.op = op /\ rec.profile = p /\ rec.previous = None
      /\ rec.tried = FALSE
  BY DEF NotStarted
<1>4. req[r].pc = "idle"
  BY <1>1 DEF NotStarted
<1> HIDE DEF rec
<1>5. /\ req'[r].pc = "locking" /\ req'[r].op = op /\ req'[r].profile = p
      /\ req'[r].previous = None /\ req'[r].tried = FALSE
  BY <1>2, <1>3
<1>6. Staged(req[r])'
  BY <1>5 DEF Staged
<1>7. Switching(req[r])' /\ Accomplished(req[r])'
  BY <1>5 DEF Switching, Accomplished
<1> QED
  BY <1>1, <1>2, <1>4, <1>5, <1>6, <1>7, QuietKeeps

LEMMA StartKeepsBooks ==
    ASSUME IInv2, NEW r \in Reqs, Start(r) PROVE IInv2Next
<1>1. ASSUME NEW op \in ProfileOps, NEW p \in Profiles, BeginProfileOp(r, op, p)
      PROVE  IInv2Next
  BY <1>1, BeginKeepsBooks DEF BeginProfileOp, Ops
<1>2. ASSUME NEW p \in Profiles, NEW c \in Cards, BeginAdd(r, p, c) PROVE IInv2Next
  BY <1>2, BeginKeepsBooks DEF BeginAdd, Ops
<1>3. ASSUME NEW c \in Cards, BeginView(r, c) PROVE IInv2Next
  BY <1>3, BeginKeepsBooks DEF BeginView, Ops, ProfileOps, ToggleOps
<1>4. CASE BeginDiscover(r)
  BY <1>4, BeginKeepsBooks DEF BeginDiscover, Ops, ProfileOps, ToggleOps
<1> QED
  BY <1>1, <1>2, <1>3, <1>4 DEF Start

LEMMA LockKeepsBooks ==
    ASSUME IInv2, NEW r \in Reqs, Lock(r) PROVE IInv2Next
<1>1. /\ req[r].pc = "locking" /\ Goto(r, "inhibiting")
      /\ UNCHANGED <<inserted, chip, row, lpacFaults, cancelled, swaps>>
  BY DEF Lock, At, OnlyReq, hwVars, dbVars
<1>2. SystemTypes /\ req[r] \in Request /\ Staged(req[r])
  BY DEF IInv2, IInv, SystemTypes, Progress
<1>3. Goes(r, "inhibiting", req[r].previous, req[r].tried, req[r].ok)
  BY <1>1, <1>2, StepGoes
<1>4. /\ \A q \in Reqs \ {r} : req'[q] = req[q]
      /\ req'[r].pc # "erase" /\ Staged(req[r])' /\ Switching(req[r])' /\ Accomplished(req[r])'
  BY <1>1, <1>2, <1>3 DEF Goes, Staged, Switching, Accomplished
<1> QED
  BY <1>1, <1>4, QuietKeeps

LEMMA InhibitKeepsBooks ==
    ASSUME IInv2, NEW r \in Reqs, Inhibit(r) PROVE IInv2Next
<1>1. /\ req[r].pc = "inhibiting" /\ (Goto(r, FirstStep(req[r].op)) \/ Finish(r, FALSE))
      /\ UNCHANGED <<inserted, chip, row, lpacFaults, cancelled, swaps>>
  BY DEF Inhibit, At, OnlyBus, dbVars
<1>2. SystemTypes /\ req[r] \in Request /\ Staged(req[r]) /\ req[r].op \in Ops
  BY <1>1 DEF IInv2, IInv, SystemTypes, Progress, FlowOK, KnowsCard
<1>3. req[r].previous = None /\ ~req[r].tried
  BY <1>1, <1>2 DEF Staged
<1>4. \/ Goes(r, FirstStep(req[r].op), None, FALSE, req[r].ok)
      \/ Goes(r, "done", None, FALSE, FALSE)
  BY <1>1, <1>2, <1>3, StepGoes DEF Request
<1>5. FirstStep(req[r].op) =
         IF req[r].op \in ToggleOps THEN "list1"
         ELSE IF req[r].op = "delete" THEN "recheck"
         ELSE IF req[r].op = "nickname" THEN "rename"
         ELSE IF req[r].op = "add" THEN "download"
         ELSE IF req[r].op = "view" THEN "list" ELSE "info"
  BY <1>2 DEF FirstStep, Ops, ProfileOps, ToggleOps
<1>6. /\ \A q \in Reqs \ {r} : req'[q] = req[q]
      /\ req'[r].pc \in {"list1", "recheck", "rename", "download", "list", "info", "done"}
      /\ Staged(req[r])'
  BY <1>1, <1>2, <1>3, <1>4, <1>5 DEF Goes, Staged, Ops, ProfileOps, ToggleOps
<1>7. Switching(req[r])' /\ Accomplished(req[r])'
  BY <1>2, <1>3, <1>4, <1>5 DEF Goes, Switching, Accomplished, Ops, ProfileOps, ToggleOps
<1> QED
  BY <1>1, <1>6, <1>7, QuietKeeps

LEMMA ClosingKeepsBooks ==
    ASSUME IInv2, NEW r \in Reqs, Closing(r) PROVE IInv2Next
<1>1. /\ req[r].pc = "closing"
      /\ UNCHANGED <<inserted, chip, row, lpacFaults, cancelled, swaps>>
      /\ \/ req[r].op \in {"add", "delete"} /\ Finish(r, TRUE)
         \/ req[r].op \notin {"add", "delete"}
            /\ Goto(r, IF req[r].op = "view" THEN "recovering" ELSE "resetting")
         \/ Answer(r, "deferred", req[r].op \in {"add", "delete"})
  BY DEF Closing, At, OnlyBus, dbVars
<1>2. req[r].pc \in Holding
  BY <1>1, StepNames
<1>3. /\ SystemTypes /\ req[r] \in Request /\ Staged(req[r])
      /\ swaps = 0 => Accomplished(req[r])
  BY <1>2, HolderKnows
<1>4. req[r].op \in ToggleOps \cup {"add", "view", "delete"}
  BY <1>1, <1>3 DEF Staged
<1>5. \/ req[r].op \in {"add", "delete"} /\ Goes(r, "done", req[r].previous, req[r].tried, TRUE)
      \/ req[r].op = "view" /\ Goes(r, "recovering", req[r].previous, req[r].tried, req[r].ok)
      \/ req[r].op \in ToggleOps /\ Goes(r, "resetting", req[r].previous, req[r].tried, req[r].ok)
      \/ req[r].op \in {"add", "delete"} /\ Goes(r, "deferred", req[r].previous, req[r].tried, TRUE)
      \/ req[r].op \notin {"add", "delete"} /\ Goes(r, "deferred", req[r].previous, req[r].tried, FALSE)
  <2>1. CASE req[r].op \in {"add", "delete"} /\ Finish(r, TRUE)
    BY <1>3, <2>1, StepGoes
  <2>2. CASE /\ req[r].op \notin {"add", "delete"}
             /\ Goto(r, IF req[r].op = "view" THEN "recovering" ELSE "resetting")
    <3>1. CASE req[r].op = "view"
      BY <1>3, <2>2, <3>1, StepGoes
    <3>2. CASE req[r].op # "view"
      BY <1>3, <1>4, <2>2, <3>2, StepGoes
    <3> QED
      BY <3>1, <3>2
  <2>3. CASE Answer(r, "deferred", req[r].op \in {"add", "delete"})
    <3>1. CASE req[r].op \in {"add", "delete"}
      <4>1. Answer(r, "deferred", TRUE)
        BY <2>3, <3>1 DEF Answer
      <4> QED
        BY <1>3, <3>1, <4>1, StepGoes
    <3>2. CASE req[r].op \notin {"add", "delete"}
      <4>1. (req[r].op \in {"add", "delete"}) = FALSE
        BY <3>2
      <4>2. Answer(r, "deferred", FALSE)
        BY <2>3, <4>1 DEF Answer
      <4> QED
        BY <1>3, <3>2, <4>2, StepGoes
    <3> QED
      BY <3>1, <3>2
  <2> QED
    BY <1>1, <2>1, <2>2, <2>3
<1>6. /\ \A q \in Reqs \ {r} : req'[q] = req[q]
      /\ req'[r].pc # "erase" /\ Staged(req[r])'
  BY <1>1, <1>3, <1>4, <1>5 DEF Goes, Staged, ToggleOps, ProfileOps
<1>7. Enabled' = Enabled
  BY <1>1 DEF Enabled, OnChip
<1>8. ASSUME swaps = 0 PROVE Switching(req[r])' /\ Accomplished(req[r])'
  <2>1. /\ req[r].op = "enable" => Enabled = {req[r].profile}
        /\ req[r].op = "disable" => chip[req[r].profile] = "disabled"
        /\ req[r].op = "delete" => chip[req[r].profile] = "absent"
        /\ req[r].op = "add" => chip[req[r].profile] # "absent"
    BY <1>1, <1>3, <1>8 DEF Accomplished
  <2>2. req[r].previous # None => Enabled' # {}
    BY <1>3, <1>7, <2>1 DEF Staged
  <2>3. Switching(req[r])'
    BY <1>5, <2>2 DEF Goes, Switching
  <2>4. Accomplished(req[r])'
    BY <1>1, <1>4, <1>5, <1>7, <2>1 DEF Goes, Accomplished, ToggleOps
  <2> QED
    BY <2>3, <2>4
<1> QED
  BY <1>1, <1>6, <1>8, QuietKeeps

(* The last step of a request.                                             *)
LEMMA EndKeepsBooks ==
    ASSUME IInv2, NEW r \in Reqs, Recovering(r) \/ Resetting(r) \/ Deferred(r)
    PROVE  IInv2Next
<1>1. /\ req[r].pc \in {"recovering", "resetting", "deferred"}
      /\ \E ok \in BOOLEAN : Finish(r, ok)
      /\ UNCHANGED <<inserted, chip, row, lpacFaults, cancelled, swaps>>
  <2>1. req[r].ok \in BOOLEAN
    BY DEF IInv2, IInv, SystemTypes, Request
  <2> QED
    BY <2>1 DEF Recovering, Resetting, Deferred, At, OnlyReq, OnlyBus, hwVars, dbVars
<1>2. SystemTypes /\ req[r] \in Request /\ Staged(req[r])
  BY DEF IInv2, IInv, SystemTypes, Progress
<1>3. PICK ok \in BOOLEAN : Goes(r, "done", req[r].previous, req[r].tried, ok)
  BY <1>1, <1>2, StepGoes
<1>4. /\ \A q \in Reqs \ {r} : req'[q] = req[q]
      /\ req'[r].pc # "erase" /\ Staged(req[r])' /\ Switching(req[r])' /\ Accomplished(req[r])'
  BY <1>1, <1>2, <1>3 DEF Goes, Staged, Switching, Accomplished
<1> QED
  BY <1>1, <1>4, QuietKeeps

LEMMA CancelKeepsBooks ==
    ASSUME IInv2, NEW r \in Reqs, Cancel(r) PROVE IInv2Next
<1>1. /\ cancelled' # {} /\ UNCHANGED <<inserted, chip, req, row, lpacFaults, swaps>>
  BY DEF Cancel, hwVars, dbVars
<1>2. ~NoFaults'
  BY <1>1 DEF NoFaults
<1>3. \A rec : /\ Switching(rec) => Switching(rec)'
               /\ Accomplished(rec) => Accomplished(rec)'
  BY <1>1 DEF Switching, Accomplished, Enabled, OnChip, CanEnable
<1>4. OneEnabled' /\ (swaps' = 0 => Homed')
  BY <1>1 DEF IInv2, Books, OneEnabled, Homed
<1>5. Books'
  BY <1>2, <1>4 DEF Books
<1>6. Progress'
  <2>1. \A q \in Reqs : Staged(req'[q])
    BY <1>1 DEF IInv2, Progress
  <2>2. ASSUME swaps' = 0, NEW q \in Reqs PROVE Switching(req[q])' /\ Accomplished(req[q])'
    <3>1. PICK rec : rec = req[q]
      OBVIOUS
    <3>2. req'[q] = rec /\ Switching(rec) /\ Accomplished(rec)
      BY <1>1, <2>2, <3>1 DEF IInv2, Progress
    <3>3. Switching(rec)' /\ Accomplished(rec)'
      BY <1>3, <3>2
    <3> QED
      BY <3>2, <3>3
  <2> QED
    BY <2>1, <2>2 DEF Progress
<1> QED
  BY <1>4, <1>5, <1>6 DEF IInv2Next

LEMMA EnvironmentKeepsBooks ==
    ASSUME IInv2, Export \/ TakeNews \/ Swap \/ UNCHANGED vars PROVE IInv2Next
<1>1. CASE Swap
  <2>1. swaps' = swaps + 1 /\ swaps \in Nat /\ UNCHANGED <<chip, req>>
    BY <1>1, ESimAssumption DEF Swap, IInv2, IInv, SystemTypes
  <2>2. swaps' # 0
    BY <2>1
  <2> QED
    BY <2>1, <2>2 DEF IInv2, IInv2Next, OneEnabled, Progress, Books, NoFaults
<1>2. CASE Export \/ TakeNews \/ UNCHANGED vars
  <2>1. UNCHANGED <<inserted, chip, req, row, lpacFaults, cancelled, swaps>>
    BY <1>2 DEF Export, TakeNews, dbVars, vars
  <2> QED
    BY <2>1 DEF IInv2, IInv2Next, OneEnabled, Progress, Books, Switching, Accomplished,
       Enabled, OnChip, CanEnable, NoFaults, Homed, Agree, AgreeBut, Known, Trails, At
<1> QED
  BY <1>1, <1>2

LEMMA IInv2Step == IInv2 /\ [Next]_vars => IInv2'
<1> SUFFICES ASSUME IInv2, [Next]_vars PROVE IInv2'
  OBVIOUS
<1>1. IInv'
  BY NextKeeps DEF IInv2
<1>2. ASSUME NEW r \in Reqs, Step(r) PROVE IInv2Next
  <2>1. CASE Switch(r)
    BY <2>1, List1Keeps, DisableCurrentKeeps, List2Keeps, OperateKeeps,
       ListAfterRefusalKeeps, RollbackKeeps, LastListKeeps, List3Keeps, EndKeepsBooks
    DEF Switch
  <2>2. CASE Write(r)
    BY <2>2, RenameKeeps, RecheckKeeps, EraseKeeps, ForgetKeeps, DownloadKeeps DEF Write
  <2>3. CASE Refresh(r)
    BY <2>3, InfoKeeps, ListProfilesKeeps, EndKeepsBooks DEF Refresh
  <2>4. CASE Lock(r) \/ Inhibit(r) \/ Closing(r) \/ Deferred(r)
    BY <2>4, LockKeepsBooks, InhibitKeepsBooks, ClosingKeepsBooks, EndKeepsBooks
  <2> QED
    BY <1>2, <2>1, <2>2, <2>3, <2>4 DEF Step
<1>3. IInv2Next
  BY <1>2, StartKeepsBooks, CancelKeepsBooks, EnvironmentKeepsBooks DEF Next
<1> QED
  BY <1>1, <1>3 DEF IInv2, IInv2Next

LEMMA IInv2Init == Init => IInv2
<1> SUFFICES ASSUME Init PROVE IInv2
  OBVIOUS
<1>1. /\ \A r \in Reqs : req[r] = NotStarted
      /\ \/ row = [p \in Profiles |-> None]
         \/ row = Upserted(inserted, [p \in Profiles |-> None], {})
  BY DEF Init
<1>2. NotStarted.pc = "idle" /\ NotStarted.op = None /\ NotStarted.previous = None
  BY DEF NotStarted
<1>3. OneEnabled
  BY DEF Init, OneEnabled
<1>5. \A p \in Profiles : row[p] # None => p \in OnChip /\ row[p].state = chip[p]
  <2> SUFFICES ASSUME NEW p \in Profiles, row[p] # None
               PROVE  p \in OnChip /\ row[p].state = chip[p]
    OBVIOUS
  <2>1. row[p] = IF p \in OnChip THEN [card |-> inserted, state |-> chip[p]] ELSE None
    BY <1>1 DEF Upserted
  <2>2. p \in OnChip
    BY <2>1
  <2>3. row[p] = [card |-> inserted, state |-> chip[p]]
    BY <2>1, <2>2
  <2> QED
    BY <2>2, <2>3
<1>6. Homed /\ Agree
  BY <1>5 DEF Homed, Agree, AgreeBut, OnChip
<1>7. Books
  BY <1>1, <1>2, <1>6 DEF Books, At
<1>8. \A r \in Reqs : Switching(req[r]) /\ Accomplished(req[r])
  BY <1>1, <1>2 DEF Switching, Accomplished
<1>9. \A r \in Reqs : Staged(req[r])
  BY <1>1, <1>2 DEF Staged
<1> QED
  BY <1>3, <1>7, <1>8, <1>9, InitIInv DEF IInv2, Progress

-----------------------------------------------------------------------------
(* The theorems of this part.                                              *)

(* What is on record of the requests, the chip and the rows is true        *)
(* throughout: the invariant the theorems below build on.                  *)
THEOREM BooksInvariance == Spec => []IInv2
  BY IInv2Init, IInv2Step, PTL DEF Spec

-----------------------------------------------------------------------------
(* How a request ends.                                                     *)

Last(r) == Inhibit(r) \/ Closing(r) \/ Recovering(r) \/ Resetting(r) \/ Deferred(r)

(* An assignment to one request.                                           *)
LEMMA OneMoves ==
    ASSUME SystemTypes, NEW q \in Reqs, NEW x \in Reqs \ {q}
    PROVE  /\ \A rec : req' = [req EXCEPT ![q] = rec] => req'[x] = req[x]
           /\ \A pc : Goto(q, pc) => req'[x] = req[x]
           /\ \A pc, ok : Answer(q, pc, ok) => req'[x] = req[x]
           /\ \A ok : Finish(q, ok) => req'[x] = req[x]
           /\ \A S : Moves(q, S) \/ Flows(q, S) => req'[x] = req[x]
  BY DEF SystemTypes, Goto, Answer, Finish, Moves, Flows

(* A request only ends in its own last step.                               *)
LEMMA OwnStep ==
    ASSUME IInv, NEW q \in Reqs, NEW x \in Reqs \ {q}, Start(q) \/ Step(q) \/ Cancel(q)
    PROVE  req'[x] = req[x]
<1> USE DEF IInv
<1>1. CASE Start(q)
  <2>1. \E rec : req' = [req EXCEPT ![q] = rec]
    BY <1>1 DEF Start, BeginProfileOp, BeginAdd, BeginView, BeginDiscover, Begin
  <2> QED
    BY <2>1, OneMoves
<1>2. CASE Switch(q) \/ Write(q) \/ Refresh(q)
  <2>1. CASE Recovering(q) \/ Resetting(q)
    BY <2>1, OneMoves DEF Recovering, Resetting
  <2>2. CASE ~(Recovering(q) \/ Resetting(q))
    <3>1. Moves(q, Used) \/ Flows(q, Used)
      BY <1>2, <2>2, SwitchStep, WriteStep, RefreshStep DEF Switch, Refresh
    <3> QED
      BY <3>1, OneMoves
  <2> QED
    BY <2>1, <2>2
<1>3. CASE Lock(q) \/ Inhibit(q) \/ Closing(q) \/ Deferred(q)
  <2>1. \/ \E pc : Goto(q, pc)
        \/ \E pc, ok : Answer(q, pc, ok)
        \/ \E ok : Finish(q, ok)
    BY <1>3 DEF Lock, Inhibit, Closing, Deferred
  <2> QED
    BY <2>1, OneMoves
<1>4. CASE Cancel(q)
  BY <1>4 DEF Cancel
<1> QED
  BY <1>1, <1>2, <1>3, <1>4 DEF Step

(* and that is one of five.                                                *)
LEMMA Ending ==
    ASSUME IInv, [Next]_vars, NEW r \in Reqs, ~At(r, "done"), req'[r].pc = "done"
    PROVE  Last(r)
<1> USE DEF IInv
<1>1. req'[r] # req[r]
  BY DEF At
<1>2. Start(r) \/ Step(r) \/ Cancel(r)
  <2>1. ~(Export \/ TakeNews \/ Swap \/ UNCHANGED vars)
    BY <1>1 DEF Export, TakeNews, Swap, vars
  <2>2. PICK q \in Reqs : Start(q) \/ Step(q) \/ Cancel(q)
    BY <2>1 DEF Next
  <2> QED
    BY <1>1, <2>2, OwnStep
<1>3. ~Cancel(r)
  BY <1>1 DEF Cancel
<1>4. ~Start(r)
  <2>1. ASSUME NEW op, NEW p, NEW c, Begin(r, op, p, c) PROVE req'[r].pc = "locking"
    BY <2>1 DEF Begin, NotStarted, SystemTypes
  <2> QED
    BY <2>1 DEF Start, BeginProfileOp, BeginAdd, BeginView, BeginDiscover
<1>5. ~Lock(r)
  BY DEF Lock, Goto, SystemTypes, Request
<1>6. Moves(r, Used) \/ Flows(r, Used) => req'[r].pc \in Used
  BY DEF Moves, Flows, SystemTypes
<1>7. req'[r].pc \notin Used
  BY DEF Used, InUse, LpacSteps
<1> QED
  BY <1>2, <1>3, <1>4, <1>5, <1>6, <1>7, SwitchStep, WriteStep, RefreshStep
  DEF Step, Last, Switch, Refresh

(* What the end of a request says of the operation.                        *)
LEMMA LastSays ==
    ASSUME IInv2, NEW r \in Reqs, Last(r), req'[r].pc = "done"
    PROVE  /\ UNCHANGED <<inserted, chip>>
           /\ \/ req[r].pc = "inhibiting" /\ ~req'[r].ok
              \/ req[r].pc = "closing" /\ req[r].op \in {"add", "delete"}
              \/ req[r].pc \in {"resetting", "recovering"}
              \/ req[r].pc = "deferred" /\ req'[r].ok = req[r].ok
<1>1. SystemTypes /\ req[r] \in Request
  BY DEF IInv2, IInv, SystemTypes
<1>2. UNCHANGED <<inserted, chip>>
  BY DEF Last, Inhibit, Closing, Recovering, Resetting, Deferred, OnlyBus, OnlyReq, hwVars
<1>3. CASE Inhibit(r)
  <2>1. req[r].pc = "inhibiting" /\ req[r].op \in Ops
    BY <1>3 DEF Inhibit, At, IInv2, IInv, FlowOK, KnowsCard
  <2>2. Goto(r, FirstStep(req[r].op)) \/ Finish(r, FALSE)
    BY <1>3 DEF Inhibit
  <2>3. FirstStep(req[r].op) # "done"
    BY <2>1 DEF FirstStep, Ops, ProfileOps, ToggleOps
  <2>4. Finish(r, FALSE)
    BY <1>1, <2>2, <2>3, StepGoes DEF Goes
  <2> QED
    BY <1>1, <1>2, <2>1, <2>4, StepGoes DEF Goes
<1>4. CASE Closing(r)
  <2>1. req[r].pc = "closing"
    BY <1>4 DEF Closing, At
  <2>2. ASSUME req[r].op \notin {"add", "delete"} PROVE FALSE
    <3>1. PICK pc, ok : pc # "done" /\ (Goto(r, pc) \/ Answer(r, pc, ok))
      BY <1>4, <2>2 DEF Closing
    <3> QED
      BY <1>1, <3>1, StepGoes DEF Goes
  <2> QED
    BY <1>2, <2>1, <2>2
<1>5. CASE Recovering(r) \/ Resetting(r)
  BY <1>2, <1>5 DEF Recovering, Resetting, At
<1>6. CASE Deferred(r)
  BY <1>1, <1>2, <1>6, StepGoes DEF Deferred, At, Goes
<1> QED
  BY <1>3, <1>4, <1>5, <1>6 DEF Last

(* An answer is true: whoever is told that a switch, an addition or a      *)
(* deletion worked finds the chip in the state asked for, in whatever      *)
(* order the requests ran and whatever failed on the way.                  *)
THEOREM AnswersAreTrue == Spec => SuccessIsReal
<1>1. ASSUME IInv2, [Next]_vars, NEW r \in Reqs, ~At(r, "done"), req'[r].pc = "done",
             req'[r].ok, swaps = 0
      PROVE  LET p == req[r].profile
             IN  CASE req[r].op = "enable"  -> Enabled' = {p}
                   [] req[r].op = "disable" -> chip'[p] = "disabled"
                   [] req[r].op = "delete"  -> chip'[p] = "absent"
                   [] req[r].op = "add"     -> chip'[p] # "absent"
                   [] OTHER -> TRUE
  <2>1. Last(r)
    BY <1>1, Ending DEF IInv2
  <2>2. /\ UNCHANGED <<inserted, chip>>
        /\ \/ req[r].pc = "closing" /\ req[r].op \in {"add", "delete"}
           \/ req[r].pc \in {"resetting", "recovering"}
           \/ req[r].pc = "deferred" /\ req[r].ok
    BY <1>1, <2>1, LastSays
  <2>3. Staged(req[r]) /\ Accomplished(req[r])
    BY <1>1 DEF IInv2, Progress
  <2>4. Enabled' = Enabled
    BY <2>2 DEF Enabled, OnChip
  <2>5. /\ req[r].op = "enable"  => Enabled' = {req[r].profile}
        /\ req[r].op = "disable" => chip'[req[r].profile] = "disabled"
    BY <2>2, <2>3, <2>4 DEF Staged, Accomplished, ToggleOps
  <2>6. /\ req[r].op = "delete"  => chip'[req[r].profile] = "absent"
        /\ req[r].op = "add"     => chip'[req[r].profile] # "absent"
    BY <2>2, <2>3 DEF Staged, Accomplished, ToggleOps
  <2> QED
    BY <2>5, <2>6
<1>2. IInv2 /\ [Next]_vars =>
        \A r \in Reqs :
          ~At(r, "done") /\ req'[r].pc = "done" /\ req'[r].ok /\ swaps = 0
          => LET p == req[r].profile
             IN  CASE req[r].op = "enable"  -> Enabled' = {p}
                   [] req[r].op = "disable" -> chip'[p] = "disabled"
                   [] req[r].op = "delete"  -> chip'[p] = "absent"
                   [] req[r].op = "add"     -> chip'[p] # "absent"
                   [] OTHER -> TRUE
  BY <1>1
<1> QED
  BY <1>2, BooksInvariance, PTL DEF Spec, SuccessIsReal

(* A switch that has disabled a profile and has run the command that       *)
(* enables the target leaves the card with an enabled profile, if nobody   *)
(* goes away and the card stays: it takes a second fault, besides the one  *)
(* that broke the switch, to lose both the target and the profile it goes  *)
(* back to.  A switch that fails before that command, in the list after    *)
(* the previous profile was disabled, does not go back.                    *)
THEOREM SwitchesRollBack == Spec => RolledBack
<1>1. ASSUME IInv2, [Next]_vars, NEW r \in Reqs, ~At(r, "done"), req'[r].pc = "done",
             req[r].op = "enable", req[r].previous # None, req[r].tried,
             lpacFaults <= 1, cancelled = {}, swaps = 0
      PROVE  Enabled # {}
  <2>1. Last(r)
    BY <1>1, Ending DEF IInv2
  <2>2. req[r].pc \in {"inhibiting", "resetting", "recovering", "deferred"}
    BY <1>1, <2>1, LastSays
  <2>3. Staged(req[r]) /\ Accomplished(req[r]) /\ Switching(req[r])
    BY <1>1 DEF IInv2, Progress
  <2>4. lpacFaults \in Nat
    BY <1>1, ESimAssumption DEF IInv2, IInv, SystemTypes
  <2>5. req[r].pc \in {"resetting", "deferred"}
    BY <1>1, <2>2, <2>3 DEF Staged
  <2>6. CASE req[r].pc = "resetting"
    <3>1. Enabled = {req[r].profile}
      BY <1>1, <2>3, <2>6 DEF Accomplished
    <3> QED
      BY <3>1
  <2>7. CASE req[r].pc = "deferred"
    BY <1>1, <2>3, <2>4, <2>7 DEF Switching
  <2> QED
    BY <2>5, <2>6, <2>7
<1>2. IInv2 /\ [Next]_vars =>
        \A r \in Reqs :
          /\ ~At(r, "done") /\ req'[r].pc = "done"
          /\ req[r].op = "enable" /\ req[r].previous # None /\ req[r].tried
          /\ lpacFaults <= 1 /\ cancelled = {} /\ swaps = 0
          => Enabled # {}
  BY <1>1
<1> QED
  BY <1>2, BooksInvariance, PTL DEF Spec, RolledBack
-----------------------------------------------------------------------------
(* Which rows may be wrong, whatever fails, whoever goes away and whichever *)
(* card is in the modem: those in doubt since something failed, and those   *)
(* of a change its request has made to the chip and not listed yet.         *)

Wrong(p) == row[p] # None /\ row[p].state # chip[p]

Owing == {"list2", "lastList", "list3", "forget", "info", "list"}

Owes(rec, p) ==
    \/ rec.pc \in {"list2", "lastList"} /\ p = rec.previous /\ p \in OnChip
    \/ rec.pc = "list3" /\ p = rec.profile /\ p \in OnChip
    \/ rec.pc = "forget" /\ p = rec.profile
    \/ rec.pc \in {"info", "list"} /\ rec.op = "add" /\ p = rec.profile /\ p \in OnChip

Doubts == /\ unsure \subseteq Profiles
          /\ \A p \in Profiles :
                Wrong(p) => p \in unsure \/ \E r \in Reqs : Owes(req[r], p)

\* A request about to delete has read a row that was right, or is in doubt.
Careful == \A r \in Reqs : At(r, "erase") =>
              chip[req[r].profile] # "enabled" \/ req[r].profile \in unsure

IInv3 == IInv2 /\ Doubts /\ Careful

(* While a request is on the chip, nobody else owes a list.                *)
LEMMA OnlyHolderOwes ==
    ASSUME IInv3, NEW r \in Reqs, req[r].pc \in LpacSteps, NEW p \in Profiles, Wrong(p)
    PROVE  p \in unsure \/ Owes(req[r], p)
<1>1. ASSUME NEW q \in Reqs \ {r} PROVE ~Owes(req[q], p)
  BY StepNames, OthersWait DEF IInv3, IInv2, Owes
<1> QED
  BY <1>1 DEF IInv3, Doubts

(* A step that is not on the chip.                                         *)
LEMMA QuietDoubts ==
    ASSUME IInv3, UNCHANGED <<inserted, chip, row, unsure>>,
           \A q \in Reqs : req[q].pc \in Owing => req'[q] = req[q]
    PROVE  Doubts'
<1>1. \A q \in Reqs, p \in Profiles : Owes(req[q], p) => Owes(req[q], p)'
  BY DEF Owes, Owing, OnChip
<1>2. \A p \in Profiles : Wrong(p)' = Wrong(p)
  BY DEF Wrong
<1> QED
  BY <1>1, <1>2 DEF IInv3, Doubts

(* Rows that are written, or fail to be, leave nothing wrong that is not   *)
(* in doubt.                                                               *)
LEMMA WritesDoubts ==
    ASSUME UNCHANGED <<inserted, chip>>, unsure \subseteq Profiles,
           NEW card, NEW rows \in [Profiles -> Row \cup {None}], NEW failed,
           Writes(card, rows, failed),
           \A p \in Profiles : rows[p] # None => rows[p] = row[p],
           \A p \in Profiles : rows[p] # None /\ Wrong(p) => p \in unsure \cup OnChip
    PROVE  unsure' \subseteq Profiles /\ \A p \in Profiles : Wrong(p)' => p \in unsure'
<1>1. /\ unsure' = (unsure \ (OnChip \ failed)) \cup (Missed \cap failed)
      /\ \A p \in Profiles :
            row'[p] = IF p \in OnChip \ failed THEN [card |-> card, state |-> chip[p]]
                      ELSE rows[p]
  BY DEF Writes, Doubted, Upserted
<1>2. unsure' \subseteq Profiles
  BY <1>1 DEF Missed, OnChip
<1>3. ASSUME NEW p \in Profiles, Wrong(p)' PROVE p \in unsure'
  <2>1. p \notin OnChip \ failed
    <3> SUFFICES ASSUME p \in OnChip \ failed PROVE FALSE
      OBVIOUS
    <3>1. row'[p] = [card |-> card, state |-> chip[p]]
      BY <1>1
    <3> QED
      BY <1>3, <3>1 DEF Wrong
  <2>2. rows[p] # None /\ rows[p] = row[p] /\ row'[p] = row[p]
    BY <1>1, <1>3, <2>1 DEF Wrong
  <2>3. Wrong(p)
    BY <1>3, <2>2 DEF Wrong
  <2>4. CASE p \in OnChip
    BY <1>1, <2>1, <2>3, <2>4 DEF Missed, Wrong
  <2>5. CASE p \notin OnChip
    BY <1>1, <2>2, <2>3, <2>5
  <2> QED
    BY <2>4, <2>5
<1> QED
  BY <1>2, <1>3

(* A list leaves nothing owed.                                             *)
LEMMA ListDoubts ==
    ASSUME IInv3, NEW r \in Reqs, req[r].pc \in LpacSteps \ {"forget"}, OnlyChip,
           ListOk(r, req[r].card) \/ ListFails(r)
    PROVE  Doubts'
<1>1. SystemTypes /\ UNCHANGED <<inserted, chip>> /\ unsure \subseteq Profiles
  BY DEF IInv3, IInv2, IInv, Doubts, OnlyChip, hwVars, ListOk, ListFails
<1>2. \A p \in Profiles : Wrong(p) => p \in unsure \cup OnChip
  BY OnlyHolderOwes DEF Owes
<1>3. unsure' \subseteq Profiles /\ \A p \in Profiles : Wrong(p)' => p \in unsure'
  <2>1. CASE ListOk(r, req[r].card)
    <3>1. PICK failed : Writes(req[r].card, row, failed)
      BY <2>1 DEF ListOk
    <3>2. row \in [Profiles -> Row \cup {None}]
      BY <1>1 DEF SystemTypes
    <3> QED
      BY <1>1, <1>2, <3>1, <3>2, WritesDoubts
  <2>2. CASE ListFails(r)
    <3>1. unsure' = unsure \cup Missed /\ row' = row
      BY <2>2 DEF ListFails, Doubted, Missed
    <3>2. \A p \in Profiles : Wrong(p)' = Wrong(p)
      BY <1>1, <3>1 DEF Wrong
    <3> QED
      BY <1>1, <1>2, <3>1, <3>2 DEF Missed, Wrong, OnChip
  <2> QED
    BY <2>1, <2>2
<1> QED
  BY <1>3 DEF Doubts

(* A command that is done is owed a list; one that fails leaves a doubt.   *)
LEMMA CommandDoubts ==
    ASSUME IInv3, NEW r \in Reqs, req[r].pc \in LpacSteps \ Owing, UNCHANGED row,
           NEW able, NEW after, NEW p, \A q \in Profiles \ {p} : after[q] = chip[q],
           CommandOk(r, able, after) \/ CommandFails(r, able, after)
    PROVE  /\ unsure' \subseteq Profiles
           /\ CommandOk(r, able, after) =>
                 \A q \in Profiles : Wrong(q)' => q \in unsure' \cup {p}
           /\ CommandFails(r, able, after) =>
                 \A q \in Profiles : Wrong(q)' => q \in unsure'
<1>1. \A q \in Profiles : Wrong(q) => q \in unsure
  BY OnlyHolderOwes DEF Owes, Owing
<1>2. unsure \subseteq Profiles
  BY DEF IInv3, Doubts
<1>3. ASSUME CommandOk(r, able, after)
      PROVE  /\ unsure' \subseteq Profiles
             /\ \A q \in Profiles : Wrong(q)' => q \in unsure' \cup {p}
  BY <1>1, <1>2, <1>3 DEF CommandOk, Wrong
<1>4. ASSUME CommandFails(r, able, after)
      PROVE  /\ unsure' \subseteq Profiles
             /\ \A q \in Profiles : Wrong(q)' => q \in unsure'
  BY <1>1, <1>2, <1>4 DEF CommandFails, Wrong
<1> QED
  BY <1>3, <1>4

(* What was done to a profile on the card is owed a list.                  *)
LEMMA StaysOnChip ==
    ASSUME SystemTypes, NEW p \in OnChip, NEW state \in {"disabled", "enabled"},
           chip' = WithState(p, state), UNCHANGED inserted
    PROVE  p \in OnChip'
  BY DEF SystemTypes, OnChip, WithState

(* The lists and the commands of a switch.                                 *)
LEMMA SwitchDoubts ==
    ASSUME IInv3, NEW r \in Reqs, Switch(r), ~Resetting(r) PROVE Doubts'
<1>0. PICK p, previous : p = req[r].profile /\ previous = req[r].previous
  OBVIOUS
<1>1. SystemTypes /\ req[r] \in Request
  BY DEF IInv3, IInv2, IInv, SystemTypes
<1>2. /\ {"list1", "list2", "listAfterRefusal", "lastList", "list3"}
            \subseteq LpacSteps \ {"forget"}
      /\ {"disableCurrent", "operate", "rollback"} \subseteq LpacSteps \ Owing
  BY DEF LpacSteps, Owing
<1>3. CASE List1(r) \/ List2(r) \/ ListAfterRefusal(r) \/ LastList(r) \/ List3(r)
  <2>1. /\ req[r].pc \in {"list1", "list2", "listAfterRefusal", "lastList", "list3"}
        /\ OnlyChip /\ (ListOk(r, req[r].card) \/ ListFails(r))
    BY <1>3 DEF List1, List2, ListAfterRefusal, LastList, List3, At
  <2> QED
    BY <1>2, <2>1, ListDoubts
<1>4. \A x, state : \A q \in Profiles \ {x} : WithState(x, state)[q] = chip[q]
  BY <1>1 DEF SystemTypes, WithState
<1>5. CASE DisableCurrent(r)
  <2> DEFINE after == WithState(previous, "disabled")
  <2>1. /\ req[r].pc \in LpacSteps \ Owing /\ OnlyChip /\ UNCHANGED <<inserted, row>>
        /\ \/ CommandOk(r, CanDisable(previous), after) /\ Goto(r, "list2")
           \/ CommandFails(r, CanDisable(previous), after)
    BY <1>0, <1>2, <1>5 DEF DisableCurrent, At, OnlyChip, hwVars
  <2>2. /\ unsure' \subseteq Profiles
        /\ CommandOk(r, CanDisable(previous), after) =>
              \A q \in Profiles : Wrong(q)' => q \in unsure' \cup {previous}
        /\ CommandFails(r, CanDisable(previous), after) =>
              \A q \in Profiles : Wrong(q)' => q \in unsure'
    <3>1. \A q \in Profiles \ {previous} : after[q] = chip[q]
      BY <1>4
    <3> HIDE DEF after
    <3> QED
      BY <2>1, <3>1, CommandDoubts
  <2>3. ASSUME CommandOk(r, CanDisable(previous), after), Goto(r, "list2")
        PROVE  Owes(req[r], previous)'
    <3>1. previous \in OnChip /\ chip' = after
      BY <2>3 DEF CommandOk, CanDisable, Enabled
    <3>2. previous \in OnChip'
      BY <1>1, <2>1, <3>1, StaysOnChip
    <3>3. req'[r].pc = "list2" /\ req'[r].previous = previous
      BY <1>0, <1>1, <2>3, StepGoes DEF Goes
    <3> QED
      BY <3>2, <3>3 DEF Owes
  <2> QED
    BY <2>1, <2>2, <2>3 DEF Doubts
<1>6. CASE Operate(r)
  <2> DEFINE able  == IF req[r].op = "enable" THEN CanEnable(p) ELSE CanDisable(p)
             state == IF req[r].op = "enable" THEN "enabled" ELSE "disabled"
             after == WithState(p, state)
  <2>1. /\ req[r].pc \in LpacSteps \ Owing /\ OnlyChip /\ UNCHANGED <<inserted, row>>
        /\ \/ /\ CommandOk(r, able, after)
              /\ req' = [req EXCEPT ![r].pc = "list3", ![r].tried = TRUE]
           \/ CommandFails(r, able, after)
    BY <1>0, <1>2, <1>6 DEF Operate, At, OnlyChip, hwVars
  <2>2. /\ unsure' \subseteq Profiles
        /\ CommandOk(r, able, after) =>
              \A q \in Profiles : Wrong(q)' => q \in unsure' \cup {p}
        /\ CommandFails(r, able, after) =>
              \A q \in Profiles : Wrong(q)' => q \in unsure'
    <3>1. \A q \in Profiles \ {p} : after[q] = chip[q]
      BY <1>4
    <3> HIDE DEF able, after
    <3> QED
      BY <2>1, <3>1, CommandDoubts
  <2>3. ASSUME CommandOk(r, able, after),
               req' = [req EXCEPT ![r].pc = "list3", ![r].tried = TRUE]
        PROVE  Owes(req[r], p)'
    <3>1. p \in OnChip /\ chip' = after
      BY <2>3 DEF CommandOk, CanDisable, CanEnable, Enabled
    <3>2. p \in OnChip'
      BY <1>1, <2>1, <3>1, StaysOnChip
    <3>3. req'[r].pc = "list3" /\ req'[r].profile = p
      BY <1>0, <1>1, <2>3 DEF SystemTypes, Request
    <3> QED
      BY <3>2, <3>3 DEF Owes
  <2> QED
    BY <2>1, <2>2, <2>3 DEF Doubts
<1>7. CASE Rollback(r)
  <2> DEFINE after == WithState(previous, "enabled")
  <2>1. /\ req[r].pc \in LpacSteps \ Owing /\ OnlyChip /\ UNCHANGED <<inserted, row>>
        /\ \/ CommandOk(r, CanEnable(previous), after)
           \/ CommandFails(r, CanEnable(previous), after)
        /\ Goto(r, "lastList")
    BY <1>0, <1>2, <1>7 DEF Rollback, At, OnlyChip, hwVars
  <2>2. /\ unsure' \subseteq Profiles
        /\ CommandOk(r, CanEnable(previous), after) =>
              \A q \in Profiles : Wrong(q)' => q \in unsure' \cup {previous}
        /\ CommandFails(r, CanEnable(previous), after) =>
              \A q \in Profiles : Wrong(q)' => q \in unsure'
    <3>1. \A q \in Profiles \ {previous} : after[q] = chip[q]
      BY <1>4
    <3> HIDE DEF after
    <3> QED
      BY <2>1, <3>1, CommandDoubts
  <2>3. ASSUME CommandOk(r, CanEnable(previous), after) PROVE Owes(req[r], previous)'
    <3>1. previous \in OnChip /\ chip' = after
      BY <2>3 DEF CommandOk, CanEnable
    <3>2. previous \in OnChip'
      BY <1>1, <2>1, <3>1, StaysOnChip
    <3>3. req'[r].pc = "lastList" /\ req'[r].previous = previous
      BY <1>0, <1>1, <2>1, StepGoes DEF Goes
    <3> QED
      BY <3>2, <3>3 DEF Owes
  <2> QED
    BY <2>1, <2>2, <2>3 DEF Doubts
<1> QED
  BY <1>3, <1>5, <1>6, <1>7 DEF Switch

(* Renaming, deleting and downloading.                                     *)
LEMMA WriteDoubts ==
    ASSUME IInv3, NEW r \in Reqs, Write(r) PROVE Doubts'
<1>0. PICK p, card : p = req[r].profile /\ card = req[r].card
  OBVIOUS
<1>1. SystemTypes /\ req[r] \in Request
  BY DEF IInv3, IInv2, IInv, SystemTypes
<1>2. /\ {"rename", "erase", "download"} \subseteq LpacSteps \ Owing
      /\ "recheck" \notin Owing /\ "forget" \in LpacSteps
  BY DEF LpacSteps, Owing
<1>3. CASE Rename(r)
  <2> DEFINE able == p \in OnChip
  <2>1. /\ req[r].pc \in LpacSteps \ Owing /\ UNCHANGED row
        /\ CommandOk(r, able, chip) \/ CommandFails(r, able, chip)
    BY <1>0, <1>2, <1>3 DEF Rename, At
  <2>2. \A q \in Profiles \ {None} : chip[q] = chip[q]
    OBVIOUS
  <2>3. /\ unsure' \subseteq Profiles
        /\ CommandOk(r, able, chip) =>
              \A q \in Profiles : Wrong(q)' => q \in unsure' \cup {None}
        /\ CommandFails(r, able, chip) => \A q \in Profiles : Wrong(q)' => q \in unsure'
    <3> HIDE DEF able
    <3> QED
      BY <2>1, <2>2, CommandDoubts
  <2> QED
    BY <2>1, <2>3, ESimAssumption DEF Doubts
<1>4. CASE Recheck(r)
  <2>1. /\ UNCHANGED <<inserted, chip, row, unsure>> /\ req[r].pc = "recheck"
        /\ Fail(r) \/ Goto(r, "erase")
    BY <1>4 DEF Recheck, At, OnlyReq, hwVars, dbVars
  <2>2. \A q \in Reqs \ {r} : req'[q] = req[q]
    BY <1>1, <2>1, StepGoes DEF Goes
  <2> QED
    BY <1>2, <2>1, <2>2, QuietDoubts
<1>5. CASE Erase(r)
  <2> DEFINE after == WithState(p, "absent")
  <2>1. /\ req[r].pc \in LpacSteps \ Owing /\ UNCHANGED row
        /\ \/ CommandOk(r, CanDelete(p), after) /\ Goto(r, "forget")
           \/ CommandFails(r, CanDelete(p), after)
    BY <1>0, <1>2, <1>5 DEF Erase, At
  <2>2. \A q \in Profiles \ {p} : after[q] = chip[q]
    BY <1>1 DEF SystemTypes, WithState
  <2>3. /\ unsure' \subseteq Profiles
        /\ CommandOk(r, CanDelete(p), after) =>
              \A q \in Profiles : Wrong(q)' => q \in unsure' \cup {p}
        /\ CommandFails(r, CanDelete(p), after) =>
              \A q \in Profiles : Wrong(q)' => q \in unsure'
    BY <2>1, <2>2, CommandDoubts
  <2>4. Goto(r, "forget") => Owes(req[r], p)'
    BY <1>0, <1>1, StepGoes DEF Goes, Owes
  <2> QED
    BY <2>1, <2>3, <2>4 DEF Doubts
<1>6. CASE Forget(r)
  <2> DEFINE rest == [row EXCEPT ![p] = None]
  <2>1. /\ req[r].pc = "forget" /\ UNCHANGED <<inserted, chip>> /\ unsure \subseteq Profiles
        /\ req[r].profile \in Profiles \cup {None}
    BY <1>1, <1>6 DEF Forget, At, OnlyChip, hwVars, IInv3, Doubts, Request
  <2>2. \/ row' = row /\ unsure' = unsure \cup {p}
        \/ row' = rest /\ unsure' = unsure
        \/ \E failed : Writes(card, rest, failed)
    BY <1>0, <1>6 DEF Forget
  <2>3. \A q \in Profiles : Wrong(q) => q \in unsure \cup {p}
    BY <1>0, <1>2, <2>1, OnlyHolderOwes DEF Owes
  <2>4. /\ rest \in [Profiles -> Row \cup {None}]
        /\ \A q \in Profiles : rest[q] = IF q = p THEN None ELSE row[q]
    BY <1>1 DEF SystemTypes
  <2> HIDE DEF rest
  <2>5. \A q \in Profiles : rest[q] # None => q # p /\ rest[q] = row[q]
    BY <2>4
  <2>6. p \in Profiles
    BY <1>0, <2>1 DEF IInv3, IInv2, Progress, Staged, ProfileOps
  <2>7. unsure' \subseteq Profiles /\ \A q \in Profiles : Wrong(q)' => q \in unsure'
    <3>1. CASE row' = row /\ unsure' = unsure \cup {p}
      BY <2>1, <2>3, <2>6, <3>1 DEF Wrong
    <3>2. CASE row' = rest /\ unsure' = unsure
      BY <2>1, <2>3, <2>5, <3>2 DEF Wrong
    <3>3. ASSUME NEW failed, Writes(card, rest, failed)
          PROVE  unsure' \subseteq Profiles /\ \A q \in Profiles : Wrong(q)' => q \in unsure'
      <4>1. \A q \in Profiles : rest[q] # None /\ Wrong(q) => q \in unsure \cup OnChip
        BY <2>3, <2>5
      <4> QED
        BY <2>1, <2>4, <2>5, <3>3, <4>1, WritesDoubts
    <3> QED
      BY <2>2, <3>1, <3>2, <3>3
  <2> QED
    BY <2>7 DEF Doubts
<1>7. CASE Download(r)
  <2> DEFINE after == WithState(p, "disabled")
  <2>1. /\ req[r].pc \in LpacSteps \ Owing /\ UNCHANGED <<inserted, row>>
        /\ \/ CommandOk(r, CanDownload(p), after) /\ Goto(r, "info")
           \/ CommandFails(r, CanDownload(p), after)
        /\ req[r].pc = "download"
    BY <1>0, <1>2, <1>7 DEF Download, At, OnlyChip, hwVars
  <2>2. \A q \in Profiles \ {p} : after[q] = chip[q]
    BY <1>1 DEF SystemTypes, WithState
  <2>3. /\ unsure' \subseteq Profiles
        /\ CommandOk(r, CanDownload(p), after) =>
              \A q \in Profiles : Wrong(q)' => q \in unsure' \cup {p}
        /\ CommandFails(r, CanDownload(p), after) =>
              \A q \in Profiles : Wrong(q)' => q \in unsure'
    BY <2>1, <2>2, CommandDoubts
  <2>4. ASSUME CommandOk(r, CanDownload(p), after), Goto(r, "info")
        PROVE  Owes(req[r], p)'
    <3>1. req[r].op = "add" /\ p \in Profiles
      BY <1>0, <2>1 DEF IInv3, IInv2, Progress, Staged
    <3>2. p \in OnChip'
      BY <1>1, <2>1, <2>4, <3>1 DEF CommandOk, CanDownload, OnChip, WithState, SystemTypes
    <3> QED
      BY <1>0, <1>1, <2>4, <3>1, <3>2, StepGoes DEF Goes, Owes
  <2> QED
    BY <2>1, <2>3, <2>4 DEF Doubts
<1> QED
  BY <1>3, <1>4, <1>5, <1>6, <1>7 DEF Write

(* A refresh, a discovery and the lists of an addition.                    *)
LEMMA RefreshDoubts ==
    ASSUME IInv3, NEW r \in Reqs, Info(r) \/ List(r) PROVE Doubts'
<1>1. SystemTypes /\ req[r] \in Request
  BY DEF IInv3, IInv2, IInv, SystemTypes
<1>2. CASE List(r)
  <2>1. /\ req[r].pc \in LpacSteps \ {"forget"} /\ OnlyChip
        /\ ListOk(r, req[r].card) \/ ListFails(r)
    BY <1>2 DEF List, At, LpacSteps
  <2> QED
    BY <2>1, ListDoubts
<1>3. CASE Info(r)
  <2>1. /\ req[r].pc = "info" /\ UNCHANGED <<inserted, chip, row, unsure>>
    BY <1>3 DEF Info, At, OnlyChip, hwVars
  <2>2. \/ req[r].op = "discover" /\ \A q \in Reqs \ {r} : req'[q] = req[q]
        \/ /\ req'[r].pc = "list" /\ req'[r].op = req[r].op
           /\ req'[r].profile = req[r].profile
           /\ \A q \in Reqs \ {r} : req'[q] = req[q]
    <3>1. CASE Fail(r) /\ req[r].op = "discover"
      BY <1>1, <3>1, StepGoes DEF Goes
    <3>2. CASE Goto(r, "list")
      BY <1>1, <3>2, StepGoes DEF Goes
    <3>3. ASSUME NEW c, req' = [req EXCEPT ![r].pc = "list", ![r].card = c]
          PROVE  /\ req'[r].pc = "list" /\ req'[r].op = req[r].op
                 /\ req'[r].profile = req[r].profile
                 /\ \A q \in Reqs \ {r} : req'[q] = req[q]
      BY <1>1, <3>3 DEF SystemTypes, Request
    <3>4. \/ \E c : req' = [req EXCEPT ![r].pc = "list", ![r].card = c]
          \/ Fail(r) /\ req[r].op = "discover"
          \/ Goto(r, "list")
      <4>1. CASE /\ req' = [req EXCEPT ![r].pc = "list",
                       ![r].card = IF req[r].op = "discover" THEN inserted ELSE @]
        <5>1. PICK c : c = IF req[r].op = "discover" THEN inserted ELSE req[r].card
          OBVIOUS
        <5>2. req' = [req EXCEPT ![r].pc = "list", ![r].card = c]
          BY <1>1, <4>1, <5>1 DEF SystemTypes
        <5> QED
          BY <5>2
      <4> QED
        BY <1>3, <4>1 DEF Info
    <3> QED
      BY <3>1, <3>2, <3>3, <3>4
  <2>3. \A q \in Reqs, p \in Profiles : Owes(req[q], p) => Owes(req[q], p)'
    BY <2>1, <2>2 DEF Owes, OnChip
  <2>4. \A p \in Profiles : Wrong(p)' = Wrong(p)
    BY <2>1 DEF Wrong
  <2> QED
    BY <2>1, <2>3, <2>4 DEF IInv3, Doubts
<1> QED
  BY <1>2, <1>3

(* Everything else leaves the chip and the rows alone.                     *)
LEMMA OtherDoubts ==
    ASSUME IInv3, NEW r \in Reqs,
           \/ Start(r) \/ Cancel(r) \/ Lock(r) \/ Inhibit(r) \/ Closing(r)
           \/ Deferred(r) \/ Recovering(r) \/ Resetting(r)
    PROVE  Doubts'
<1>1. Start(r) \/ Step(r) \/ Cancel(r)
  BY DEF Step, Switch, Refresh
<1>2. \A q \in Reqs \ {r} : req'[q] = req[q]
  BY <1>1, OwnStep DEF IInv3, IInv2
<1>3. CASE Cancel(r)
  <2>1. UNCHANGED <<inserted, chip, row, unsure, req>>
    BY <1>3 DEF Cancel, hwVars, dbVars
  <2> QED
    BY <2>1, QuietDoubts
<1>4. CASE Start(r)
  <2>1. PICK op, p, c : Begin(r, op, p, c)
    BY <1>4 DEF Start, BeginProfileOp, BeginAdd, BeginView, BeginDiscover
  <2>2. UNCHANGED <<inserted, chip, row, unsure>> /\ req[r].pc = "idle"
    BY <2>1 DEF Begin, OnlyReq, hwVars, dbVars, NotStarted
  <2> QED
    BY <1>2, <2>2, QuietDoubts DEF Owing
<1>5. CASE Lock(r) \/ Recovering(r)
  <2>1. /\ UNCHANGED <<inserted, chip, row, unsure>>
        /\ req[r].pc \in {"locking", "recovering"}
    BY <1>5 DEF Lock, Recovering, At, OnlyReq, hwVars, dbVars
  <2> QED
    BY <1>2, <2>1, QuietDoubts DEF Owing
<1>6. CASE Inhibit(r) \/ Closing(r) \/ Deferred(r) \/ Resetting(r)
  <2>1. /\ UNCHANGED <<inserted, chip, row, unsure>>
        /\ req[r].pc \in {"inhibiting", "closing", "deferred", "resetting"}
    BY <1>6 DEF Inhibit, Closing, Deferred, Resetting, At, OnlyBus, dbVars
  <2> QED
    BY <1>2, <2>1, QuietDoubts DEF Owing
<1> QED
  BY <1>3, <1>4, <1>5, <1>6

(* Whoever is to delete a profile holds the mutex: nobody else changes the *)
(* chip or settles a doubt.                                                *)
LEMMA CarefulOthers ==
    ASSUME IInv3, NEW r \in Reqs, Start(r) \/ Step(r) \/ Cancel(r),
           NEW q \in Reqs \ {r}, At(q, "erase")
    PROVE  UNCHANGED <<chip, unsure, req[q]>>
<1>1. req'[q] = req[q]
  BY OwnStep DEF IInv3, IInv2
<1>2. req[r].pc \in {"idle", "locking", "done"}
  <2>1. req[q].pc \in Holding
    BY StepNames DEF At, LpacSteps
  <2> QED
    BY <2>1, OthersWait DEF IInv3, IInv2
<1>3. CASE Cancel(r)
  BY <1>1, <1>3 DEF Cancel
<1>4. CASE Lock(r)
  BY <1>1, <1>4 DEF Lock, OnlyReq
<1>5. CASE Start(r)
  <2>1. PICK op, p, c : Begin(r, op, p, c)
    BY <1>5 DEF Start, BeginProfileOp, BeginAdd, BeginView, BeginDiscover
  <2> QED
    BY <1>1, <2>1 DEF Begin, OnlyReq
<1>6. CASE Step(r) /\ ~Lock(r)
  BY <1>2, <1>6
  DEF Step, Switch, Write, Refresh, Inhibit, List1, DisableCurrent, List2, Operate,
      ListAfterRefusal, Rollback, LastList, List3, Resetting, Rename, Recheck, Erase,
      Forget, Download, Info, List, Recovering, Closing, Deferred, At
<1> QED
  BY <1>3, <1>4, <1>5, <1>6

(* The row is read again under the mutex, and a row that is wrong then is  *)
(* in doubt.                                                               *)
LEMMA CarefulOwn ==
    ASSUME IInv3, NEW r \in Reqs, Start(r) \/ Step(r) \/ Cancel(r), req'[r].pc = "erase"
    PROVE  chip'[req'[r].profile] # "enabled" \/ req'[r].profile \in unsure'
<1>1. SystemTypes /\ req[r] \in Request
  BY DEF IInv3, IInv2, IInv, SystemTypes
<1>2. CASE Cancel(r)
  BY <1>2 DEF IInv3, Careful, Cancel, At
<1>3. CASE Recheck(r)
  <2>1. /\ req[r].pc = "recheck" /\ UNCHANGED <<chip, unsure>>
        /\ \/ Fail(r)
           \/ /\ Goto(r, "erase") /\ row[req[r].profile] # None
              /\ row[req[r].profile].state # "enabled"
    BY <1>3 DEF Recheck, OnlyReq, At
  <2>2. /\ req'[r].profile = req[r].profile
        /\ row[req[r].profile] # None /\ row[req[r].profile].state # "enabled"
    BY <1>1, <2>1, StepGoes DEF Goes
  <2>3. req[r].profile \in Profiles
    BY <2>1 DEF IInv3, IInv2, Progress, Staged, ProfileOps
  <2>4. chip[req[r].profile] = "enabled" => Wrong(req[r].profile)
    BY <2>2 DEF Wrong
  <2>5. Wrong(req[r].profile) => req[r].profile \in unsure
    BY <2>1, <2>3, OnlyHolderOwes DEF Owes, LpacSteps
  <2> QED
    BY <2>1, <2>2, <2>4, <2>5
<1>4. ~Start(r)
  <2>1. ASSUME NEW op, NEW p, NEW c, Begin(r, op, p, c) PROVE req'[r].pc = "locking"
    BY <1>1, <2>1 DEF Begin, NotStarted, SystemTypes
  <2> QED
    BY <2>1 DEF Start, BeginProfileOp, BeginAdd, BeginView, BeginDiscover
<1>5. ~(Step(r) /\ ~Recheck(r))
  <2>1. \A pc : Goto(r, pc) => pc = "erase"
    BY <1>1, StepGoes DEF Goes
  <2>2. \A pc, ok : Answer(r, pc, ok) => pc = "erase"
    BY <1>1, StepGoes DEF Goes
  <2>3. ~Fail(r) /\ \A ok : ~Finish(r, ok)
    BY <2>2 DEF Fail, Finish
  <2>4. \A pc, x : pc # "erase" => /\ req' # [req EXCEPT ![r].pc = pc, ![r].previous = x]
                                  /\ req' # [req EXCEPT ![r].pc = pc, ![r].tried = x]
                                  /\ req' # [req EXCEPT ![r].pc = pc, ![r].card = x]
    BY <1>1 DEF SystemTypes, Request
  <2>5. ~Switch(r)
    BY <2>1, <2>3, <2>4
    DEF Switch, List1, DisableCurrent, List2, Operate, ListAfterRefusal, Rollback,
        LastList, List3, Resetting
  <2>6. ~(Write(r) /\ ~Recheck(r))
    BY <2>1, <2>2, <2>3 DEF Write, Rename, Erase, Forget, Download
  <2>7. ~(Info(r) \/ List(r) \/ Recovering(r))
    <3>1. ~(List(r) \/ Recovering(r))
      BY <2>1, <2>2, <2>3 DEF List, Recovering
    <3>2. ASSUME Info(r) PROVE FALSE
      <4>1. req' = [req EXCEPT ![r].pc = "list",
                       ![r].card = IF req[r].op = "discover" THEN inserted ELSE @]
        BY <2>1, <2>3, <3>2 DEF Info
      <4> QED
        BY <1>1, <4>1 DEF SystemTypes, Request
    <3> QED
      BY <3>1, <3>2
  <2>8. ~(Lock(r) \/ Inhibit(r) \/ Closing(r) \/ Deferred(r))
    <3>1. ~(Lock(r) \/ Closing(r) \/ Deferred(r))
      BY <2>1, <2>2, <2>3 DEF Lock, Closing, Deferred
    <3>2. ASSUME Inhibit(r) PROVE FALSE
      <4>1. req[r].op \in Ops
        BY <3>2 DEF Inhibit, At, IInv3, IInv2, IInv, FlowOK, KnowsCard
      <4>2. FirstStep(req[r].op) # "erase"
        BY <4>1 DEF FirstStep, Ops, ProfileOps, ToggleOps
      <4> QED
        BY <2>1, <2>3, <3>2, <4>2 DEF Inhibit
    <3> QED
      BY <3>1, <3>2
  <2> QED
    BY <2>5, <2>6, <2>7, <2>8 DEF Step, Refresh
<1> QED
  BY <1>2, <1>3, <1>4, <1>5

LEMMA IInv3Step == IInv3 /\ [Next]_vars => IInv3'
<1> SUFFICES ASSUME IInv3, [Next]_vars PROVE IInv3'
  OBVIOUS
<1>1. IInv2'
  BY IInv2Step DEF IInv3
<1>2. ASSUME NEW r \in Reqs, Start(r) \/ Step(r) \/ Cancel(r) PROVE Doubts' /\ Careful'
  <2>1. Doubts'
    BY <1>2, SwitchDoubts, WriteDoubts, RefreshDoubts, OtherDoubts
    DEF Step, Switch, Refresh
  <2>2. ASSUME NEW q \in Reqs, At(q, "erase")'
        PROVE  chip'[req'[q].profile] # "enabled" \/ req'[q].profile \in unsure'
    <3>1. CASE q = r
      BY <1>2, <2>2, <3>1, CarefulOwn DEF At
    <3>2. CASE q # r
      <4>1. At(q, "erase")
        BY <1>2, <2>2, <3>2, OwnStep DEF At, IInv3, IInv2
      <4> QED
        BY <1>2, <3>2, <4>1, CarefulOthers DEF IInv3, Careful
    <3> QED
      BY <3>1, <3>2
  <2> QED
    BY <2>1, <2>2 DEF Careful
<1>3. CASE Export \/ TakeNews \/ UNCHANGED vars
  <2>1. UNCHANGED <<inserted, chip, row, unsure, req>>
    BY <1>3 DEF Export, TakeNews, dbVars, vars
  <2> QED
    BY <1>1, <2>1, QuietDoubts DEF IInv3, Careful, At
<1>4. CASE Swap
  <2>1. /\ mm = "exported" /\ UNCHANGED <<chip, row, unsure, req>>
    BY <1>4 DEF Swap, dbVars
  <2>2. \A r \in Reqs : req[r].pc \notin LpacSteps
    BY <2>1, StepNames DEF IInv3, IInv2, IInv, Exclusion
  <2>3. \A p \in Profiles : Wrong(p) => p \in unsure
    BY <2>2 DEF IInv3, Doubts, Owes, LpacSteps
  <2>4. Doubts'
    BY <2>1, <2>3 DEF IInv3, Doubts, Wrong
  <2>5. Careful'
    BY <2>1 DEF IInv3, Careful, At
  <2> QED
    BY <1>1, <2>4, <2>5 DEF IInv3
<1> QED
  BY <1>1, <1>2, <1>3, <1>4 DEF Next, IInv3

LEMMA IInv3Init == Init => IInv3
<1> SUFFICES ASSUME Init PROVE IInv3
  OBVIOUS
<1>1. IInv2 /\ unsure = {}
  BY IInv2Init DEF Init
<1>2. NoFaults /\ \A r \in Reqs : req[r].pc = "idle"
  BY DEF Init, NoFaults, NotStarted
<1>3. Agree
  BY <1>1, <1>2 DEF IInv2, Books, Trails
<1>4. \A p \in Profiles : ~Wrong(p)
  BY <1>3, ESimAssumption DEF Agree, AgreeBut, Wrong
<1> QED
  BY <1>1, <1>2, <1>4 DEF IInv3, Doubts, Careful, At

(* What is in doubt about the rows is on record throughout.                *)
THEOREM DoubtsInvariance == Spec => []IInv3
  BY IInv3Init, IInv3Step, PTL DEF Spec

(* Every variable keeps its type: in particular the count of the inhibitor *)
(* never goes below zero, however often uninhibit is called.               *)
THEOREM TypeCorrect == Spec => []TypeOK
<1>1. IInv3 => TypeOK
  BY DEF IInv3, IInv2, IInv, Doubts, TypeOK
<1> QED
  BY <1>1, DoubtsInvariance, PTL

(* Between operations a row that disagrees with the chip is one that is in *)
(* doubt since a command, a list or a write of rows failed: whatever       *)
(* changes the chip lists the profiles before it lets go of the mutex, and *)
(* a list that works ends every doubt about the card it reads.             *)
THEOREM RowsAgree == Spec => []RowsMatchChip
<1>1. ASSUME IInv3, lock = None PROVE RowsMatchChip
  <2>1. \A r \in Reqs, p \in Profiles : ~Owes(req[r], p)
    BY <1>1, StepNames, ESimAssumption
    DEF IInv3, IInv2, IInv, Exclusion, Owes, Holding, LpacSteps
  <2> QED
    BY <1>1, <2>1 DEF IInv3, Doubts, Wrong, RowsMatchChip
<1>2. IInv3 => RowsMatchChip
  BY <1>1 DEF RowsMatchChip
<1> QED
  BY <1>2, DoubtsInvariance, PTL

(* No request asks the chip to delete an enabled profile, unless the       *)
(* profile is in doubt: the row is read again under the mutex of the modem,*)
(* after everyone who could enable the profile has listed it.              *)
THEOREM OnlyDisabledAreDeleted == Spec => []DeletesDisabledOnly
<1>1. IInv3 => DeletesDisabledOnly
  BY DEF IInv3, Careful, DeletesDisabledOnly
<1> QED
  BY <1>1, DoubtsInvariance, PTL
=============================================================================
