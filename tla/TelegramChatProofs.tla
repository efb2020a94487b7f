------------------------- MODULE TelegramChatProofs -------------------------
(* Every safety property of TelegramChat and Ussd, for any modems, words,  *)
(* dialogues and capacities.  Types; a confirmed summary is sent as it was *)
(* shown, and once: the confirm button names no summary, so this rests on  *)
(* what the session, the summary and one that is on its way have to do with*)
(* each other (SummaryOfSession, Pending, Unsent).  A word is taken for    *)
(* what the bot asked last, unless questions crossed, and the question of  *)
(* the network is on its way until it is asked (Conversation).  The history*)
(* holds what the provider heard last, once the runner has caught up and   *)
(* could write it (CaughtUp).                                              *)
EXTENDS TelegramChat, TLAPS, SequenceTheorems, WellFoundedInduction

SubEvents == {"sms", None} \cup States
Steps     == {"modem", "peer", "text", "confirm", "response"}
Row       == [st : {"active", "user_response", "terminated", "failed"}, of : SUBSET Dialogues]

-----------------------------------------------------------------------------
(* Ussd: the provider and the rows.                                         *)
LEMMA UssdTyped ==
    ASSUME UssdTypeOK
    PROVE  /\ mm.st \in {"idle", "active", "user_response"} /\ mm.n \in 0..MaxDialogues
           /\ mm.call \in {"none", "waiting", "answered", "failed"}
           /\ entry \in Snapshot /\ events \in Seq(Snapshot) /\ Len(events) \in Nat
           /\ Len(events) <= QueueCap /\ QueueCap \in Nat /\ MaxDialogues \in Nat
           /\ rows \in Seq(Row) /\ unwritten \subseteq Writes
BY UssdAssumption, LenProperties DEF UssdTypeOK, States, Row

LEMMA MergedTyped ==
    ASSUME entry \in Snapshot, NEW changed \in Snapshot
    PROVE  Merged(changed) \in Snapshot
<1>1. DOMAIN entry = {"st", "req", "note"}
  BY DEF Snapshot
<1>2. Merged(changed) = [st   |-> IF changed.st # None THEN changed.st ELSE entry.st,
                         req  |-> IF changed.req # None THEN changed.req ELSE entry.req,
                         note |-> IF changed.note # None THEN changed.note ELSE entry.note]
  BY <1>1 DEF Merged
<1> QED
  BY <1>2 DEF Snapshot

LEMMA PropsTyped ==
    ASSUME UssdTypeOK, NEW changed \in Snapshot, OnUSSDPropsChanged(changed)
    PROVE  /\ entry' \in Snapshot /\ events' \in Seq(Snapshot) /\ Len(events') <= QueueCap
           /\ lost' \in BOOLEAN /\ UNCHANGED <<rows, unwritten>>
<1>1. entry' \in Snapshot
  BY MergedTyped, UssdTyped DEF OnUSSDPropsChanged
<1>2. /\ Append(events, entry') \in Seq(Snapshot)
      /\ Len(Append(events, entry')) = Len(events) + 1
  BY <1>1, UssdTyped, AppendProperties
<1>3. /\ events' = (IF Len(events) < QueueCap THEN Append(events, entry') ELSE events)
      /\ lost' = ~(Len(events) < QueueCap) /\ UNCHANGED <<rows, unwritten>>
  BY DEF OnUSSDPropsChanged
<1>4. events' \in Seq(Snapshot) /\ Len(events') <= QueueCap
  BY <1>2, <1>3, UssdTyped
<1> QED
  BY <1>1, <1>3, <1>4

\* ModemManager signals a change of its dialogue.
Signalled == /\ entry' \in Snapshot /\ events' \in Seq(Snapshot) /\ Len(events') <= QueueCap
             /\ lost' \in BOOLEAN /\ UNCHANGED <<rows, unwritten>>

LEMMA PublishedTyped ==
    ASSUME UssdTypeOK, NEW st \in States, Published(st)
    PROVE  Signalled
<1>1. [Unknown EXCEPT !.st = st] \in Snapshot
  BY DEF Unknown, Snapshot
<1> QED
  BY <1>1, PropsTyped DEF Published, Signalled

LEMMA RequestedTyped ==
    ASSUME UssdTypeOK, NEW st \in States, NEW n \in Dialogues,
           Requested(st, n)
    PROVE  Signalled
<1>1. [Unknown EXCEPT !.st = st, !.req = n] \in Snapshot
  BY DEF Unknown, Snapshot
<1> QED
  BY <1>1, PropsTyped DEF Requested, Signalled

LEMMA NotifiedTyped ==
    ASSUME UssdTypeOK, NEW n \in Dialogues,
           OnUSSDPropsChanged([Unknown EXCEPT !.note = n])
    PROVE  Signalled
<1>1. [Unknown EXCEPT !.note = n] \in Snapshot
  BY DEF Unknown, Snapshot
<1> QED
  BY <1>1, PropsTyped DEF Signalled

DialogueType == [st : {"idle", "active", "user_response"}, n : 0..MaxDialogues,
                 call : {"none", "waiting", "answered", "failed"}]

LEMMA CallTyped ==
    ASSUME UssdTypeOK, NEW result \in {"answered", "failed"}
    PROVE  /\ CallIs(result) \in {"none", "waiting", "answered", "failed"}
           /\ mm.call = "none" => CallIs(result) = "none"
BY UssdTyped DEF CallIs

\* A request that the bot makes, or the web page: only the bot's is its call.
LEMMA RequestTyped ==
    ASSUME UssdTypeOK, NEW who \in {"bot", "web"}, Begins(who) \/ Responds(who)
    PROVE  /\ UssdTypeOK'
           /\ who = "web" => mm'.call = mm.call
<1>1. CASE Begins(who)
  <2>1. /\ mm.n < MaxDialogues /\ Published("active")
        /\ mm' = [st |-> "active", n |-> mm.n + 1,
                  call |-> IF who = "bot" THEN "waiting" ELSE mm.call]
    BY <1>1 DEF Begins
  <2>2. mm.n + 1 \in 0..MaxDialogues /\ mm.n + 1 \in Dialogues
    BY <2>1, UssdTyped DEF Dialogues
  <2>3. mm' \in DialogueType /\ mm'.n \in Dialogues
    BY <2>1, <2>2, UssdTyped DEF DialogueType
  <2>4. Signalled
    BY <2>1, PublishedTyped DEF States
  <2> QED
    BY <2>1, <2>3, <2>4 DEF UssdTypeOK, States, DialogueType, Signalled
<1>2. CASE Responds(who)
  <2>1. /\ Published("active")
        /\ mm' = [mm EXCEPT !.st = "active", !.call = IF who = "bot" THEN "waiting" ELSE @]
    BY <1>2 DEF Responds
  <2>2. mm' \in DialogueType /\ mm'.n \in Dialogues /\ (who = "web" => mm'.call = mm.call)
    BY <1>2, <2>1 DEF Responds, DialogueType, UssdTypeOK, States
  <2>3. Signalled
    BY <2>1, PublishedTyped DEF States
  <2> QED
    BY <2>2, <2>3 DEF UssdTypeOK, States, DialogueType, Signalled
<1> QED
  BY <1>1, <1>2

\* The network moves the dialogue, or it ends.
LEMMA NetworkTyped ==
    ASSUME UssdTypeOK, NetworkStep \/ Ends
    PROVE  /\ UssdTypeOK'
           /\ mm.call = "none" => mm'.call = "none"
<1>1. ASSUME NEW st \in {"idle", "active", "user_response"}, NEW n \in 0..MaxDialogues,
             NEW call \in {"none", "waiting", "answered", "failed"},
             mm' = [st |-> st, n |-> n, call |-> call], st # "idle" => n \in Dialogues,
             mm.call = "none" => call = "none", Signalled
      PROVE  UssdTypeOK' /\ (mm.call = "none" => mm'.call = "none")
  BY <1>1 DEF UssdTypeOK, States, Signalled
<1>2. CASE NetworkAsks
  <2>1. /\ mm' = [st |-> "user_response", n |-> mm.n, call |-> CallIs("answered")]
        /\ Requested("user_response", mm.n) /\ mm.n \in Dialogues
    BY <1>2 DEF NetworkAsks, UssdTypeOK
  <2> QED
    BY <1>1, <2>1, RequestedTyped, CallTyped, UssdTyped DEF States
<1>3. CASE NetworkAnswers
  <2>1. /\ mm' = [st |-> "idle", n |-> mm.n, call |-> CallIs("answered")]
        /\ Published("idle")
    BY <1>3 DEF NetworkAnswers, UssdTypeOK
  <2> QED
    BY <1>1, <2>1, PublishedTyped, CallTyped, UssdTyped DEF States
<1>4. CASE Ends
  <2>1. /\ mm' = [st |-> "idle", n |-> mm.n, call |-> CallIs("failed")]
        /\ Published("idle") \/ Published("unknown")
    BY <1>4 DEF Ends, UssdTypeOK
  <2>2. Signalled
    BY <2>1, PublishedTyped DEF States
  <2> QED
    BY <1>1, <2>1, <2>2, CallTyped, UssdTyped
<1>5. CASE NetworkStarts
  <2>1. /\ mm' = [st |-> "user_response", n |-> mm.n + 1, call |-> mm.call]
        /\ Requested("user_response", mm.n + 1) /\ mm.n < MaxDialogues
    BY <1>5 DEF NetworkStarts, UssdTypeOK
  <2>2. mm.n + 1 \in Dialogues /\ mm.n + 1 \in 0..MaxDialogues
    BY <2>1, UssdTyped DEF Dialogues
  <2> QED
    BY <1>1, <2>1, <2>2, RequestedTyped, UssdTyped DEF States
<1>6. CASE NetworkNotifies
  <2>1. /\ mm' = [st |-> "idle", n |-> mm.n + 1, call |-> mm.call] /\ mm.n < MaxDialogues
        /\ OnUSSDPropsChanged([Unknown EXCEPT !.note = mm.n + 1])
    BY <1>6 DEF NetworkNotifies, UssdTypeOK
  <2>2. mm.n + 1 \in Dialogues /\ mm.n + 1 \in 0..MaxDialogues
    BY <2>1, UssdTyped DEF Dialogues
  <2> QED
    BY <1>1, <2>1, <2>2, NotifiedTyped, UssdTyped
<1> QED
  BY <1>2, <1>3, <1>4, <1>5, <1>6 DEF NetworkStep

\* What the runner writes are rows.
LEMMA PersistedTyped ==
    ASSUME NEW rs \in Seq(Row), NEW ev \in Snapshot, NEW failed
    PROVE  Persisted(rs, ev, failed) \in Seq(Row)
<1>1. ASSUME NEW r \in Seq(Row), NEW t \in Dialogues \cup {None}
      PROVE  AppendUSSD(r, t) \in Seq(Row)
  <2>1. CASE t = None
    BY <2>1 DEF AppendUSSD
  <2>2. CASE t # None /\ OpenIn(r) = {}
    <3>1. [st |-> "active", of |-> {t}] \in Row
      BY <2>2 DEF Row
    <3> QED
      BY <2>2, <3>1, AppendProperties DEF AppendUSSD
  <2>3. CASE t # None /\ OpenIn(r) # {}
    <3> DEFINE j == Max(OpenIn(r))
    <3>1. AppendUSSD(r, t) = [r EXCEPT ![j].of = @ \cup {t}]
      BY <2>3 DEF AppendUSSD
    <3> HIDE DEF j
    <3>2. CASE j \in DOMAIN r
      <4>1. r[j] \in Row /\ j \in 1..Len(r)
        BY <3>2, ElementOfSeq, LenProperties
      <4>2. [r[j] EXCEPT !.of = @ \cup {t}] \in Row
        BY <2>3, <4>1 DEF Row
      <4>3. AppendUSSD(r, t) = [r EXCEPT ![j] = [r[j] EXCEPT !.of = @ \cup {t}]]
        BY <3>1
      <4> QED
        BY <4>1, <4>2, <4>3, ExceptSeq
    <3>3. CASE j \notin DOMAIN r
      <4>1. [r EXCEPT ![j].of = @ \cup {t}] = r
        BY <3>3, SeqDef
      <4> QED
        BY <3>1, <4>1
    <3> QED
      BY <3>2, <3>3
  <2> QED
    BY <2>1, <2>2, <2>3
<1>2. ASSUME NEW r \in Seq(Row), NEW st \in {"active", "user_response", "terminated", "failed"}
      PROVE  SetUSSDState(r, st) \in Seq(Row)
  <2>1. /\ r \in [1..Len(r) -> Row] /\ Len(r) \in Nat /\ DOMAIN r = 1..Len(r)
    BY LenProperties
  <2>2. SetUSSDState(r, st) \in [1..Len(r) -> Row]
    BY <2>1 DEF SetUSSDState, Open, Row
  <2> QED
    BY <2>1, <2>2, SeqDef
<1>3. /\ ev.req \in Dialogues \cup {None} /\ ev.note \in Dialogues \cup {None}
      /\ mapUSSDDBState(ev.st) \in {"active", "user_response", "terminated", "failed"}
  BY UssdAssumption DEF Snapshot, States, mapUSSDDBState
<1> DEFINE r1 == IF "request" \in failed THEN rs ELSE AppendUSSD(rs, ev.req)
           r2 == IF "notification" \in failed THEN r1 ELSE AppendUSSD(r1, ev.note)
<1>4. r1 \in Seq(Row)
  BY <1>1, <1>3
<1> HIDE DEF r1
<1>5. r2 \in Seq(Row)
  BY <1>1, <1>3, <1>4
<1> HIDE DEF r2
<1>6. Persisted(rs, ev, failed)
        = IF "state" \in failed THEN r2 ELSE SetUSSDState(r2, mapUSSDDBState(ev.st))
  BY DEF Persisted, r1, r2
<1> QED
  BY <1>2, <1>3, <1>5, <1>6

-----------------------------------------------------------------------------
(* The invariant.                                                           *)
\* The summary in front of the user is that of the session.
SummaryOfSession ==
    (summary # None /\ session # None /\ session.kind = "send") => Shown(session) = summary

\* A summary that was confirmed is being sent, or its session is over.
Unsent == sends \in {0, 1} /\ (sends = 1 => session = None \/ handler.do = "send")

\* While the bot asks there is nothing to confirm, and a summary that is on
\* its way is that of the session.
Pending ==
    /\ handler.do \in {"pick", "prompt"} => summary = None /\ sends = 0
    /\ (handler.do = "prompt" /\ session # None /\ handler.shows # None) =>
         session.kind = "send" /\ Shown(session) = handler.shows

Promises == SummaryOfSession /\ Unsent /\ Pending /\ ConfirmedAsShown

IInv == TypeOK /\ Promises

LEMMA ChatTyped ==
    ASSUME TypeOK
    PROVE  /\ UssdTypeOK /\ session \in Session \cup {None}
           /\ session # None =>
                /\ session \in Session
                /\ session.kind \in {"send", "ussd"} /\ session.step \in Steps
                /\ session.dev \in Devs \cup {None}
           /\ sub \in Seq(SubEvents) /\ Len(sub) \in Nat /\ Len(sub) <= SubCap /\ SubCap \in Nat \ {0}
           /\ latest \in Questions \cup {None} /\ sends \in Nat
           /\ neat \in BOOLEAN /\ astray \in BOOLEAN /\ unheard \in BOOLEAN
           /\ loop \in {"idle", "sms", "ussd", "prompt"} /\ pushed \in {"no", "visible", "recorded"}
           /\ \/ handler = Free /\ handler.do = "nothing"
              \/ handler.do \in {"pick", "prompt", "send", "direct", "initiate", "respond"}
           /\ handler.do = "prompt" => handler.q \in Questions
           /\ handler.do \notin {"initiate", "respond"} => mm.call = "none"
BY ChatAssumption, LenProperties DEF TypeOK, Session, Steps, SubEvents, Free, UssdTypeOK

LEMMA InitHolds == Init => IInv
<1> SUFFICES ASSUME Init PROVE IInv
  OBVIOUS
<1> USE UssdAssumption, ChatAssumption
<1>1. events \in Seq(Snapshot) /\ Len(events) <= QueueCap /\ rows \in Seq(Row)
  BY EmptySeq DEF Init, UssdInit
<1>2. sub \in Seq(SubEvents) /\ Len(sub) <= SubCap
  BY EmptySeq DEF Init, ChatInit
<1>3. mm = [st |-> "idle", n |-> 0, call |-> "none"] /\ 0 \in 0..MaxDialogues
  BY DEF Init, UssdInit
<1>7. Unknown \in Snapshot /\ mm \in DialogueType /\ mm.st = "idle"
  BY <1>3 DEF Unknown, Snapshot, DialogueType
<1>4. UssdTypeOK
  BY <1>1, <1>7 DEF Init, UssdInit, UssdTypeOK, DialogueType, States, Row
<1>5. TypeOK
  BY <1>2, <1>3, <1>4 DEF Init, ChatInit, TypeOK, SubEvents, Free
<1>6. Promises
  BY DEF Init, ChatInit, Promises, SummaryOfSession, Unsent, Pending, ConfirmedAsShown, Free
<1> QED
  BY <1>5, <1>6 DEF IInv

-----------------------------------------------------------------------------
(* What handleUpdate does to the session.                                   *)
LEMMA FreshTyped ==
    ASSUME NEW kind \in {"send", "ussd"}
    PROVE  Fresh(kind) \in Session
BY UssdAssumption DEF Fresh, Session

\* UssdTypeOK is about the variables of Ussd.
LEMMA UssdUnchanged ==
    ASSUME UssdTypeOK, UNCHANGED ussdVars
    PROVE  UssdTypeOK' /\ UNCHANGED mm
BY DEF UssdTypeOK, ussdVars

\* The bot asks a question, and what it shows is the summary of the session.
LEMMA AsksKeeps ==
    ASSUME IInv, handler.do \in {"nothing", "pick"}, neat' \in BOOLEAN, UNCHANGED pushVars,
           NEW s \in Session \cup {None}, NEW q \in Questions, NEW shows, Asks(s, q, shows),
           (s # None /\ shows # None) => s.kind = "send" /\ Shown(s) = shows
    PROVE  IInv'
<1>1. /\ session' = s /\ latest' = None /\ summary' = None /\ sends' = 0
      /\ handler'.do = "prompt" /\ handler'.q = q /\ handler'.shows = shows
      /\ astray' \in BOOLEAN /\ UNCHANGED ussdVars
  BY DEF Asks
<1>2. UssdTypeOK' /\ UNCHANGED mm /\ mm.call = "none"
  BY <1>1, UssdUnchanged, ChatTyped DEF IInv
<1>3. TypeOK'
  BY <1>1, <1>2 DEF IInv, TypeOK, pushVars
<1>4. Promises'
  BY <1>1 DEF Promises, SummaryOfSession, Unsent, Pending, ConfirmedAsShown
<1> QED
  BY <1>3, <1>4 DEF IInv

\* The bot asks nothing, and the conversation ends or stays as it is.
LEMMA AnswersKeeps ==
    ASSUME IInv, handler = Free, neat' \in BOOLEAN, UNCHANGED pushVars,
           NEW s \in {None, session}, Answers(s)
    PROVE  IInv'
<1>1. /\ session' = s /\ latest' \in {None, latest} /\ summary' = None /\ sends' = 0
      /\ handler' = Free /\ handler'.do = "nothing" /\ astray' \in BOOLEAN /\ UNCHANGED ussdVars
  BY DEF Answers, Converse, Free
<1>2. UssdTypeOK' /\ UNCHANGED mm /\ mm.call = "none"
  BY <1>1, UssdUnchanged, ChatTyped DEF IInv, Free
<1>3. TypeOK'
  BY <1>1, <1>2 DEF IInv, TypeOK, pushVars
<1>4. Promises'
  BY <1>1 DEF Promises, SummaryOfSession, Unsent, Pending, ConfirmedAsShown
<1> QED
  BY <1>3, <1>4 DEF IInv

\* The confirm button of a session for an SMS.
LEMMA ConfirmKeeps ==
    ASSUME IInv, handler = Free, neat' \in BOOLEAN, UNCHANGED pushVars,
           session # None, session.kind = "send",
           Sends([do |-> "send", dev |-> session.dev, peer |-> session.peer, text |-> session.text]),
           sends' = IF summary = None THEN sends ELSE sends + 1,
           UNCHANGED summary
    PROVE  IInv'
<1>1. /\ handler'.do = "send" /\ Shown(handler') = Shown(session)
      /\ UNCHANGED <<ussdVars, session, latest, astray>>
  BY DEF Sends, Shown
<1>2. sends = 0 /\ mm.call = "none"
  BY ChatTyped DEF IInv, Promises, Unsent, Free
<1>3. sends' \in {0, 1}
  BY <1>2
<1>4. UssdTypeOK' /\ UNCHANGED mm
  BY <1>1, UssdUnchanged, ChatTyped DEF IInv
<1>5. TypeOK'
  BY <1>1, <1>2, <1>3, <1>4 DEF IInv, TypeOK, pushVars
<1>6. Promises'
  BY <1>1, <1>3 DEF IInv, Promises, SummaryOfSession, Unsent, Pending, ConfirmedAsShown, Shown
<1> QED
  BY <1>5, <1>6 DEF IInv

\* Any other call: nothing is left to confirm.
LEMMA CallKeeps ==
    ASSUME IInv, neat' \in BOOLEAN, UNCHANGED pushVars,
           session' \in Session \cup {None}, UNCHANGED <<latest, astray>>,
           summary' = None, sends' = 0,
           UssdTypeOK', handler'.do \in {"direct", "initiate", "respond"},
           handler'.do = "direct" => mm'.call = "none"
    PROVE  IInv'
<1>1. TypeOK'
  BY DEF IInv, TypeOK, pushVars
<1>2. Promises'
  BY DEF Promises, SummaryOfSession, Unsent, Pending, ConfirmedAsShown
<1> QED
  BY <1>1, <1>2 DEF IInv

LEMMA ExecuteKeeps ==
    ASSUME IInv, handler = Free, neat' \in BOOLEAN, UNCHANGED pushVars,
           NEW s \in Session, ExecuteUSSD(s)
    PROVE  IInv'
<1>1. CASE s.dev = UssdDev /\ mm.st = "idle"
  <2>1. /\ session' = [s EXCEPT !.started = mm.n + 1] /\ handler' = [do |-> "initiate"]
        /\ summary' = None /\ sends' = 0 /\ UNCHANGED <<latest, astray>>
        /\ Begins("bot")
    BY <1>1 DEF ExecuteUSSD
  <2>2. mm.n + 1 \in 0..MaxDialogues
    BY <2>1, UssdTyped DEF Begins, IInv, TypeOK
  <2>3. session' \in Session
    BY <2>1, <2>2 DEF Session
  <2>4. UssdTypeOK'
    BY <2>1, RequestTyped DEF IInv, TypeOK
  <2> QED
    BY <2>1, <2>3, <2>4, CallKeeps
<1>2. CASE ~(s.dev = UssdDev /\ mm.st = "idle")
  <2>1. Answers(None)
    BY <1>2 DEF ExecuteUSSD, Begins
  <2> QED
    BY <2>1, AnswersKeeps
<1> QED
  BY <1>1, <1>2

-----------------------------------------------------------------------------
(* The updates.                                                             *)
LEMMA InputsKeeps ==
    ASSUME IInv, NEW w \in Words, Takes(TRUE), Inputs(w)
    PROVE  IInv'
<1>1. handler = Free /\ handler.do = "nothing" /\ neat' \in BOOLEAN /\ UNCHANGED pushVars
  BY DEF Takes, Free
<1> USE ChatTyped DEF IInv
<1>2. CASE session = None
  <2>1. Answers(None)
    BY <1>2 DEF Inputs
  <2> QED
    BY <1>1, <2>1, AnswersKeeps
<1>3. ASSUME session # None, session.step = "peer" PROVE IInv'
  <2>1. [session EXCEPT !.peer = w, !.step = "text"] \in Session
    BY <1>3 DEF Session
  <2>2. Asks([session EXCEPT !.peer = w, !.step = "text"], "text", None)
    BY <1>3 DEF Inputs
  <2> QED
    BY <1>1, <2>1, <2>2, AsksKeeps DEF Questions
<1>4. ASSUME session # None, session.step = "text", session.kind = "send" PROVE IInv'
  <2> DEFINE s == [session EXCEPT !.text = w, !.step = "confirm"]
  <2>1. s \in Session /\ s.kind = "send"
    BY <1>4 DEF Session
  <2>2. Summarise(s)
    BY <1>4 DEF Inputs
  <2> HIDE DEF s
  <2> QED
    BY <1>1, <2>1, <2>2, AsksKeeps DEF Summarise, Questions
<1>5. ASSUME session # None, session.step = "text", session.kind = "ussd" PROVE IInv'
  <2> DEFINE s == [session EXCEPT !.text = w, !.step = "confirm"]
  <2>1. s \in Session
    BY <1>5 DEF Session
  <2>2. ExecuteUSSD(s)
    BY <1>5 DEF Inputs
  <2> HIDE DEF s
  <2> QED
    BY <1>1, <2>1, <2>2, ExecuteKeeps
<1>6. ASSUME session # None, session.step = "response" PROVE IInv'
  <2>1. CASE mm.st = "user_response"
    <3>1. /\ Responds("bot") /\ handler' = [do |-> "respond"]
          /\ summary' = None /\ sends' = 0 /\ UNCHANGED <<session, latest, astray>>
      BY <1>6, <2>1 DEF Inputs
    <3>2. UssdTypeOK'
      BY <3>1, RequestTyped
    <3> QED
      BY <1>1, <3>1, <3>2, CallKeeps
  <2>2. CASE mm.st # "user_response"
    <3>1. Answers(None)
      BY <1>6, <2>2 DEF Inputs
    <3> QED
      BY <1>1, <3>1, AnswersKeeps
  <2> QED
    BY <2>1, <2>2
<1>7. ASSUME session # None, session.step \in {"modem", "confirm"} PROVE IInv'
  <2>1. Answers(session)
    BY <1>7 DEF Inputs
  <2> QED
    BY <1>1, <2>1, AnswersKeeps
<1> QED
  BY <1>2, <1>3, <1>4, <1>5, <1>6, <1>7 DEF Steps

\* A modem is picked, and then the step moves on.
LEMMA PickKeeps ==
    ASSUME IInv, OnPickModem \/ PickMoves
    PROVE  IInv'
<1> USE ChatTyped DEF IInv
<1>1. CASE OnPickModem
  <2>1. PICK prefix \in {"send", "ussd"}, d \in Devs :
          /\ Takes(latest = prefix)
          /\ IF session = None THEN Answers(None)
             ELSE /\ session' = [session EXCEPT !.dev = d, !.started = 0]
                  /\ handler' = [do |-> "pick", prefix |-> prefix]
                  /\ latest' = None /\ summary' = None /\ sends' = 0
                  /\ UNCHANGED <<ussdVars, astray>>
    BY <1>1 DEF OnPickModem
  <2>2. handler = Free /\ handler.do = "nothing" /\ neat' \in BOOLEAN /\ UNCHANGED pushVars
    BY <2>1 DEF Takes, Free
  <2>3. CASE session = None
    BY <2>1, <2>2, <2>3, AnswersKeeps
  <2>4. CASE session # None
    <3> DEFINE s == [session EXCEPT !.dev = d, !.started = 0]
    <3>5. s \in Session
      <4>1. session \in Session /\ 0 \in 0..MaxDialogues
        BY <2>4, UssdAssumption
      <4> QED
        BY <4>1 DEF Session
    <3>1. /\ session' = s /\ handler'.do = "pick"
          /\ latest' = None /\ summary' = None /\ sends' = 0 /\ UNCHANGED <<ussdVars, astray>>
      BY <2>1, <2>4
    <3> HIDE DEF s
    <3>2. UssdTypeOK' /\ UNCHANGED mm /\ mm.call = "none"
      BY <2>2, <3>1, UssdUnchanged
    <3>3. TypeOK'
      BY <2>2, <3>1, <3>2, <3>5 DEF TypeOK, pushVars
    <3>4. Promises'
      BY <3>1 DEF Promises, SummaryOfSession, Unsent, Pending, ConfirmedAsShown
    <3> QED
      BY <3>3, <3>4
  <2> QED
    BY <2>3, <2>4
<1>2. CASE PickMoves
  <2>1. /\ handler.do = "pick" /\ neat' \in BOOLEAN /\ UNCHANGED pushVars
        /\ \E step \in {"peer", "text"}, q \in {"peer", "command"} :
             Asks(IF session = None THEN None ELSE [session EXCEPT !.step = step], q, None)
    BY <1>2 DEF PickMoves
  <2>2. PICK step \in {"peer", "text"}, q \in {"peer", "command"} :
             Asks(IF session = None THEN None ELSE [session EXCEPT !.step = step], q, None)
    BY <2>1
  <2> DEFINE s == IF session = None THEN None ELSE [session EXCEPT !.step = step]
  <2>3. s \in Session \cup {None} /\ q \in Questions
    BY DEF Session, Questions
  <2>4. Asks(s, q, None)
    BY <2>2
  <2> HIDE DEF s
  <2> QED
    BY <2>1, <2>3, <2>4, AsksKeeps
<1> QED
  BY <1>1, <1>2

\* A prompt is there, or could not be sent.
LEMMA PromptKeeps ==
    ASSUME IInv, PromptArrives \/ PromptFails
    PROVE  IInv'
<1>1. /\ handler.do = "prompt" /\ handler' = Free /\ Free.do = "nothing"
      /\ UNCHANGED <<ussdVars, session, sends, pushVars, neat>> /\ astray' \in BOOLEAN
      /\ latest' \in {None, latest, handler.q} /\ summary' \in {summary, handler.shows}
  <2>1. Free.do = "nothing"
    BY DEF Free
  <2> QED
    BY <2>1, ChatTyped DEF PromptArrives, PromptFails, IInv
<1>2. UssdTypeOK' /\ UNCHANGED mm /\ mm.call = "none"
  BY <1>1, UssdUnchanged, ChatTyped DEF IInv
<1>3. TypeOK'
  BY <1>1, <1>2, ChatTyped DEF IInv, TypeOK, pushVars
<1>4. sends = 0 /\ summary = None
  BY <1>1 DEF IInv, Promises, Pending
<1>5. SummaryOfSession'
  BY <1>1, <1>4 DEF IInv, Promises, Pending, SummaryOfSession, Shown
<1>6. Unsent' /\ Pending' /\ ConfirmedAsShown'
  BY <1>1, <1>4 DEF Unsent, Pending, ConfirmedAsShown
<1> QED
  BY <1>3, <1>5, <1>6 DEF IInv, Promises

LEMMA UpdateKeeps ==
    ASSUME IInv, HandleUpdate
    PROVE  IInv'
<1> USE ChatTyped DEF IInv
<1>1. CASE CmdWizard
  <2>1. PICK kind \in {"send", "ussd"} :
          handler = Free /\ neat' = TRUE /\ UNCHANGED pushVars /\ Asks(Fresh(kind), kind, None)
    BY <1>1 DEF CmdWizard
  <2>2. handler.do = "nothing" /\ kind \in Questions
    BY <2>1 DEF Free, Questions
  <2> QED
    BY <2>1, <2>2, FreshTyped, AsksKeeps
<1>2. CASE CmdCancel
  BY <1>2, AnswersKeeps DEF CmdCancel, Takes
<1>3. CASE OnPickModem \/ PickMoves
  BY <1>3, PickKeeps
<1>4. CASE OnConfirmSend
  <2>1. handler = Free /\ neat' \in BOOLEAN /\ UNCHANGED pushVars
    BY <1>4 DEF OnConfirmSend, Takes
  <2>2. CASE session = None
    BY <1>4, <2>1, <2>2, AnswersKeeps DEF OnConfirmSend
  <2>3. CASE session # None /\ session.kind = "send"
    BY <1>4, <2>1, <2>3, ConfirmKeeps DEF OnConfirmSend
  <2>4. CASE session # None /\ session.kind # "send"
    BY <1>4, <2>1, <2>4, ExecuteKeeps DEF OnConfirmSend
  <2> QED
    BY <2>2, <2>3, <2>4
<1>5. CASE HandleWord
  BY <1>5, InputsKeeps DEF HandleWord
<1>6. CASE HandleReply
  <2>1. PICK w \in Words : Takes(TRUE) /\ (DirectReply(w) \/ Inputs(w))
    BY <1>6 DEF HandleReply
  <2>2. CASE DirectReply(w)
    <3>1. /\ handler'.do = "direct" /\ summary' = None /\ sends' = 0
          /\ UNCHANGED <<ussdVars, session, latest, astray>>
      BY <2>2 DEF DirectReply, Sends
    <3>2. UssdTypeOK' /\ mm'.call = "none"
      <4>1. handler.do = "nothing"
        BY <2>1 DEF Takes, Free
      <4> QED
        BY <3>1, <4>1, UssdUnchanged
    <3>3. neat' \in BOOLEAN /\ UNCHANGED pushVars
      BY <2>1 DEF Takes
    <3> QED
      BY <3>1, <3>2, <3>3, CallKeeps
  <2> QED
    BY <2>1, <2>2, InputsKeeps
<1>7. CASE PromptArrives \/ PromptFails
  BY <1>7, PromptKeeps
<1> QED
  BY <1>1, <1>2, <1>3, <1>4, <1>5, <1>6, <1>7 DEF HandleUpdate

-----------------------------------------------------------------------------
(* Calls return, and time passes.                                           *)
LEMMA ExpiresKeeps ==
    ASSUME IInv, Expires
    PROVE  IInv'
<1>1. /\ session' = None /\ latest' = None /\ neat' = TRUE /\ astray' = FALSE
      /\ UNCHANGED <<ussdVars, handler, summary, sends, pushVars>>
  BY DEF Expires, Converse
<1>2. UssdTypeOK' /\ UNCHANGED mm
  BY <1>1, UssdUnchanged, ChatTyped DEF IInv
<1>3. TypeOK'
  BY <1>1, <1>2 DEF IInv, TypeOK, pushVars
<1>4. Promises'
  BY <1>1 DEF IInv, Promises, SummaryOfSession, Unsent, Pending, ConfirmedAsShown, Shown
<1> QED
  BY <1>3, <1>4 DEF IInv

\* The session ends or stays; after a confirmed SMS it ends.
LEMMA ReturnsKeeps ==
    ASSUME IInv, NEW s \in {None, session}, Returns(s), UssdTypeOK', mm'.call = "none",
           handler.do = "send" => s = None
    PROVE  IInv'
<1>1. /\ handler' = Free /\ handler'.do = "nothing" /\ session' = s
      /\ latest' \in {None, latest} /\ neat' \in BOOLEAN /\ astray' \in BOOLEAN
      /\ UNCHANGED <<summary, sends, pushVars>>
  BY DEF Returns, Converse, Free
<1>2. TypeOK'
  BY <1>1 DEF IInv, TypeOK, pushVars
<1>3. SummaryOfSession' /\ Pending' /\ ConfirmedAsShown'
  BY <1>1 DEF IInv, Promises, SummaryOfSession, Pending, ConfirmedAsShown, Shown
<1>4. Unsent'
  BY <1>1 DEF IInv, Promises, Unsent
<1> QED
  BY <1>2, <1>3, <1>4 DEF IInv, Promises

LEMMA CallEndsKeeps ==
    ASSUME IInv, SendReturns \/ UssdReturns \/ InitiateTimesOut
    PROVE  IInv'
<1>1. CASE SendReturns
  <2>1. UssdTypeOK' /\ mm'.call = "none"
    <3>1. UNCHANGED ussdVars /\ handler.do \in {"send", "direct"}
      BY <1>1 DEF SendReturns
    <3> QED
      BY <3>1, UssdUnchanged, ChatTyped DEF IInv
  <2> QED
    BY <1>1, <2>1, ReturnsKeeps DEF SendReturns
<1>2. CASE UssdReturns \/ InitiateTimesOut
  <2>1. /\ mm' = [mm EXCEPT !.call = "none"]
        /\ UNCHANGED <<entry, events, rows, lost, unwritten>>
        /\ handler.do # "send"
    BY <1>2 DEF UssdReturns, InitiateTimesOut
  <2>2. UssdTypeOK' /\ mm'.call = "none"
    BY <2>1 DEF IInv, TypeOK, UssdTypeOK
  <2> QED
    BY <1>2, <2>1, <2>2, ReturnsKeeps DEF UssdReturns, InitiateTimesOut
<1> QED
  BY <1>1, <1>2

-----------------------------------------------------------------------------
(* The dialogue, the runner and the push loop.                              *)
\* The promises are about the conversation alone.
LEMMA PromisesKept ==
    ASSUME IInv, UNCHANGED <<session, handler, summary, sends>>
    PROVE  Promises'
BY DEF IInv, Promises, SummaryOfSession, Unsent, Pending, ConfirmedAsShown, Shown

LEMMA DialogueKeeps ==
    ASSUME IInv, DialogueMoves
    PROVE  IInv'
<1>1. UNCHANGED <<botVars, pushVars, neat>>
  BY DEF DialogueMoves
<1>2. UssdTypeOK' /\ (mm.call = "none" => mm'.call = "none")
  BY RequestTyped, NetworkTyped DEF DialogueMoves, IInv, TypeOK
<1>3. TypeOK'
  BY <1>1, <1>2 DEF IInv, TypeOK, botVars, pushVars
<1> QED
  BY <1>1, <1>3, PromisesKept DEF IInv, botVars

LEMMA RunnerKeeps ==
    ASSUME IInv, RunnerStep
    PROVE  IInv'
<1>1. /\ events # <<>> /\ events' = Tail(events)
      /\ Hears(Head(events).st) /\ UNCHANGED <<mm, entry, lost, botVars, loop, pushed, neat>>
  BY DEF RunnerStep
<1>2. /\ events' \in Seq(Snapshot) /\ Len(events') <= QueueCap /\ Head(events) \in Snapshot
  <2>1. /\ Tail(events) \in Seq(Snapshot) /\ Len(Tail(events)) = Len(events) - 1
        /\ Head(events) \in Snapshot
    BY <1>1, UssdTyped, HeadTailProperties DEF IInv, TypeOK
  <2> QED
    BY <1>1, <2>1, UssdTyped DEF IInv, TypeOK
<1>3. rows' \in Seq(Row) /\ unwritten' \subseteq Writes
  <2>1. PICK failed \in SUBSET Writes : /\ rows' = Persisted(rows, Head(events), failed)
                                        /\ unwritten' = failed
    BY DEF RunnerStep
  <2> QED
    BY <1>2, <2>1, PersistedTyped, UssdTyped DEF IInv, TypeOK
<1>4. UssdTypeOK'
  BY <1>1, <1>2, <1>3 DEF IInv, TypeOK, UssdTypeOK, Row
<1>5. sub' \in Seq(SubEvents) /\ Len(sub') <= SubCap /\ unheard' \in BOOLEAN
  <2> DEFINE st == Head(events).st
  <2>1. st \in SubEvents
    BY <1>2 DEF Snapshot, SubEvents
  <2>2. /\ sub' = (IF Len(sub) < SubCap THEN Append(sub, st) ELSE sub)
        /\ unheard' = ~(Len(sub) < SubCap)
    BY <1>1 DEF Hears
  <2> HIDE DEF st
  <2>3. Append(sub, st) \in Seq(SubEvents) /\ Len(Append(sub, st)) = Len(sub) + 1
    BY <2>1, ChatTyped, AppendProperties DEF IInv
  <2> QED
    BY <2>2, <2>3, ChatTyped DEF IInv
<1>6. TypeOK'
  BY <1>1, <1>4, <1>5 DEF IInv, TypeOK, SubEvents, botVars
<1> QED
  BY <1>1, <1>6, PromisesKept DEF IInv, botVars

LEMMA SmsArrivesKeeps ==
    ASSUME IInv, SmsArrives
    PROVE  IInv'
<1>1. /\ sub' = <<"sms">>
      /\ UNCHANGED <<ussdVars, botVars, loop, pushed, neat, unheard>>
  BY DEF SmsArrives
<1>2. sub' \in Seq(SubEvents) /\ Len(sub') = 1
  BY <1>1 DEF SubEvents
<1>3. UssdTypeOK' /\ UNCHANGED mm
  BY <1>1, UssdUnchanged, ChatTyped DEF IInv
<1>4. TypeOK'
  BY <1>1, <1>2, <1>3, ChatAssumption DEF IInv, TypeOK, SubEvents, botVars
<1> QED
  BY <1>1, <1>4, PromisesKept DEF IInv, botVars

LEMMA PushLoopKeeps ==
    ASSUME IInv, PushLoop
    PROVE  IInv'
<1>1. CASE PushShows \/ PushRecords \/ PushLooks
  <2>1. /\ loop' \in {"idle", "sms", "ussd"} /\ pushed' \in {"no", "visible", "recorded"}
        /\ UNCHANGED <<ussdVars, botVars, neat, unheard>>
    BY <1>1 DEF PushShows, PushRecords, PushLooks, Loops, IInv, TypeOK
  <2>2. sub' = sub \/ (sub # <<>> /\ sub' = Tail(sub))
    BY <1>1 DEF PushShows, PushRecords, PushLooks, Loops
  <2>3. sub' \in Seq(SubEvents) /\ Len(sub') <= SubCap
    <3>1. CASE sub # <<>> /\ sub' = Tail(sub)
      <4>1. Tail(sub) \in Seq(SubEvents) /\ Len(Tail(sub)) = Len(sub) - 1
        BY <3>1, ChatTyped, HeadTailProperties DEF IInv
      <4> QED
        BY <3>1, <4>1, ChatTyped DEF IInv
    <3> QED
      BY <2>2, <3>1, ChatTyped DEF IInv
  <2>4. UssdTypeOK' /\ UNCHANGED mm
    BY <2>1, UssdUnchanged, ChatTyped DEF IInv
  <2>5. TypeOK'
    BY <2>1, <2>3, <2>4 DEF IInv, TypeOK, SubEvents, botVars
  <2> QED
    BY <2>1, <2>5, PromisesKept DEF IInv, botVars
<1>2. CASE PushAsks
  <2>1. /\ loop' = "prompt" /\ astray' \in BOOLEAN
        /\ session' = IF session = None THEN None ELSE [session EXCEPT !.step = "response"]
        /\ UNCHANGED <<ussdVars, handler, latest, summary, sends, sub, pushed, unheard, neat>>
    BY <1>2 DEF PushAsks
  <2>2. /\ session' \in Session \cup {None}
        /\ session = None => session' = None
        /\ session # None => session'.kind = session.kind /\ Shown(session') = Shown(session)
    BY <2>1, ChatTyped DEF IInv, Session, Shown
  <2>3. UssdTypeOK' /\ UNCHANGED mm
    BY <2>1, UssdUnchanged, ChatTyped DEF IInv
  <2>4. TypeOK'
    BY <2>1, <2>2, <2>3 DEF IInv, TypeOK
  <2>5. Promises'
    BY <2>1, <2>2 DEF IInv, Promises, SummaryOfSession, Unsent, Pending, ConfirmedAsShown, Shown
  <2> QED
    BY <2>4, <2>5 DEF IInv
<1>3. CASE PushPrompts
  <2>1. /\ loop' = "idle" /\ astray' \in BOOLEAN /\ latest' \in {None, "response", latest}
        /\ UNCHANGED <<ussdVars, session, handler, summary, sends, sub, pushed, unheard, neat>>
    BY <1>3, ChatTyped DEF PushPrompts, IInv
  <2>2. UssdTypeOK' /\ UNCHANGED mm
    BY <2>1, UssdUnchanged, ChatTyped DEF IInv
  <2>3. TypeOK'
    BY <2>1, <2>2 DEF IInv, TypeOK, Questions
  <2> QED
    BY <2>1, <2>3, PromisesKept DEF IInv
<1> QED
  BY <1>1, <1>2, <1>3 DEF PushLoop

LEMMA RestartKeeps ==
    ASSUME IInv, Reload \/ DaemonRestarts
    PROVE  IInv'
<1>1. /\ session' = None /\ latest' = None /\ handler' = Free
      /\ mm' = [mm EXCEPT !.call = "none"] /\ astray' = FALSE
      /\ sub' = <<>> /\ loop' = "idle" /\ unheard' = FALSE
      /\ pushed' \in {"no", "visible"}
      /\ summary' = None /\ sends' = 0 /\ neat' = TRUE
      /\ UNCHANGED rows
  BY DEF Reload, DaemonRestarts, BotRestarts, Converse
<1>2. sub' \in Seq(SubEvents) /\ Len(sub') <= SubCap
  BY <1>1, EmptySeq, ChatAssumption
<1>3. \/ UNCHANGED <<entry, events, lost, unwritten>>
      \/ entry' = Unknown /\ events' = <<>> /\ lost' = FALSE /\ unwritten' = Writes
  BY DEF Reload, DaemonRestarts
<1>4. /\ entry' \in Snapshot /\ events' \in Seq(Snapshot) /\ Len(events') <= QueueCap
      /\ lost' \in BOOLEAN /\ unwritten' \subseteq Writes
  <2>1. Unknown \in Snapshot /\ <<>> \in Seq(Snapshot) /\ Len(<<>>) = 0
    BY EmptySeq DEF Unknown, Snapshot
  <2>2. /\ entry \in Snapshot /\ events \in Seq(Snapshot) /\ Len(events) <= QueueCap
        /\ lost \in BOOLEAN /\ unwritten \subseteq Writes
    BY DEF IInv, TypeOK, UssdTypeOK
  <2>3. CASE UNCHANGED <<entry, events, lost, unwritten>>
    BY <2>2, <2>3
  <2>4. CASE entry' = Unknown /\ events' = <<>> /\ lost' = FALSE /\ unwritten' = Writes
    <3>1. 0 <= QueueCap
      BY UssdAssumption
    <3>2. lost' \in BOOLEAN
      BY <2>4
    <3> QED
      BY <2>1, <2>4, <3>1, <3>2
  <2> QED
    BY <1>3, <2>3, <2>4
<1>5. UssdTypeOK'
  BY <1>1, <1>4 DEF IInv, TypeOK, UssdTypeOK
<1>6. TypeOK'
  <2>1. mm'.call = "none"
    BY <1>1 DEF IInv, TypeOK, UssdTypeOK
  <2>2. 0 \in Nat
    OBVIOUS
  <2> QED
    BY <1>1, <1>2, <1>5, <2>1, <2>2 DEF TypeOK, SubEvents
<1>7. Promises'
  BY <1>1 DEF Promises, SummaryOfSession, Unsent, Pending, ConfirmedAsShown, Free
<1> QED
  BY <1>6, <1>7 DEF IInv

-----------------------------------------------------------------------------
LEMMA NextKeeps == IInv /\ [Next]_vars => IInv'
<1> SUFFICES ASSUME IInv, [Next]_vars PROVE IInv'
  OBVIOUS
<1>1. CASE UNCHANGED vars
  <2>1. UNCHANGED ussdVars /\ UNCHANGED botVars /\ UNCHANGED pushVars /\ UNCHANGED neat
    BY <1>1 DEF vars
  <2>2. UssdTypeOK' /\ UNCHANGED mm
    BY <2>1, UssdUnchanged, ChatTyped DEF IInv
  <2>3. UNCHANGED <<session, handler, latest, summary, sends, astray>>
    BY <2>1 DEF botVars
  <2>4. UNCHANGED <<sub, loop, pushed, unheard>>
    BY <2>1 DEF pushVars
  <2>5. TypeOK'
    BY <2>1, <2>2, <2>3, <2>4 DEF IInv, TypeOK
  <2> QED
    BY <2>3, <2>5, PromisesKept DEF IInv
<1>2. CASE Expires
  BY <1>2, ExpiresKeeps
<1>3. CASE HandleUpdate
  BY <1>3, UpdateKeeps
<1>4. CASE SendReturns \/ UssdReturns \/ InitiateTimesOut
  BY <1>4, CallEndsKeeps
<1>5. CASE DialogueMoves
  BY <1>5, DialogueKeeps
<1>6. CASE RunnerStep
  BY <1>6, RunnerKeeps
<1>7. CASE SmsArrives
  BY <1>7, SmsArrivesKeeps
<1>8. CASE PushLoop
  BY <1>8, PushLoopKeeps
<1>9. CASE Reload \/ DaemonRestarts
  BY <1>9, RestartKeeps
<1> QED
  BY <1>1, <1>2, <1>3, <1>4, <1>5, <1>6, <1>7, <1>8, <1>9 DEF Next

(* The inductive invariant holds.                                           *)
THEOREM Invariance == Spec => []IInv
<1>1. Init => IInv
  BY InitHolds
<1>2. IInv /\ [Next]_vars => IInv'
  BY NextKeeps
<1> QED
  BY <1>1, <1>2, PTL DEF Spec

(* The types of the conversation and of the dialogue: channels within their *)
(* capacity, and a call at ModemManager only while the handler waits for it.*)
THEOREM TypeCorrect == Spec => []TypeOK
<1>1. IInv => TypeOK
  BY DEF IInv
<1> QED
  BY <1>1, Invariance, PTL

(* Confirming the summary in front of the user sends what it shows, whatever*)
(* the session went through: other wizards, old keyboards, an expiry, a     *)
(* question of the network, a restart of the bot.                           *)
THEOREM SendsWhatWasConfirmed == Spec => []ConfirmedAsShown
<1>1. IInv => ConfirmedAsShown
  BY DEF IInv, Promises
<1> QED
  BY <1>1, Invariance, PTL

(* However often the same summary is confirmed, one message is sent: the    *)
(* session is gone when handleUpdate takes the next tap.                    *)
THEOREM SendsOnce == Spec => []SentOnce
<1>1. IInv => SentOnce
  BY DEF IInv, Promises, Unsent, SentOnce
<1> QED
  BY <1>1, Invariance, PTL

-----------------------------------------------------------------------------
(* What the user was asked, and the event that makes the bot ask.           *)
\* What the bot asks in this state of a session.
Question(s) == CASE s.step = "modem"    -> s.kind
                 [] s.step = "peer"     -> "peer"
                 [] s.step = "text"     -> IF s.kind = "send" THEN "text" ELSE "command"
                 [] s.step = "confirm"  -> IF s.kind = "send" THEN "summary" ELSE "command"
                 [] s.step = "response" -> "response"

\* The keyboards in front of a user who keeps to the bot are of his session.
Keyboards == (neat /\ session # None) =>
               /\ session.step = "peer" => session.kind = "send"
               /\ latest \in {"send", "ussd"} => latest = session.kind
               /\ handler.do = "pick" => handler.prefix = session.kind
               /\ (handler.do = "prompt" /\ handler.q \in {"send", "ussd"}) =>
                    handler.q = session.kind

\* Two questions are on their way: one goroutine moved the session on while
\* the other one was sending.
Crossed == (session # None /\ handler.do = "prompt" /\ loop = "prompt") => astray

\* What is on its way to him, or was put last, is what the session waits for.
Asked == (neat /\ session # None /\ ~astray) =>
           /\ handler.do = "prompt" => handler.q = Question(session)
           /\ handler.do \notin {"pick", "prompt"} =>
                IF loop = "prompt" THEN session.step = "response"
                                   ELSE latest = Question(session)

\* A session that began a dialogue is one of USSD and has its modem.
Began == session # None =>
           /\ session.started <= mm.n
           /\ session.started # 0 => session.kind = "ussd" /\ session.dev = UssdDev
           /\ handler.do = "pick" => session.started = 0

\* Only an SMS has a summary.
OnlySms == (summary # None /\ session # None) => session.kind = "send"

\* The network waits for the user of this session.
Waiting == mm.st = "user_response" /\ session # None /\ session.started = mm.n

\* Its question is put, or an event that makes the bot put it is under way,
\* or an event was dropped and none came after it.
OnItsWay ==
    Waiting =>
      \/ session.step = "response"
      \/ loop = "ussd"
      \/ \E i \in 1..Len(sub) : sub[i] = "user_response"
      \/ events # <<>> /\ events[Len(events)].st = "user_response"
      \/ lost
      \/ events = <<>> /\ unheard

Conversation == Keyboards /\ Crossed /\ Asked /\ Began /\ OnlySms /\ OnItsWay

\* Nothing is promised without a session.
LEMMA Unconcerned ==
    ASSUME session' = None
    PROVE  Conversation'
BY DEF Conversation, Keyboards, Crossed, Asked, Began, OnlySms, OnItsWay, Waiting

\* The dialogue of a session is the one that is on, or an earlier one.
LEMMA DialogueOn ==
    ASSUME IInv
    PROVE  /\ mm.n \in Nat /\ (mm.st # "idle" => mm.n # 0)
           /\ session # None => session.started \in Nat
BY UssdTyped, ChatTyped DEF IInv, TypeOK, UssdTypeOK, Dialogues, Session

\* The session is the same, and so is what was asked: only a promise may be
\* given up.
LEMMA SameConversation ==
    ASSUME IInv, Conversation, UNCHANGED <<session, latest, astray>>,
           summary' \in {summary, None}, neat' => neat,
           \/ UNCHANGED handler
           \/ handler.do \notin {"pick", "prompt"} /\ handler'.do \notin {"pick", "prompt"},
           (loop' = "prompt") = (loop = "prompt"),
           mm'.n \in Nat, mm'.n >= mm.n, OnItsWay'
    PROVE  Conversation'
<1>1. mm.n \in Nat /\ (session # None => session.started \in Nat)
  BY DialogueOn
<1>2. Keyboards' /\ Crossed'
  BY DEF Conversation, Keyboards, Crossed
<1>3. Asked'
  BY DEF Conversation, Asked, Question
<1>4. Began'
  BY <1>1 DEF Conversation, Began
<1>5. OnlySms'
  BY DEF Conversation, OnlySms
<1> QED
  BY <1>2, <1>3, <1>4, <1>5 DEF Conversation

\* A question is put: the session is fresh, or nobody had asked for an answer
\* of the network yet.
LEMMA AsksConversation ==
    ASSUME IInv, Conversation, UNCHANGED pushVars,
           NEW s \in Session \cup {None}, NEW q, NEW shows, Asks(s, q, shows),
           (neat' /\ s # None) => /\ q = Question(s) /\ (s.step = "peer" => s.kind = "send")
                                  /\ q \in {"send", "ussd"} => q = s.kind,
           s # None => \/ s.started = 0
                       \/ /\ session # None /\ session.step # "response"
                          /\ s.started = session.started
                          /\ s.kind = session.kind /\ s.dev = session.dev
    PROVE  Conversation'
<1>1. /\ session' = s /\ latest' = None /\ summary' = None
      /\ handler'.do = "prompt" /\ handler'.q = q /\ astray' = (loop = "prompt")
      /\ UNCHANGED <<mm, events, lost, sub, loop, unheard>>
  BY DEF Asks, ussdVars, pushVars
<1>2. mm.n \in Nat /\ (mm.st = "user_response" => mm.n # 0)
  BY DialogueOn
<1>3. Keyboards' /\ Crossed'
  BY <1>1, ChatAssumption DEF Keyboards, Crossed
<1>4. Asked'
  BY <1>1 DEF Asked, Question
<1>5. Began' /\ OnlySms'
  BY <1>1, <1>2 DEF Conversation, Began, OnlySms
<1>6. OnItsWay'
  BY <1>1, <1>2 DEF Conversation, OnItsWay, Waiting
<1> QED
  BY <1>3, <1>4, <1>5, <1>6 DEF Conversation

LEMMA FreshConversation ==
    ASSUME IInv, Conversation, CmdWizard
    PROVE  Conversation'
<1>1. PICK kind \in {"send", "ussd"} : UNCHANGED pushVars /\ Asks(Fresh(kind), kind, None)
  BY DEF CmdWizard
<1>2. /\ kind = Question(Fresh(kind)) /\ Fresh(kind).step # "peer"
      /\ Fresh(kind).started = 0 /\ Fresh(kind).kind = kind
  BY DEF Fresh, Question
<1> QED
  BY <1>1, <1>2, FreshTyped, AsksConversation

LEMMA PickConversation ==
    ASSUME IInv, Conversation, OnPickModem
    PROVE  Conversation'
<1>1. PICK prefix \in {"send", "ussd"}, d \in Devs :
          /\ Takes(latest = prefix)
          /\ IF session = None THEN Answers(None)
             ELSE /\ session' = [session EXCEPT !.dev = d, !.started = 0]
                  /\ handler' = [do |-> "pick", prefix |-> prefix]
                  /\ latest' = None /\ summary' = None /\ sends' = 0
                  /\ UNCHANGED <<ussdVars, astray>>
  BY DEF OnPickModem
<1>2. CASE session = None
  BY <1>1, <1>2, Unconcerned DEF Answers, Converse
<1>3. CASE session # None
  <2>1. /\ session' = [session EXCEPT !.dev = d, !.started = 0]
        /\ handler'.do = "pick" /\ handler'.prefix = prefix /\ latest' = None /\ summary' = None
        /\ mm' = mm /\ neat' = (neat /\ latest = prefix)
    BY <1>1, <1>3 DEF Takes, ussdVars
  <2>2. /\ session'.kind = session.kind /\ session'.step = session.step
        /\ session'.started = 0
    BY <1>3, <2>1, ChatTyped DEF IInv, Session
  <2>3. Keyboards'
    BY <1>3, <2>1, <2>2, ChatAssumption DEF Conversation, Keyboards
  <2>4. Crossed' /\ Asked' /\ OnlySms'
    BY <2>1 DEF Crossed, Asked, OnlySms
  <2>5. Began' /\ OnItsWay'
    BY <2>1, <2>2, DialogueOn DEF Began, OnItsWay, Waiting
  <2> QED
    BY <2>3, <2>4, <2>5 DEF Conversation
<1> QED
  BY <1>2, <1>3

LEMMA PickMovesConversation ==
    ASSUME IInv, Conversation, PickMoves
    PROVE  Conversation'
<1> DEFINE step == IF handler.prefix = "send" THEN "peer" ELSE "text"
           q    == IF handler.prefix = "send" THEN "peer" ELSE "command"
           s    == IF session = None THEN None ELSE [session EXCEPT !.step = step]
<1>1. handler.do = "pick" /\ UNCHANGED <<pushVars, neat>> /\ Asks(s, q, None)
  BY DEF PickMoves
<1>2. /\ s \in Session \cup {None} /\ (session = None => s = None)
      /\ session # None => /\ s \in Session /\ s.step = step /\ s.kind = session.kind
                           /\ s.started = session.started
                           /\ session.kind \in {"send", "ussd"}
  BY ChatTyped DEF IInv, Session
<1> HIDE DEF s
<1>3. session # None => s.started = 0
  BY <1>1, <1>2 DEF Conversation, Began
<1>4. (neat' /\ s # None) => /\ q = Question(s) /\ (s.step = "peer" => s.kind = "send")
                             /\ q \in {"send", "ussd"} => q = s.kind
  <2>1. CASE handler.prefix = "send"
    BY <1>1, <1>2, <2>1 DEF Conversation, Keyboards, Question
  <2>2. CASE handler.prefix # "send"
    BY <1>1, <1>2, <2>2 DEF Conversation, Keyboards, Question
  <2> QED
    BY <2>1, <2>2
<1>5. s # None => s.started = 0
  BY <1>2, <1>3
<1> HIDE DEF q, step
<1> QED
  BY <1>1, <1>2, <1>4, <1>5, AsksConversation

\* A question on its way arrives, or does not.
LEMMA PromptConversation ==
    ASSUME IInv, Conversation, PromptArrives \/ PromptFails
    PROVE  Conversation'
<1>1. /\ handler.do = "prompt" /\ handler'.do = "nothing"
      /\ UNCHANGED <<mm, events, lost, session, sub, loop, unheard, neat>>
  BY DEF PromptArrives, PromptFails, Free, ussdVars, pushVars
<1>2. CASE session = None
  BY <1>1, <1>2, Unconcerned
<1>3. CASE session # None
  <2>1. OnItsWay' /\ Crossed'
    BY <1>1 DEF Conversation, OnItsWay, Waiting, Crossed
  <2>2. Began'
    BY <1>1 DEF Conversation, Began
  <2>3. CASE PromptArrives
    <3>1. latest' = handler.q /\ summary' = handler.shows /\ astray' = astray
      BY <1>3, <2>3 DEF PromptArrives
    <3>2. Keyboards'
      BY <1>1, <1>3, <3>1 DEF Conversation, Keyboards
    <3>3. Asked'
      BY <1>1, <1>3, <3>1 DEF Conversation, Crossed, Asked, Question
    <3>4. OnlySms'
      BY <1>1, <1>3, <3>1 DEF IInv, Promises, Pending, OnlySms
    <3> QED
      BY <2>1, <2>2, <3>2, <3>3, <3>4 DEF Conversation
  <2>4. CASE PromptFails
    <3>1. latest' = latest /\ summary' = summary /\ astray' = TRUE
      BY <2>4 DEF PromptFails
    <3>2. Keyboards' /\ Asked' /\ OnlySms'
      BY <1>1, <3>1 DEF Conversation, Keyboards, Asked, OnlySms
    <3> QED
      BY <2>1, <2>2, <3>2 DEF Conversation
  <2> QED
    BY <2>3, <2>4
<1> QED
  BY <1>2, <1>3

\* A dialogue that the session begins: no question of the network is open.
LEMMA ExecuteConversation ==
    ASSUME IInv, Conversation, handler = Free, UNCHANGED pushVars,
           NEW s \in Session, ExecuteUSSD(s), s.kind = "ussd", session # None,
           neat' => /\ neat /\ session.kind = "ussd"
                    /\ s.step = "confirm" /\ session.step = "text"
    PROVE  Conversation'
<1>1. CASE s.dev = UssdDev /\ mm.st = "idle"
  <2>1. /\ session' = [s EXCEPT !.started = mm.n + 1] /\ summary' = None
        /\ UNCHANGED <<latest, astray>> /\ handler'.do = "initiate" /\ handler.do = "nothing"
        /\ mm'.st = "active" /\ mm'.n = mm.n + 1 /\ loop' = loop
    BY <1>1 DEF ExecuteUSSD, Begins, Free, pushVars
  <2>2. /\ session'.started = mm'.n /\ session'.kind = s.kind /\ session'.step = s.step
        /\ session'.dev = s.dev
    BY <2>1 DEF Session
  <2>3. session'.started <= mm'.n
    BY <2>1, <2>2, DialogueOn
  <2>4. Keyboards' /\ Crossed'
    BY <2>1, <2>2 DEF Conversation, Keyboards, Crossed
  <2>5. Asked'
    BY <2>1, <2>2 DEF Conversation, Asked, Question
  <2>6. Began'
    BY <1>1, <2>1, <2>2, <2>3 DEF Began
  <2>7. OnlySms' /\ OnItsWay'
    BY <2>1 DEF OnlySms, OnItsWay, Waiting
  <2> QED
    BY <2>4, <2>5, <2>6, <2>7 DEF Conversation
<1>2. CASE ~(s.dev = UssdDev /\ mm.st = "idle")
  <2>1. session' = None
    BY <1>2 DEF ExecuteUSSD, Begins, Answers, Converse
  <2> QED
    BY <2>1, Unconcerned
<1> QED
  BY <1>1, <1>2

\* A call is made for the session as it is, or nothing at all.
LEMMA CallConversation ==
    ASSUME IInv, Conversation, UNCHANGED <<session, latest, astray, ussdVars, pushVars>>,
           \/ UNCHANGED handler
           \/ handler.do \notin {"pick", "prompt"} /\ handler'.do \notin {"pick", "prompt"},
           summary' \in {summary, None}, neat' => neat
    PROVE  Conversation'
<1>1. UNCHANGED <<mm, events, lost, sub, loop, unheard>>
  BY DEF ussdVars, pushVars
<1>2. OnItsWay'
  BY <1>1 DEF Conversation, OnItsWay, Waiting
<1>3. mm'.n \in Nat /\ mm'.n >= mm.n
  BY <1>1, DialogueOn
<1> QED
  BY <1>1, <1>2, <1>3, SameConversation

LEMMA ConfirmConversation ==
    ASSUME IInv, Conversation, OnConfirmSend
    PROVE  Conversation'
<1>1. /\ neat' = (session = None \/ (neat /\ summary # None)) /\ UNCHANGED pushVars
      /\ handler = Free /\ handler.do = "nothing"
  BY DEF OnConfirmSend, Takes, Free
<1>2. CASE session = None
  BY <1>2, Unconcerned DEF OnConfirmSend, Answers, Converse
<1>3. CASE session # None /\ session.kind = "send"
  <2>1. handler'.do = "send" /\ UNCHANGED <<ussdVars, session, latest, astray, summary>>
    BY <1>3 DEF OnConfirmSend, Sends
  <2> QED
    BY <1>1, <1>3, <2>1, CallConversation
<1>4. CASE session # None /\ session.kind # "send"
  <2>1. ExecuteUSSD(session) /\ session \in Session /\ session.kind = "ussd"
    BY <1>4, ChatTyped DEF OnConfirmSend, IInv
  <2>2. neat' = FALSE
    BY <1>1, <1>4 DEF Conversation, OnlySms
  <2> QED
    BY <1>1, <1>4, <2>1, <2>2, ExecuteConversation
<1> QED
  BY <1>2, <1>3, <1>4

LEMMA InputsConversation ==
    ASSUME IInv, Conversation, NEW w \in Words, Takes(TRUE), Inputs(w)
    PROVE  Conversation'
<1>1. /\ neat' = (session = None \/ neat) /\ UNCHANGED pushVars
      /\ handler = Free /\ handler.do = "nothing"
  BY DEF Takes, Free
<1>2. CASE session = None
  BY <1>2, Unconcerned DEF Inputs, Answers, Converse
<1>3. ASSUME session # None PROVE Conversation'
  <2>1. /\ session \in Session /\ session.step \in Steps
        /\ session.kind \in {"send", "ussd"}
    BY <1>3, ChatTyped DEF IInv
  <2>2. neat' = neat /\ neat \in BOOLEAN
    BY <1>1, <1>3, ChatTyped DEF IInv
  <2>3. neat /\ session.step = "peer" => session.kind = "send"
    BY <1>3 DEF Conversation, Keyboards
  <2>5. CASE session.step = "peer"
    <3> DEFINE s == [session EXCEPT !.peer = w, !.step = "text"]
    <3>1. /\ s \in Session /\ s.step = "text" /\ s.kind = session.kind
          /\ s.started = session.started /\ s.dev = session.dev
      BY <2>1 DEF Session
    <3>2. Asks(s, "text", None)
      BY <1>3, <2>5 DEF Inputs
    <3> HIDE DEF s
    <3>3. neat' => "text" = Question(s)
      BY <2>2, <2>3, <2>5, <3>1 DEF Question
    <3> QED
      BY <1>1, <1>3, <2>5, <3>1, <3>2, <3>3, AsksConversation
  <2>6. CASE session.step = "text" /\ session.kind = "send"
    <3> DEFINE s == [session EXCEPT !.text = w, !.step = "confirm"]
    <3>1. /\ s \in Session /\ s.step = "confirm" /\ s.kind = "send"
          /\ s.started = session.started /\ s.dev = session.dev
      BY <2>1, <2>6 DEF Session
    <3>2. Asks(s, "summary", Shown(s))
      BY <1>3, <2>6 DEF Inputs, Summarise
    <3> HIDE DEF s
    <3>3. "summary" = Question(s)
      BY <3>1 DEF Question
    <3> QED
      BY <1>1, <1>3, <2>6, <3>1, <3>2, <3>3, AsksConversation
  <2>7. CASE session.step = "text" /\ session.kind = "ussd"
    <3> DEFINE s == [session EXCEPT !.text = w, !.step = "confirm"]
    <3>1. s \in Session /\ s.step = "confirm" /\ s.kind = "ussd"
      BY <2>1, <2>7 DEF Session
    <3>2. ExecuteUSSD(s)
      BY <1>3, <2>7 DEF Inputs
    <3> HIDE DEF s
    <3> QED
      BY <1>1, <1>3, <2>2, <2>7, <3>1, <3>2, ExecuteConversation
  <2>8. CASE session.step = "response" /\ mm.st = "user_response"
    <3>1. /\ Responds("bot") /\ summary' = None /\ UNCHANGED <<session, latest, astray>>
          /\ handler'.do = "respond"
      BY <1>3, <2>8 DEF Inputs
    <3>2. mm'.st = "active" /\ mm'.n = mm.n
      BY <3>1 DEF Responds, IInv, TypeOK, UssdTypeOK
    <3>3. OnItsWay'
      BY <3>2 DEF OnItsWay, Waiting
    <3>4. mm'.n \in Nat /\ mm'.n >= mm.n /\ loop' = loop
      BY <1>1, <3>2, DialogueOn DEF pushVars
    <3> QED
      BY <1>1, <2>2, <3>1, <3>3, <3>4, SameConversation
  <2>9. CASE session.step = "response" /\ mm.st # "user_response"
    <3>1. session' = None
      BY <1>3, <2>9 DEF Inputs, Answers, Converse
    <3> QED
      BY <3>1, Unconcerned
  <2>10. CASE session.step \in {"modem", "confirm"}
    <3>1. Answers(session)
      BY <1>3, <2>10 DEF Inputs
    <3>2. UNCHANGED <<session, latest, astray, handler, ussdVars>> /\ summary' = None
      BY <1>3, <3>1, ChatTyped DEF Answers, Converse, IInv
    <3> QED
      BY <1>1, <2>2, <3>2, CallConversation
  <2> QED
    BY <2>1, <2>5, <2>6, <2>7, <2>8, <2>9, <2>10 DEF Steps
<1> QED
  BY <1>2, <1>3

LEMMA UpdateConversation ==
    ASSUME IInv, Conversation, HandleUpdate
    PROVE  Conversation'
<1>1. CASE CmdWizard
  BY <1>1, FreshConversation
<1>2. CASE CmdCancel
  BY <1>2, Unconcerned DEF CmdCancel, Answers, Converse
<1>3. CASE OnPickModem \/ PickMoves
  BY <1>3, PickConversation, PickMovesConversation
<1>4. CASE OnConfirmSend
  BY <1>4, ConfirmConversation
<1>5. CASE HandleWord
  BY <1>5, InputsConversation DEF HandleWord
<1>6. CASE HandleReply
  <2>1. PICK w \in Words : Takes(TRUE) /\ (DirectReply(w) \/ Inputs(w))
    BY <1>6 DEF HandleReply
  <2>2. CASE DirectReply(w) /\ session # None
    <3>1. /\ UNCHANGED <<session, latest, astray, ussdVars, pushVars>> /\ (neat' => neat)
          /\ summary' = None /\ handler.do = "nothing" /\ handler'.do = "direct"
      BY <2>1, <2>2 DEF Takes, DirectReply, Sends, Free
    <3> QED
      BY <3>1, CallConversation
  <2>3. CASE DirectReply(w) /\ session = None
    BY <2>3, Unconcerned DEF DirectReply, Sends
  <2> QED
    BY <2>1, <2>2, <2>3, InputsConversation
<1>7. CASE PromptArrives \/ PromptFails
  BY <1>7, PromptConversation
<1> QED
  BY <1>1, <1>2, <1>3, <1>4, <1>5, <1>6, <1>7 DEF HandleUpdate

LEMMA ReturnsConversation ==
    ASSUME IInv, Conversation, NEW s \in {None, session}, Returns(s),
           handler.do \notin {"pick", "prompt"},
           mm'.st = mm.st, mm'.n = mm.n, UNCHANGED <<events, lost>>
    PROVE  Conversation'
<1>1. /\ session' = s /\ neat' = (s = None \/ neat) /\ summary' = summary
      /\ (s # None => latest' = latest) /\ UNCHANGED <<sub, loop, unheard>>
      /\ astray' = (s # None /\ astray) /\ handler'.do = "nothing"
  BY DEF Returns, Converse, pushVars, Free
<1>2. CASE s = None
  BY <1>1, <1>2, Unconcerned
<1>3. CASE s # None
  <2>1. /\ session' = session /\ latest' = latest /\ neat' = neat /\ neat \in BOOLEAN
        /\ astray' = astray
    BY <1>1, <1>3, ChatTyped DEF IInv
  <2>2. OnItsWay'
    BY <1>1, <2>1 DEF Conversation, OnItsWay, Waiting
  <2>3. mm'.n \in Nat /\ mm'.n >= mm.n
    BY DialogueOn
  <2> QED
    BY <1>1, <2>1, <2>2, <2>3, SameConversation
<1> QED
  BY <1>2, <1>3

LEMMA CallEndsConversation ==
    ASSUME IInv, Conversation, SendReturns \/ UssdReturns \/ InitiateTimesOut
    PROVE  Conversation'
<1>1. /\ \E s \in {None, session} : Returns(s)
      /\ mm' = mm \/ mm' = [mm EXCEPT !.call = "none"]
      /\ handler.do \notin {"pick", "prompt"}
      /\ UNCHANGED <<events, lost>>
  BY DEF SendReturns, UssdReturns, InitiateTimesOut, ussdVars
<1>2. mm'.st = mm.st /\ mm'.n = mm.n
  BY <1>1 DEF IInv, TypeOK, UssdTypeOK
<1> QED
  BY <1>1, <1>2, ReturnsConversation

\* What ModemManager signals is the last event in the channel, or is lost.
LEMMA Tells ==
    ASSUME UssdTypeOK, NEW changed \in Snapshot, OnUSSDPropsChanged(changed)
    PROVE  /\ changed.st # None => entry'.st = changed.st
           /\ lost' \/ (events' # <<>> /\ events'[Len(events')] = entry')
<1>1. DOMAIN entry = {"st", "req", "note"} /\ entry \in Snapshot
  BY DEF UssdTypeOK, Snapshot
<1>2. changed.st # None => entry'.st = changed.st
  BY <1>1 DEF OnUSSDPropsChanged, Merged
<1>3. entry' \in Snapshot
  BY <1>1, MergedTyped DEF OnUSSDPropsChanged
<1>4. /\ Append(events, entry') \in Seq(Snapshot)
      /\ Len(Append(events, entry')) = Len(events) + 1
      /\ Append(events, entry')[Len(events) + 1] = entry'
  BY <1>3, UssdTyped, AppendProperties
<1>5. CASE Len(events) < QueueCap
  <2>1. events' = Append(events, entry')
    BY <1>5 DEF OnUSSDPropsChanged
  <2>2. Len(events') # 0
    BY <1>4, <2>1, UssdTyped
  <2>3. events' # <<>>
    BY <2>2, EmptySeq
  <2> QED
    BY <1>2, <1>4, <2>1, <2>3
<1>6. CASE ~(Len(events) < QueueCap)
  BY <1>2, <1>6 DEF OnUSSDPropsChanged
<1> QED
  BY <1>5, <1>6

\* Only a question of the network makes it wait for this session.
LEMMA DialogueConversation ==
    ASSUME IInv, Conversation, DialogueMoves
    PROVE  Conversation'
<1>1. UNCHANGED <<session, latest, astray, handler, summary, neat, loop>>
  BY DEF DialogueMoves, botVars, pushVars
<1>2. /\ mm'.n \in Nat /\ mm'.n >= mm.n
      /\ mm'.st = "user_response" => NetworkAsks \/ mm'.n > mm.n
  <2>1. CASE Begins("web") \/ NetworkStarts \/ NetworkNotifies
    <3>1. mm'.n = mm.n + 1
      <4>1. mm = [st |-> mm.st, n |-> mm.n, call |-> mm.call]
        BY DEF IInv, TypeOK, UssdTypeOK
      <4>2. Begins("web") => mm'.n = mm.n + 1
        BY DEF Begins
      <4>3. NetworkStarts => mm'.n = mm.n + 1
        BY <4>1 DEF NetworkStarts
      <4>4. NetworkNotifies => mm'.n = mm.n + 1
        BY <4>1 DEF NetworkNotifies
      <4> QED
        BY <2>1, <4>2, <4>3, <4>4
    <3> QED
      BY <3>1, DialogueOn
  <2>2. CASE Responds("web") \/ NetworkAsks \/ NetworkAnswers \/ Ends
    <3>1. mm'.n = mm.n /\ (mm'.st = "user_response" => NetworkAsks)
      BY <2>2 DEF Responds, NetworkAsks, NetworkAnswers, Ends, IInv, TypeOK, UssdTypeOK
    <3> QED
      BY <3>1, DialogueOn
  <2> QED
    BY <2>1, <2>2 DEF DialogueMoves, NetworkStep
<1>3. OnItsWay'
  <2>1. CASE NetworkAsks
    <3> DEFINE changed == [Unknown EXCEPT !.st = "user_response", !.req = mm.n]
    <3>1. OnUSSDPropsChanged(changed) /\ mm.n \in Dialogues
      BY <2>1 DEF NetworkAsks, Requested, IInv, TypeOK, UssdTypeOK
    <3>2. changed \in Snapshot /\ changed.st = "user_response"
      BY <3>1 DEF Unknown, Snapshot, States
    <3> HIDE DEF changed
    <3>3. lost' \/ (events' # <<>> /\ events'[Len(events')].st = "user_response")
      BY <3>1, <3>2, Tells, UssdAssumption DEF IInv, TypeOK
    <3> QED
      BY <3>3 DEF OnItsWay
  <2>2. CASE mm'.n > mm.n
    <3>1. session # None => session.started # mm'.n
      BY <2>2, DialogueOn DEF Conversation, Began
    <3> QED
      BY <1>1, <3>1 DEF OnItsWay, Waiting
  <2>3. CASE mm'.st # "user_response"
    BY <2>3 DEF OnItsWay, Waiting
  <2> QED
    BY <1>2, <2>1, <2>2, <2>3
<1> QED
  BY <1>1, <1>2, <1>3, SameConversation

\* The runner takes the first event: it reaches the bot, or is not heard.
LEMMA RunnerConversation ==
    ASSUME IInv, Conversation, RunnerStep
    PROVE  Conversation'
<1>1. /\ events # <<>> /\ events' = Tail(events) /\ Hears(Head(events).st)
      /\ UNCHANGED <<mm, lost, session, latest, astray, handler, summary, neat, loop>>
  BY DEF RunnerStep, botVars
<1>2. sub \in Seq(SubEvents) /\ Len(sub) \in Nat /\ events \in Seq(Snapshot) /\ Len(events) \in Nat
  BY ChatTyped, UssdTyped DEF IInv, TypeOK
<1>3. /\ Head(events) = events[1] /\ Len(events) # 0 /\ Len(events') = Len(events) - 1
      /\ \A i \in 1..Len(events') : events'[i] = events[i + 1]
      /\ events' \in Seq(Snapshot) /\ Head(events) \in Snapshot
  BY <1>1, <1>2, HeadTailProperties, EmptySeq
<1>4. \/ /\ Len(sub') = Len(sub) + 1 /\ sub'[Len(sub) + 1] = Head(events).st
         /\ \A i \in 1..Len(sub) : sub'[i] = sub[i]
      \/ sub' = sub /\ unheard' = TRUE
  <2>1. Head(events).st \in SubEvents
    BY <1>3 DEF Snapshot, SubEvents
  <2>2. CASE Len(sub) < SubCap
    <3>1. sub' = Append(sub, Head(events).st)
      BY <1>1, <2>2 DEF Hears
    <3> QED
      BY <1>2, <2>1, <3>1, AppendProperties
  <2>3. CASE ~(Len(sub) < SubCap)
    BY <1>1, <2>3 DEF Hears
  <2> QED
    BY <2>2, <2>3
<1>5. OnItsWay'
  <2> SUFFICES ASSUME Waiting' PROVE OnItsWay'
    BY DEF OnItsWay
  <2>1. Waiting
    BY <1>1 DEF Waiting
  <2>2. CASE session.step = "response" \/ loop = "ussd" \/ lost
    BY <1>1, <2>2 DEF OnItsWay
  <2>3. CASE \E i \in 1..Len(sub) : sub[i] = "user_response"
    <3>1. PICK i \in 1..Len(sub) : sub[i] = "user_response"
      BY <2>3
    <3>2. i \in 1..Len(sub') /\ sub'[i] = "user_response"
      BY <1>2, <1>4, <3>1
    <3> QED
      BY <3>2 DEF OnItsWay
  <2>4. CASE events[Len(events)].st = "user_response"
    <3>1. CASE Len(events) = 1
      <4>1. events' = <<>>
        BY <1>3, <3>1, EmptySeq
      <4>2. Head(events).st = "user_response"
        BY <1>3, <2>4, <3>1
      <4>3. CASE sub' = sub /\ unheard' = TRUE
        BY <4>1, <4>3 DEF OnItsWay
      <4>4. CASE Len(sub') = Len(sub) + 1 /\ sub'[Len(sub) + 1] = Head(events).st
        <5>1. Len(sub) + 1 \in 1..Len(sub') /\ sub'[Len(sub) + 1] = "user_response"
          BY <1>2, <4>2, <4>4
        <5> QED
          BY <5>1 DEF OnItsWay
      <4> QED
        BY <1>4, <4>3, <4>4
    <3>2. CASE Len(events) # 1
      <4>1. Len(events') \in 1..Len(events') /\ Len(events') # 0
        BY <1>2, <1>3, <3>2
      <4>2. events'[Len(events')] = events[Len(events') + 1]
        BY <1>3, <4>1
      <4>3. Len(events') + 1 = Len(events)
        BY <1>2, <1>3
      <4>4. events'[Len(events')].st = "user_response"
        BY <2>4, <4>2, <4>3
      <4>5. events' # <<>>
        BY <4>1, EmptySeq
      <4> QED
        BY <4>4, <4>5 DEF OnItsWay
    <3> QED
      BY <3>1, <3>2
  <2> QED
    BY <1>1, <2>1, <2>2, <2>3, <2>4 DEF Conversation, OnItsWay
<1>6. mm'.n \in Nat /\ mm'.n >= mm.n /\ (neat' => neat)
  BY <1>1, DialogueOn
<1> QED
  BY <1>1, <1>5, <1>6, SameConversation

LEMMA SmsArrivesConversation ==
    ASSUME IInv, Conversation, SmsArrives
    PROVE  Conversation'
<1>1. /\ sub = <<>>
      /\ UNCHANGED <<ussdVars, botVars, loop, pushed, neat, unheard>>
  BY DEF SmsArrives
<1>2. UNCHANGED <<mm, events, lost, session, latest, astray, handler, summary, neat, loop,
                  unheard>>
  BY <1>1 DEF ussdVars, botVars
<1>3. ~ \E i \in 1..Len(sub) : sub[i] = "user_response"
  BY <1>1, EmptySeq
<1>4. OnItsWay'
  BY <1>2, <1>3 DEF Conversation, OnItsWay, Waiting
<1>5. mm'.n \in Nat /\ mm'.n >= mm.n /\ (neat' => neat)
  BY <1>2, DialogueOn
<1> QED
  BY <1>2, <1>4, <1>5, SameConversation

\* The push loop takes an event: a question is for this session.
LEMMA PushLooksConversation ==
    ASSUME IInv, Conversation, PushRecords \/ PushShows \/ PushLooks
    PROVE  Conversation'
<1>1. /\ UNCHANGED <<mm, events, lost, session, latest, astray, handler, summary, neat, unheard>>
      /\ loop' = "ussd" \/ loop # "ussd"
      /\ (loop' = "prompt") = (loop = "prompt")
  BY DEF PushRecords, PushShows, PushLooks, Loops, ussdVars, botVars
<1>2. ASSUME Waiting', NEW i \in 1..Len(sub), sub[i] = "user_response"
      PROVE  loop' = "ussd" \/ \E j \in 1..Len(sub') : sub'[j] = "user_response"
  <2>1. CASE PushRecords
    BY <1>2, <2>1 DEF PushRecords, Loops
  <2>2. CASE PushShows \/ PushLooks
    <3>1. sub # <<>> /\ sub' = Tail(sub)
      BY <2>2 DEF PushShows, PushLooks, Loops
    <3>2. /\ sub \in Seq(SubEvents) /\ Len(sub) \in Nat /\ Head(sub) = sub[1]
          /\ Len(sub') = Len(sub) - 1 /\ \A j \in 1..Len(sub') : sub'[j] = sub[j + 1]
      BY <3>1, ChatTyped, HeadTailProperties DEF IInv
    <3>3. CASE i = 1
      <4>1. Head(sub) = "user_response"
        BY <1>2, <3>2, <3>3
      <4>2. session # None /\ session.started # 0
        BY <1>1, <1>2, DialogueOn DEF Waiting
      <4>3. session.kind = "ussd" /\ session.dev = UssdDev
        BY <4>2 DEF Conversation, Began
      <4> QED
        BY <2>2, <4>1, <4>2, <4>3 DEF PushShows, PushLooks, Loops
    <3>4. CASE i # 1
      <4>1. i - 1 \in 1..Len(sub') /\ (i - 1) + 1 = i
        BY <3>2, <3>4
      <4>2. sub'[i - 1] = "user_response"
        BY <1>2, <3>2, <4>1
      <4> QED
        BY <4>1, <4>2
    <3> QED
      BY <3>3, <3>4
  <2> QED
    BY <2>1, <2>2
<1>3. OnItsWay'
  BY <1>1, <1>2 DEF Conversation, OnItsWay, Waiting
<1>4. mm'.n \in Nat /\ mm'.n >= mm.n /\ (neat' => neat)
  BY <1>1, DialogueOn
<1> QED
  BY <1>1, <1>3, <1>4, SameConversation

\* It moves the session on, and its question is on the way.
LEMMA PushAsksConversation ==
    ASSUME IInv, Conversation, PushAsks
    PROVE  Conversation'
<1>1. CASE session = None
  BY <1>1, Unconcerned DEF PushAsks
<1>2. CASE session # None
  <2>1. /\ session' = [session EXCEPT !.step = "response"]
        /\ UNCHANGED <<mm, handler, latest, summary, neat>>
        /\ loop' = "prompt" /\ astray' = (handler.do = "prompt")
    BY <1>2 DEF PushAsks, ussdVars
  <2>2. /\ session'.step = "response" /\ session'.kind = session.kind
        /\ session'.dev = session.dev /\ session'.started = session.started
    BY <1>2, <2>1, ChatTyped DEF IInv, Session
  <2>3. Keyboards'
    BY <1>2, <2>1, <2>2 DEF Conversation, Keyboards
  <2>4. Crossed' /\ Asked'
    BY <2>1, <2>2 DEF Crossed, Asked
  <2>5. Began'
    BY <1>2, <2>1, <2>2 DEF Conversation, Began
  <2>6. OnlySms' /\ OnItsWay'
    BY <1>2, <2>1, <2>2 DEF Conversation, OnlySms, OnItsWay
  <2> QED
    BY <2>3, <2>4, <2>5, <2>6 DEF Conversation
<1> QED
  BY <1>1, <1>2

LEMMA PushPromptsConversation ==
    ASSUME IInv, Conversation, PushPrompts
    PROVE  Conversation'
<1>1. CASE session = None
  BY <1>1, Unconcerned DEF PushPrompts
<1>2. CASE session # None
  <2>1. /\ UNCHANGED <<mm, events, lost, sub, unheard, session, handler, summary, neat>>
        /\ loop = "prompt" /\ loop' = "idle"
        /\ \/ latest' = "response" /\ astray' = astray
           \/ latest' = latest /\ astray' = TRUE
    BY <1>2 DEF PushPrompts, ussdVars
  <2>2. Keyboards'
    BY <1>2, <2>1 DEF Conversation, Keyboards
  <2>3. Crossed'
    BY <2>1 DEF Crossed
  <2>4. Asked'
    BY <1>2, <2>1 DEF Conversation, Crossed, Asked, Question
  <2>5. Began' /\ OnlySms'
    BY <2>1 DEF Conversation, Began, OnlySms
  <2>6. OnItsWay'
    BY <2>1 DEF Conversation, OnItsWay, Waiting
  <2> QED
    BY <2>2, <2>3, <2>4, <2>5, <2>6 DEF Conversation
<1> QED
  BY <1>1, <1>2

LEMMA ConversationKept == IInv /\ Conversation /\ [Next]_vars => Conversation'
<1> SUFFICES ASSUME IInv, Conversation, [Next]_vars PROVE Conversation'
  OBVIOUS
<1>1. CASE UNCHANGED vars
  <2>1. UNCHANGED <<session, latest, astray, handler, ussdVars, pushVars, summary, neat>>
    BY <1>1 DEF vars, botVars
  <2> QED
    BY <2>1, CallConversation
<1>2. CASE Expires \/ Reload \/ DaemonRestarts
  BY <1>2, Unconcerned DEF Expires, Reload, DaemonRestarts, BotRestarts, Converse
<1>3. CASE HandleUpdate
  BY <1>3, UpdateConversation
<1>4. CASE SendReturns \/ UssdReturns \/ InitiateTimesOut
  BY <1>4, CallEndsConversation
<1>5. CASE DialogueMoves
  BY <1>5, DialogueConversation
<1>6. CASE RunnerStep
  BY <1>6, RunnerConversation
<1>7. CASE SmsArrives
  BY <1>7, SmsArrivesConversation
<1>8. CASE PushLoop
  BY <1>8, PushLooksConversation, PushAsksConversation, PushPromptsConversation DEF PushLoop
<1> QED
  BY <1>1, <1>2, <1>3, <1>4, <1>5, <1>6, <1>7, <1>8 DEF Next

(* What is on its way to a user who keeps to the bot, or was put last, is   *)
(* what the session waits for, unless a question could not be sent or       *)
(* crossed with one of the other goroutine; a session knows which dialogue  *)
(* it began, and a question of the network in it is put or on its way.      *)
THEOREM ConversationInvariance == Spec => []Conversation
<1>1. Init => Conversation
  BY Unconcerned DEF Init, ChatInit, Conversation, Keyboards, Crossed, Asked, Began, OnlySms,
                     OnItsWay, Waiting
<1> QED
  BY <1>1, ConversationKept, Invariance, PTL DEF Spec

(* To a user who waits for the bot and uses its latest keyboard, the next   *)
(* word means what the bot asked for last, although handleUpdate and        *)
(* pushLoop write into one session, if the last questions could be sent and *)
(* neither goroutine moved the session on while the other was sending.      *)
THEOREM WordsAreUnderstood == Spec => []QuestionIsMeant
<1>1. IInv /\ Conversation => QuestionIsMeant
  <2> SUFFICES ASSUME IInv, Conversation, neat, ~astray, handler = Free, loop = "idle",
                      session # None
               PROVE  QuestionIsMeant
    BY DEF QuestionIsMeant
  <2>1. session.step \in Steps /\ handler.do = "nothing"
    BY ChatTyped DEF IInv, Free
  <2>2. latest = Question(session) /\ (session.step = "peer" => session.kind = "send")
    BY <2>1 DEF Conversation, Asked, Keyboards
  <2> QED
    BY <2>1, <2>2 DEF Question, QuestionIsMeant, Steps
<1> QED
  BY <1>1, Invariance, ConversationInvariance, PTL

(* When the network asks in a dialogue that the conversation began, its     *)
(* question reaches the session through the channel of the runner and that  *)
(* of the bot, unless one of them was full, whatever the user did meanwhile.*)
THEOREM QuestionsReachTheUser == Spec => []UserIsAsked
<1>1. Conversation => UserIsAsked
  <2> SUFFICES ASSUME Conversation, ~UserIsAsked PROVE FALSE
    OBVIOUS
  <2>1. /\ Waiting /\ session.step # "response" /\ loop # "ussd" /\ ~lost /\ ~unheard
        /\ events = <<>> /\ sub = <<>>
    BY DEF UserIsAsked, Waiting
  <2>2. 1..Len(sub) = {}
    BY <2>1, EmptySeq
  <2> QED
    BY <2>1, <2>2 DEF Conversation, OnItsWay
<1> QED
  BY <1>1, ConversationInvariance, PTL

-----------------------------------------------------------------------------
(* The history: the last event in the channel is what the provider last saw,*)
(* and one event is enough to bring the rows up to it.                      *)
\* The last of the open rows is one of them.
LEMMA MaxIsMember ==
    ASSUME NEW n \in Nat, NEW S, S \subseteq 1..n, S # {}
    PROVE  Max(S) \in S
<1> DEFINE T == {n - x : x \in S}
           R == OpToRel(<, Nat)
<1>1. IsWellFoundedOn(R, Nat)
  BY NatLessThanWellFounded
<1>2. ASSUME NEW x \in S PROVE n - x \in Nat /\ x \in Nat
  OBVIOUS
<1>3. T \subseteq Nat
  BY <1>2
<1>4. T # {}
  OBVIOUS
<1>5. \A y, x \in Nat : y < x => <<y, x>> \in R
  BY DEF OpToRel
<1> HIDE DEF R
<1>6. PICK t \in T : \A y \in T : ~ (<<y, t>> \in R)
  <2> HIDE DEF T
  <2> QED
    BY <1>1, <1>3, <1>4, WFMin
<1>7. PICK m \in S : t = n - m
  OBVIOUS
<1>8. ASSUME NEW y \in S PROVE m >= y
  <2>1. n - y \in T
    OBVIOUS
  <2>2. ~(n - y < t)
    BY <1>3, <1>5, <1>6, <2>1
  <2>3. m \in Nat /\ y \in Nat
    BY <1>2
  <2> QED
    BY <1>7, <2>2, <2>3
<1>9. \E x \in S : \A y \in S : x >= y
  BY <1>8
<1> QED
  BY <1>9 DEF Max

\* A text is in one of the rows.
Recorded(rs, t) == \E i \in DOMAIN rs : t \in rs[i].of

LEMMA AppendRecords ==
    ASSUME NEW rs \in Seq(Row), NEW t \in Dialogues \cup {None}
    PROVE  /\ AppendUSSD(rs, t) \in Seq(Row)
           /\ t # None => Recorded(AppendUSSD(rs, t), t)
           /\ \A u : Recorded(rs, u) => Recorded(AppendUSSD(rs, t), u)
<1>1. /\ rs \in [1..Len(rs) -> Row] /\ Len(rs) \in Nat /\ DOMAIN rs = 1..Len(rs)
  BY LenProperties
<1>2. CASE t = None
  BY <1>2 DEF AppendUSSD
<1>3. CASE t # None /\ OpenIn(rs) = {}
  <2> DEFINE r == [st |-> "active", of |-> {t}]
             n == Len(rs) + 1
  <2>1. AppendUSSD(rs, t) = Append(rs, r) /\ r \in Row /\ t \in r.of
    BY <1>3 DEF AppendUSSD, Row
  <2> HIDE DEF r
  <2>2. /\ Append(rs, r) \in Seq(Row) /\ Len(Append(rs, r)) = n /\ Append(rs, r)[n] = r
        /\ \A i \in 1..Len(rs) : Append(rs, r)[i] = rs[i]
    BY <2>1, AppendProperties
  <2>3. DOMAIN Append(rs, r) = 1..n
    BY <2>2, LenProperties
  <2>4. n \in 1..n /\ 1..Len(rs) \subseteq 1..n
    BY <1>1
  <2> QED
    BY <1>1, <2>1, <2>2, <2>3, <2>4 DEF Recorded
<1>4. CASE t # None /\ OpenIn(rs) # {}
  <2> DEFINE j == Max(OpenIn(rs))
  <2>1. OpenIn(rs) \subseteq 1..Len(rs)
    BY <1>1 DEF OpenIn
  <2>2. j \in DOMAIN rs
    BY <1>1, <1>4, <2>1, MaxIsMember
  <2>3. AppendUSSD(rs, t) = [rs EXCEPT ![j].of = @ \cup {t}]
    BY <1>4 DEF AppendUSSD
  <2> HIDE DEF j
  <2> DEFINE rs2 == AppendUSSD(rs, t)
  <2>4. /\ DOMAIN rs2 = DOMAIN rs /\ rs2[j] = [rs[j] EXCEPT !.of = @ \cup {t}]
        /\ \A i \in DOMAIN rs \ {j} : rs2[i] = rs[i]
    BY <1>1, <2>2, <2>3
  <2>5. rs[j] \in Row
    BY <1>1, <2>2
  <2>6. rs2[j].of = rs[j].of \cup {t} /\ rs2[j] \in Row
    BY <1>4, <2>4, <2>5 DEF Row
  <2>7. rs2 \in [1..Len(rs) -> Row]
    <3>1. rs2 = [i \in 1..Len(rs) |-> rs2[i]]
      BY <1>1, <2>3
    <3> QED
      BY <1>1, <2>4, <2>6, <3>1
  <2>8. rs2 \in Seq(Row)
    BY <1>1, <2>7, SeqDef
  <2> HIDE DEF rs2
  <2>9. Recorded(rs2, t)
    BY <2>2, <2>4, <2>6 DEF Recorded
  <2>10. ASSUME NEW u, Recorded(rs, u) PROVE Recorded(rs2, u)
    <3>1. PICK i \in DOMAIN rs : u \in rs[i].of
      BY <2>10 DEF Recorded
    <3>2. u \in rs2[i].of /\ i \in DOMAIN rs2
      BY <2>4, <2>6, <3>1
    <3> QED
      BY <3>2 DEF Recorded
  <2> QED
    BY <2>8, <2>9, <2>10 DEF rs2
<1> QED
  BY <1>2, <1>3, <1>4

\* One event is enough: but for the writes that fail its texts are recorded,
\* and its state is that of the rows that were open.
LEMMA PersistedRecords ==
    ASSUME NEW rs \in Seq(Row), NEW ev \in Snapshot, NEW failed
    PROVE  LET new == Persisted(rs, ev, failed) IN
           /\ ("request" \notin failed /\ ev.req # None) => Recorded(new, ev.req)
           /\ ("notification" \notin failed /\ ev.note # None) => Recorded(new, ev.note)
           /\ ("state" \notin failed /\ Over(ev.st)) => OpenIn(new) = {}
<1> DEFINE r1 == IF "request" \in failed THEN rs ELSE AppendUSSD(rs, ev.req)
           r2 == IF "notification" \in failed THEN r1 ELSE AppendUSSD(r1, ev.note)
           db == mapUSSDDBState(ev.st)
           r3 == SetUSSDState(r2, db)
<1>1. ev.req \in Dialogues \cup {None} /\ ev.note \in Dialogues \cup {None}
  BY DEF Snapshot
<1>2. r1 \in Seq(Row) /\ (("request" \notin failed /\ ev.req # None) => Recorded(r1, ev.req))
  BY <1>1, AppendRecords
<1> HIDE DEF r1
<1>3. /\ r2 \in Seq(Row)
      /\ ("notification" \notin failed /\ ev.note # None) => Recorded(r2, ev.note)
      /\ \A u : Recorded(r1, u) => Recorded(r2, u)
  BY <1>1, <1>2, AppendRecords
<1>4. Persisted(rs, ev, failed) = IF "state" \in failed THEN r2 ELSE r3
  BY DEF Persisted, r1
<1> HIDE DEF r2, db
<1>5. r2 \in [1..Len(r2) -> Row] /\ DOMAIN r2 = 1..Len(r2)
  BY <1>3, LenProperties
<1>6. /\ DOMAIN r3 = DOMAIN r2
      /\ \A i \in DOMAIN r2 : r3[i] = IF Open(r2[i]) THEN [r2[i] EXCEPT !.st = db] ELSE r2[i]
  BY DEF SetUSSDState
<1>7. \A i \in DOMAIN r2 : /\ r3[i].of = r2[i].of
                           /\ Open(r3[i]) => db \in {"active", "user_response"}
  BY <1>5, <1>6 DEF Open, Row
<1> HIDE DEF r3
<1>8. \A u : Recorded(r2, u) => Recorded(r3, u)
  BY <1>6, <1>7 DEF Recorded
<1>9. Over(ev.st) => db \in {"terminated", "failed"}
  BY UssdAssumption DEF db, mapUSSDDBState, Over
<1>10. Over(ev.st) => OpenIn(r3) = {}
  BY <1>6, <1>7, <1>9 DEF OpenIn
<1> QED
  BY <1>2, <1>3, <1>4, <1>8, <1>10

\* The last event that waits is what the provider last saw.
Latest == (~lost /\ events # <<>>) => events[Len(events)] = entry

CaughtUp == Latest /\ HistoryCatchesUp

LEMMA SignalKeepsUp ==
    ASSUME UssdTypeOK, NEW changed \in Snapshot, OnUSSDPropsChanged(changed)
    PROVE  CaughtUp'
BY Tells DEF CaughtUp, Latest, HistoryCatchesUp

LEMMA DialogueKeepsUp ==
    ASSUME IInv, NetworkStep \/ Ends \/ (\E who \in {"bot", "web"} : Begins(who) \/ Responds(who))
    PROVE  CaughtUp'
<1>1. UssdTypeOK /\ mm.n \in 0..MaxDialogues /\ (mm.st # "idle" => mm.n \in Dialogues)
  BY UssdTyped DEF IInv, TypeOK, UssdTypeOK
<1>2. ASSUME NEW st \in States, Published(st) PROVE CaughtUp'
  <2>1. [Unknown EXCEPT !.st = st] \in Snapshot
    BY DEF Unknown, Snapshot
  <2> QED
    BY <1>1, <1>2, <2>1, SignalKeepsUp DEF Published
<1>3. ASSUME NEW n \in Dialogues, Requested("user_response", n) PROVE CaughtUp'
  <2>1. [Unknown EXCEPT !.st = "user_response", !.req = n] \in Snapshot
    BY DEF Unknown, Snapshot, States
  <2> QED
    BY <1>1, <1>3, <2>1, SignalKeepsUp DEF Requested
<1>4. CASE NetworkNotifies
  <2>1. mm.n + 1 \in Dialogues
    BY <1>1, <1>4, UssdAssumption DEF NetworkNotifies, Dialogues
  <2>2. [Unknown EXCEPT !.note = mm.n + 1] \in Snapshot
    BY <2>1 DEF Unknown, Snapshot
  <2> QED
    BY <1>1, <1>4, <2>2, SignalKeepsUp DEF NetworkNotifies
<1>5. CASE NetworkStarts
  <2>1. mm.n + 1 \in Dialogues
    BY <1>1, <1>5, UssdAssumption DEF NetworkStarts, Dialogues
  <2> QED
    BY <1>3, <1>5, <2>1 DEF NetworkStarts
<1>6. CASE NetworkAsks
  BY <1>1, <1>3, <1>6 DEF NetworkAsks
<1>7. CASE NetworkAnswers \/ Ends \/ (\E who \in {"bot", "web"} : Begins(who) \/ Responds(who))
  BY <1>2, <1>7 DEF NetworkAnswers, Ends, Begins, Responds, States
<1> QED
  BY <1>4, <1>5, <1>6, <1>7 DEF NetworkStep

LEMMA RunnerCatchesUp ==
    ASSUME IInv, CaughtUp, RunnerStep
    PROVE  CaughtUp'
<1>1. /\ events # <<>> /\ events' = Tail(events) /\ UNCHANGED <<entry, lost>>
      /\ rows' = Persisted(rows, Head(events), unwritten')
  BY DEF RunnerStep
<1>2. events \in Seq(Snapshot) /\ Len(events) \in Nat /\ rows \in Seq(Row)
  BY UssdTyped DEF IInv, TypeOK
<1>3. /\ Head(events) = events[1] /\ Len(events) # 0 /\ Len(events') = Len(events) - 1
      /\ \A i \in 1..Len(events') : events'[i] = events[i + 1]
      /\ events' \in Seq(Snapshot) /\ Head(events) \in Snapshot
  BY <1>1, <1>2, HeadTailProperties, EmptySeq
<1>4. CASE Len(events) = 1
  <2>1. events' = <<>>
    BY <1>3, <1>4, EmptySeq
  <2>2. ~lost => Head(events) = entry
    BY <1>1, <1>3, <1>4 DEF CaughtUp, Latest
  <2>3. /\ ("request" \notin unwritten' /\ Head(events).req # None) =>
             Recorded(rows', Head(events).req)
        /\ ("notification" \notin unwritten' /\ Head(events).note # None) =>
             Recorded(rows', Head(events).note)
        /\ ("state" \notin unwritten' /\ Over(Head(events).st)) => OpenIn(rows') = {}
    BY <1>1, <1>2, <1>3, PersistedRecords
  <2>4. HistoryCatchesUp'
    BY <1>1, <2>2, <2>3 DEF HistoryCatchesUp, Recorded
  <2> QED
    BY <2>1, <2>4 DEF CaughtUp, Latest
<1>5. CASE Len(events) # 1
  <2>1. Len(events') \in 1..Len(events') /\ Len(events') + 1 = Len(events)
    BY <1>2, <1>3, <1>5
  <2>2. events'[Len(events')] = events[Len(events)]
    BY <1>3, <2>1
  <2>3. events' # <<>>
    BY <2>1, EmptySeq
  <2>4. Latest'
    BY <1>1, <2>2 DEF CaughtUp, Latest
  <2> QED
    BY <2>3, <2>4 DEF CaughtUp, HistoryCatchesUp
<1> QED
  BY <1>4, <1>5

LEMMA CaughtUpKept == IInv /\ CaughtUp /\ [Next]_vars => CaughtUp'
<1> SUFFICES ASSUME IInv, CaughtUp, [Next]_vars PROVE CaughtUp'
  OBVIOUS
<1>1. CASE UNCHANGED <<entry, events, rows, lost, unwritten>>
  BY <1>1 DEF CaughtUp, Latest, HistoryCatchesUp
<1>2. CASE UNCHANGED vars \/ Expires \/ SendReturns \/ UssdReturns \/ InitiateTimesOut
           \/ SmsArrives \/ PushLoop \/ Reload
  <2>1. UNCHANGED <<entry, events, rows, lost, unwritten>>
    BY <1>2 DEF vars, ussdVars, Expires, SendReturns, UssdReturns, InitiateTimesOut, SmsArrives,
                PushLoop, PushShows, PushRecords, PushLooks, PushAsks, PushPrompts, Loops, Reload,
                BotRestarts
  <2> QED
    BY <1>1, <2>1
<1>3. CASE HandleUpdate
  <2>1. UNCHANGED ussdVars \/ Begins("bot") \/ Responds("bot")
    BY <1>3 DEF HandleUpdate, CmdWizard, CmdCancel, OnPickModem, PickMoves, PromptArrives,
                PromptFails, OnConfirmSend, HandleWord, HandleReply, DirectReply, Inputs, Answers,
                Asks, Sends, Summarise, ExecuteUSSD
  <2> QED
    BY <1>1, <2>1, DialogueKeepsUp DEF ussdVars
<1>4. CASE DialogueMoves
  BY <1>4, DialogueKeepsUp DEF DialogueMoves
<1>5. CASE RunnerStep
  BY <1>5, RunnerCatchesUp
<1>6. CASE DaemonRestarts
  <2>1. /\ entry' = Unknown /\ events' = <<>> /\ ~Over(Unknown.st)
        /\ Unknown.req = None /\ Unknown.note = None
    BY <1>6, UssdAssumption DEF DaemonRestarts, Unknown, Over
  <2> QED
    BY <2>1 DEF CaughtUp, Latest, HistoryCatchesUp
<1> QED
  BY <1>2, <1>3, <1>4, <1>5, <1>6 DEF Next

(* When the runner has caught up, the history holds the last texts of the   *)
(* network and no open row of a dialogue that is over, but for what could   *)
(* not be written of the last event, although events were dropped and writes*)
(* failed on the way, and whatever the rows were before.                    *)
THEOREM HistoryIsBroughtUp == Spec => []HistoryCatchesUp
<1>1. Init => CaughtUp
  <2> SUFFICES ASSUME Init PROVE CaughtUp
    OBVIOUS
  <2>1. entry = Unknown /\ events = <<>> /\ rows = <<>>
    BY DEF Init, UssdInit
  <2>2. ~Over(Unknown.st) /\ Unknown.req = None /\ Unknown.note = None
    BY UssdAssumption DEF Unknown, Over
  <2> QED
    BY <2>1, <2>2 DEF CaughtUp, Latest, HistoryCatchesUp
<1>2. CaughtUp => HistoryCatchesUp
  BY DEF CaughtUp
<1> QED
  BY <1>1, <1>2, CaughtUpKept, Invariance, PTL DEF Spec

=============================================================================
