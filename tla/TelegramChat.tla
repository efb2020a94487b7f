---------------------------- MODULE TelegramChat ----------------------------
(* The conversation of the Telegram bot (commands.go, session.go, the part *)
(* of push.go that answers): the wizards for an SMS and for USSD, the      *)
(* direct reply to a pushed SMS, and the dialogue of Ussd, which the web   *)
(* page and the network may move as well.  One goroutine handles the       *)
(* updates of the user one by one and waits for the provider; another one  *)
(* handles the events of the runner and writes into the same session.      *)
(* Keyboards stay in the chat, also from before the bot was started, and   *)
(* can be pressed at any time later.                                       *)
EXTENDS Ussd

CONSTANTS
    Devs,         \* modems, all of which can send SMS
    UssdDev,      \* the one that has USSD
    Words,        \* what the user types
    Sender,       \* who sent the SMS that is pushed
    SubCap        \* the bot's channel of events (128 in the code)

ASSUME ChatAssumption ==
    /\ UssdDev \in Devs
    /\ None \notin Devs \cup Words \cup {Sender} \cup {"send", "ussd"}
    /\ SubCap \in Nat \ {0}

VARIABLES
    session,   \* sessions[chatID], or None
    handler,   \* the call or the prompt that handleUpdate is at, or Free
    sub,       \* the bot's subscription
    loop,      \* where pushLoop is
    pushed,    \* the push of the SMS: not sent, visible, or recorded as well
    latest,    \* the last question or keyboard that the bot put and nobody used
    summary,   \* the summary in front of a user who did nothing since
    sends,     \* how often that summary was confirmed with effect
    neat,      \* the user waits for the bot and presses the latest keyboard
    astray,    \* the question of the last step was not put, or as the other
               \* goroutine put one of its own
    unheard    \* an event of the dialogue did not fit into sub

botVars  == <<session, handler, latest, summary, sends, astray>>
pushVars == <<sub, loop, pushed, unheard>>
vars     == <<ussdVars, botVars, pushVars, neat>>

\* handleUpdate is through with the last update.
Free == [do |-> "nothing"]

\* A session; started is the dialogue that it began since the modem was picked.
Fresh(kind) == [kind |-> kind, step |-> "modem", dev |-> None,
                peer |-> None, text |-> None, started |-> 0]

Shown(s) == [dev |-> s.dev, peer |-> s.peer, text |-> s.text]

ChatInit ==
    /\ session = None /\ handler = Free
    /\ sub = <<>> /\ loop = "idle" /\ pushed = "no"
    /\ latest = None /\ summary = None /\ sends = 0
    /\ neat = TRUE /\ astray = FALSE /\ unheard = FALSE

Init == UssdInit /\ ChatInit

-----------------------------------------------------------------------------
(* The session store: a session nobody touched for five minutes is gone.    *)
Converse(s) == /\ session' = s
               /\ latest' = IF s = None THEN None ELSE latest
               /\ astray' = (s # None /\ astray)

Expires == /\ session # None
           /\ Converse(None) /\ neat' = TRUE
           /\ UNCHANGED <<ussdVars, handler, summary, sends, pushVars>>

-----------------------------------------------------------------------------
(* handleUpdate, between calls.  An update that waited for the bot is one   *)
(* that the user made when it is handled; orderly says that the user used   *)
(* the keyboard that he has in front of him.                                *)
Takes(orderly) == /\ handler = Free
                  /\ neat' = (session = None \/ (neat /\ orderly))
                  /\ UNCHANGED pushVars

\* The session is s by now, and question q, a summary perhaps, is on its way:
\* the rate limiter and Telegram take their time.
Asks(s, q, shows) ==
    /\ session' = s /\ latest' = None
    /\ handler' = [do |-> "prompt", q |-> q, shows |-> shows]
    /\ summary' = None /\ sends' = 0
    /\ astray' = (loop = "prompt")
    /\ UNCHANGED ussdVars

\* Nothing is asked, and nothing is to confirm.
Answers(s) == /\ Converse(s)
              /\ summary' = None /\ sends' = 0
              /\ UNCHANGED <<ussdVars, handler>>

PromptArrives ==
    /\ handler.do = "prompt"
    /\ handler' = Free
    /\ latest' = IF session = None THEN None ELSE handler.q
    /\ summary' = handler.shows
    /\ UNCHANGED <<ussdVars, session, sends, astray, pushVars, neat>>

\* The error of Send is thrown away.
PromptFails ==
    /\ handler.do = "prompt"
    /\ handler' = Free /\ astray' = TRUE
    /\ UNCHANGED <<ussdVars, session, latest, summary, sends, pushVars, neat>>

\* Mutant: a session that is there stays.
CmdWizardKeeps == \E kind \in {"send", "ussd"} :
                    /\ handler = Free /\ neat' = TRUE /\ UNCHANGED pushVars
                    /\ Asks(IF session = None THEN Fresh(kind) ELSE session, kind, None)

\* cmdSend and cmdUSSD replace what was going on.
CmdWizard == \E kind \in {"send", "ussd"} :
               /\ handler = Free /\ neat' = TRUE /\ UNCHANGED pushVars
               /\ Asks(Fresh(kind), kind, None)

CmdCancel == Takes(TRUE) /\ Answers(None)

\* Any keyboard serves any session; the modem and the step are two updates.
OnPickModem ==
    \E prefix \in {"send", "ussd"}, d \in Devs :
      /\ prefix = "ussd" => d = UssdDev
      /\ Takes(latest = prefix)
      /\ IF session = None THEN Answers(None)
         ELSE /\ session' = [session EXCEPT !.dev = d, !.started = 0]
              /\ handler' = [do |-> "pick", prefix |-> prefix]
              /\ latest' = None /\ summary' = None /\ sends' = 0
              /\ UNCHANGED <<ussdVars, astray>>

PickMoves ==
    /\ handler.do = "pick"
    /\ UNCHANGED <<pushVars, neat>>
    /\ LET toSend == handler.prefix = "send"
           step   == IF toSend THEN "peer" ELSE "text"
       IN Asks(IF session = None THEN None ELSE [session EXCEPT !.step = step],
               IF toSend THEN "peer" ELSE "command", None)

\* Mutant: the summary is made of the session as it was.
SummariseBefore(s) == Asks(s, "summary", Shown(session))

\* promptConfirmSend reads the session again.
Summarise(s) == Asks(s, "summary", Shown(s))

\* SendSMS starts: handler waits for it.
Sends(call) == /\ handler' = call
               /\ UNCHANGED <<ussdVars, session, latest, astray>>

\* executeUSSD: an unknown modem, one without USSD and a busy one refuse.
ExecuteUSSD(s) ==
    \/ /\ s.dev = UssdDev /\ Begins("bot")
       /\ session' = [s EXCEPT !.started = mm.n + 1]
       /\ handler' = [do |-> "initiate"]
       /\ summary' = None /\ sends' = 0 /\ UNCHANGED <<latest, astray>>
    \/ ~(s.dev = UssdDev /\ mm.st = "idle") /\ Answers(None)

\* onConfirmSend looks at the kind of the session, not at its step.
OnConfirmSend ==
    /\ Takes(summary # None)
    /\ CASE session = None -> Answers(None)
         [] session # None /\ session.kind = "send" ->
              /\ Sends([do |-> "send", dev |-> session.dev, peer |-> session.peer, text |-> session.text])
              /\ sends' = IF summary = None THEN sends ELSE sends + 1
              /\ UNCHANGED summary
         [] OTHER -> ExecuteUSSD(session)

\* handleSessionInput.
Inputs(w) ==
    IF session = None THEN Answers(None)
    ELSE CASE session.step = "peer" ->
                Asks([session EXCEPT !.peer = w, !.step = "text"], "text", None)
           [] session.step = "text" /\ session.kind = "send" ->
                Summarise([session EXCEPT !.text = w, !.step = "confirm"])
           [] session.step = "text" /\ session.kind = "ussd" ->
                ExecuteUSSD([session EXCEPT !.text = w, !.step = "confirm"])
           [] session.step = "response" ->
                IF mm.st = "user_response"
                THEN /\ Responds("bot") /\ handler' = [do |-> "respond"]
                     /\ summary' = None /\ sends' = 0
                     /\ UNCHANGED <<session, latest, astray>>
                ELSE Answers(None)
           [] OTHER -> Answers(session)

HandleWord == \E w \in Words : Takes(TRUE) /\ Inputs(w)

DirectReply(w) ==
    /\ Sends([do |-> "direct", dev |-> UssdDev, peer |-> Sender, text |-> w])
    /\ summary' = None /\ sends' = 0

\* A message that quotes the push: handleDirectSMSReply comes first, and a
\* reply to a push that is not on record is taken as input.
HandleReply ==
    \E w \in Words :
      /\ pushed # "no"
      /\ Takes(TRUE)
      /\ IF pushed = "recorded" THEN DirectReply(w) ELSE Inputs(w)

HandleUpdate == \/ CmdWizard \/ CmdCancel \/ OnPickModem \/ PickMoves \/ OnConfirmSend
                \/ HandleWord \/ HandleReply \/ PromptArrives \/ PromptFails

-----------------------------------------------------------------------------
(* The calls of the provider return.                                        *)
Returns(s) == /\ handler' = Free /\ Converse(s)
              /\ neat' = (s = None \/ neat)
              /\ UNCHANGED <<summary, sends, pushVars>>

\* Mutant: the conversation goes on when the message is sent.
SendReturnsOnly ==
    /\ handler.do \in {"send", "direct"}
    /\ Returns(session)
    /\ UNCHANGED ussdVars

\* SendSMS succeeds, fails, or runs into its 30 s.
SendReturns ==
    /\ handler.do \in {"send", "direct"}
    /\ Returns(IF handler.do = "send" THEN None ELSE session)
    /\ UNCHANGED ussdVars

\* Mutant: the answer of Initiate ends the step that the prompt has begun.
UssdReturnsStep ==
    /\ handler.do \in {"initiate", "respond"}
    /\ mm.call \in {"answered", "failed"}
    /\ mm' = [mm EXCEPT !.call = "none"]
    /\ Returns(IF mm.call = "failed" \/ session = None THEN None
               ELSE [session EXCEPT !.step = "confirm"])
    /\ UNCHANGED <<entry, events, rows, lost, unwritten>>

\* Initiate or Respond is answered.
UssdReturns ==
    /\ handler.do \in {"initiate", "respond"}
    /\ mm.call \in {"answered", "failed"}
    /\ mm' = [mm EXCEPT !.call = "none"]
    /\ Returns(IF mm.call = "failed" THEN None ELSE session)
    /\ UNCHANGED <<entry, events, rows, lost, unwritten>>

\* The 30 s of Initiate; Respond has no limit.
InitiateTimesOut ==
    /\ handler.do = "initiate" /\ mm.call = "waiting"
    /\ mm' = [mm EXCEPT !.call = "none"]
    /\ Returns(None)
    /\ UNCHANGED <<entry, events, rows, lost, unwritten>>

-----------------------------------------------------------------------------
(* The dialogue moves by itself, or by the web page (httpapi/ussd.go).      *)
DialogueMoves ==
    /\ NetworkStep \/ Ends \/ Begins("web") \/ Responds("web")
    /\ UNCHANGED <<botVars, pushVars, neat>>

-----------------------------------------------------------------------------
(* The runner, and the bot's pushLoop.                                      *)
Hears(ev) == LET room == Len(sub) < SubCap IN
             /\ sub' = IF room THEN Append(sub, ev) ELSE sub
             /\ unheard' = ~room

\* handleEvent and fanout, whatever was written.
RunnerStep ==
    /\ events # <<>>
    /\ events' = Tail(events)
    /\ \E failed \in SUBSET Writes : /\ rows' = Persisted(rows, Head(events), failed)
                                     /\ unwritten' = failed
    /\ Hears(Head(events).st)
    /\ UNCHANGED <<mm, entry, lost, botVars, loop, pushed, neat>>

SmsArrives ==
    /\ pushed = "no" /\ loop = "idle" /\ sub = <<>>
    /\ sub' = <<"sms">> /\ UNCHANGED unheard
    /\ UNCHANGED <<ussdVars, botVars, loop, pushed, neat>>

Loops(at, queue) == /\ loop' = at /\ sub' = queue
                    /\ UNCHANGED <<ussdVars, botVars, neat, unheard>>

\* pushSMSReceived: Telegram shows the message before Send returns, and the
\* bot records it after that.
PushShows ==
    /\ loop = "idle" /\ sub # <<>> /\ Head(sub) = "sms"
    /\ pushed' = "visible"
    /\ Loops("sms", Tail(sub))

PushRecords ==
    /\ loop = "sms"
    /\ pushed' = "recorded"
    /\ Loops("idle", sub)

\* UssdStateChanged: is the session about this dialogue?
PushLooks ==
    /\ loop = "idle" /\ sub # <<>> /\ Head(sub) # "sms"
    /\ UNCHANGED pushed
    /\ LET concerned == /\ Head(sub) = "user_response"
                        /\ session # None /\ session.kind = "ussd" /\ session.dev = UssdDev
       IN Loops(IF concerned THEN "ussd" ELSE "idle", Tail(sub))

\* It was: whatever session there is by now waits for the answer, and the
\* question is on its way.
PushAsks ==
    /\ loop = "ussd"
    /\ session' = IF session = None THEN None ELSE [session EXCEPT !.step = "response"]
    /\ astray' = (handler.do = "prompt")
    /\ loop' = "prompt"
    /\ UNCHANGED <<ussdVars, handler, latest, summary, sends, sub, pushed, unheard, neat>>

PushPrompts ==
    /\ loop = "prompt"
    /\ \/ /\ latest' = IF session = None THEN None ELSE "response"
          /\ UNCHANGED astray
       \/ astray' = TRUE /\ UNCHANGED latest
    /\ loop' = "idle"
    /\ UNCHANGED <<ussdVars, session, handler, summary, sends, sub, pushed, unheard, neat>>

PushLoop == PushShows \/ PushRecords \/ PushLooks \/ PushAsks \/ PushPrompts

-----------------------------------------------------------------------------
(* The bot is replaced (Controller.Reload), or the daemon restarts: what    *)
(* was in memory is gone, the chat is still there.                          *)
BotRestarts ==
    /\ Converse(None) /\ handler' = Free
    /\ mm' = [mm EXCEPT !.call = "none"]
    /\ sub' = <<>> /\ loop' = "idle" /\ unheard' = FALSE
    /\ pushed' = IF pushed = "no" THEN "no" ELSE "visible"
    /\ summary' = None /\ sends' = 0 /\ neat' = TRUE
    /\ UNCHANGED rows

Reload == BotRestarts /\ UNCHANGED <<entry, events, lost, unwritten>>

DaemonRestarts == /\ BotRestarts
                  /\ entry' = Unknown /\ events' = <<>> /\ lost' = FALSE /\ unwritten' = Writes

-----------------------------------------------------------------------------
Next == \/ Expires
        \/ HandleUpdate \/ SendReturns \/ UssdReturns \/ InitiateTimesOut
        \/ DialogueMoves \/ RunnerStep \/ SmsArrives \/ PushLoop
        \/ Reload \/ DaemonRestarts

Spec == Init /\ [][Next]_vars

-----------------------------------------------------------------------------
Session == [kind : {"send", "ussd"},
            step : {"modem", "peer", "text", "confirm", "response"},
            dev : Devs \cup {None}, peer : Words \cup {None},
            text : Words \cup {None}, started : 0..MaxDialogues]

Questions == {"send", "ussd", "summary", "peer", "text", "command", "response"}

(* Every variable has its type, and a call that is waited for at            *)
(* ModemManager is one of the handler's.                                    *)
TypeOK ==
    /\ UssdTypeOK
    /\ session \in Session \cup {None}
    /\ \/ handler = Free \/ handler.do \in {"pick", "send", "direct", "initiate", "respond"}
       \/ handler.do = "prompt" /\ handler.q \in Questions
    /\ mm.call # "none" => handler.do \in {"initiate", "respond"}
    /\ sub \in Seq({"sms", None} \cup States) /\ Len(sub) <= SubCap
    /\ loop \in {"idle", "sms", "ussd", "prompt"} /\ pushed \in {"no", "visible", "recorded"}
    /\ latest \in Questions \cup {None}
    /\ sends \in Nat
    /\ neat \in BOOLEAN /\ astray \in BOOLEAN /\ unheard \in BOOLEAN

(* A user who confirms the summary that is in front of him sends what it    *)
(* shows, although the button names no summary and the session may have     *)
(* changed: to this number, from this modem, this text.                     *)
ConfirmedAsShown ==
    (handler.do = "send" /\ summary # None) => Shown(handler) = summary

(* A summary that is confirmed several times, because the first tap seemed  *)
(* to do nothing, is sent once.                                             *)
SentOnce == sends <= 1

(* To a user who waits for the bot and uses its latest keyboard, the next   *)
(* word means what the bot asked for last, whoever asked: the wizard, or    *)
(* the network through pushLoop.  It need not if a question could not be    *)
(* sent, or while one goroutine was sending the other updated the session:  *)
(* the questions may then appear in another order than the steps.           *)
QuestionIsMeant ==
    (neat /\ ~astray /\ handler = Free /\ loop = "idle" /\ session # None) =>
      CASE session.step = "modem"    -> latest = session.kind
        [] session.step = "peer"     -> latest = "peer" /\ session.kind = "send"
        [] session.step = "text"     -> latest = IF session.kind = "send" THEN "text" ELSE "command"
        [] session.step = "response" -> latest = "response"
        [] OTHER -> session.kind = "send" => latest = "summary"

(* When the network asks something in a dialogue that the conversation      *)
(* began, and the event got through, the user's next word answers it: also  *)
(* when the event overtakes the answer of Initiate, and whatever keyboards  *)
(* he pressed.                                                              *)
UserIsAsked ==
    (/\ mm.st = "user_response"
     /\ session # None /\ session.started = mm.n
     /\ events = <<>> /\ ~lost /\ sub = <<>> /\ ~unheard /\ loop \in {"idle", "prompt"})
      => session.step = "response"

=============================================================================
