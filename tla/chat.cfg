CONSTANTS
    None = None
    Devs = {d1, d2}
    UssdDev = d1
    Words = {w1}
    Sender = p1
    SubCap = 1
    QueueCap = 1
    MaxDialogues = 2
SPECIFICATION Spec
INVARIANTS HistoryCatchesUp ConfirmedAsShown SentOnce QuestionIsMeant UserIsAsked
ACTION_CONSTRAINT Apart
CHECK_DEADLOCK FALSE
