CONSTANTS
    Devs = {d1}
    Sims = {s1}
    Texts = {m1}
    PushSMS = TRUE
    None = None
    Unseen = Unseen
    MaxBots = 2
    MaxEvents = 4
    MaxSendFaults = 1
    EventCap = 2
SPECIFICATION FairSpec
INVARIANTS SmsPushedOnce NoStaleOffline SimIsTold
PROPERTIES QueuedSmsIsPushed AbsenceIsTold
CHECK_DEADLOCK FALSE
