CONSTANTS
    t1 = t1
    c1 = c1
    Requests = {p1, p2}
    Testers = {q1}
    Changers = {h1, h2}
    Tokens = {t1}
    Chats = {c1, c2}
    Passwords = {w1, w2}
    FileConfig <- MCFileConfig
    FilePassword = NoPassword
    NoToken = NoToken
    NoRow = NoRow
    NoBot = NoBot
    NoPassword = NoPassword
    Keep = Keep
    Nobody = Nobody
    MaxPuts = 2
    MaxChanges = 2
    MaxRestarts = 1
    MaxFaults = 2
SPECIFICATION Spec
SYMMETRY Symmetry
INVARIANTS BotFollowsTable FieldsAreKept DevModeOnlyUnread PasswordSurvives
CHECK_DEADLOCK FALSE
