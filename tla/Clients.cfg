CONSTANTS
    x = x
    y = y
    g1 = g1
    g2 = g2
    r = r
    h = h
    s1 = s1
    s2 = s2
    t1 = t1
    t2 = t2
    e1 = e1
    e2 = e2
    w1 = w1
    NoAccount = NoAccount
    Addresses = {x, y}
    MaxLost = 1
    MaxCalls = 2
    MaxAbandoned = 1
    Slugs = {g1, g2}
    MaxQty = 2
    MaxPresses = 3
    MaxSaves = 2
    ActiveRequests = 2
    Days = 2
    Pair = {r, h}
    MaxUnheard = 1
    MaxVisits = 2
    NoOne = NoOne
    Tabs = {t1, t2}
    Staff = {s1, s2}
    ConsoleEvents = {e1, e2}
    Wanted = {w1}
    MaxSessions = 2
    MaxTyped = 2
    MaxCreated = 2
    MaxWantSaves = 2
    MaxMissed = 1
    Ids = {1, 2, 3}
    MaxInstant = 4
    PageSize = 1
    c1 = c1
    c2 = c2
    c3 = c3
    Attendees = {r, h}
    Order <- MCOrder
    Amounts = {1, 4}
    MaxOffer <- MCMaxOffer
    K = 2
    Listed = 1
    Banned = {c3}
    MaxEdits = 2
SPECIFICATION MCSpec
CHECK_DEADLOCK FALSE
INVARIANTS
    ClientsTypeOK
    SignUpIsOwn
    FormsActOnce
    MatchScreenHolds
    ConsoleHolds
    PagesHold
    BoardHolds
PROPERTIES
    ClientStepsHold
    ClientsSettle
