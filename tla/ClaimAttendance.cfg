CONSTANTS
    volunteer = volunteer
    moderator = moderator
    row1 = row1
    mail = mail
    staffMail = staffMail
    NoAccount = NoAccount
    NoAddress = NoAddress
    NoName = NoName
    Devices = {d1, d2}
    Accounts = {volunteer, row1}
    Addresses = {mail}
    Usernames = {n1}
    Known = {volunteer}
    Staff = {}
    InitialAddress <- MCInitialAddress
    MaxCodes = 1
    OtpMaxAttempts = 2
    MaxGuesses = 3
    Reports = {rep}
    MaxActions = 2
    MaxAppeals = 2
    m1 = m1
    h1 = h1
    h2 = h2
    NoMember = NoMember
    Members = {m1}
    Calls = {h1, h2}
    TICK = 2
    DAY = 4
    StartsAt = 5
    EndsAt = 11
    LocationTTL = 2
    MaxLate = 1
    Horizon = 14
SPECIFICATION MCSpec
CHECK_DEADLOCK FALSE
INVARIANTS
    DecliningTheLastDayLeaves
