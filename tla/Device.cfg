CONSTANTS
    a = a
    b = b
    e = e
    o1 = o1
    o2 = o2
    f1 = f1
    f2 = f2
    mine = mine
    p1 = p1
    None = None
    Users = {a, b}
    Events = {e}
    Ops = {o1, o2}
    Poison = {o2}
    DropAfter = 1
    MaxFaults = 1
    Offers = {f1, f2}
    Mine = mine
    MaxScreens = 3
    MaxChecks = 2
    MaxRestarts = 1
    Pings = {p1}
    MaxLosses = 1
SPECIFICATION MCSpec
CHECK_DEADLOCK FALSE
INVARIANTS
    PhoneTypeOK
    DeviceKeepsItsOwn
    ShownOnce
    OffMeansNoPosition
PROPERTIES
    PhoneSettles
