CONSTANTS
    asker = asker
    helper = helper
    helper2 = helper2
    r1 = r1
    r2 = r2
    bread = bread
    water = water
    t1 = t1
    t2 = t2
    NoItem = NoItem
    Users = {asker, helper, helper2}
    Requests = {r1, r2}
    Items = {bread, water}
    Requester <- MCRequester
    Owner <- MCOwner
    Qty <- TwoThenOne
    Reach <- SecondFarther
    InitialRadius = 1
    MaxRadius = 2
    MaxActiveMatchesPerHelper = 2
    MaxActiveRequestsPerUser = 3
    MaxStock = 2
SPECIFICATION MCSpec
PROPERTY
    BlockedPairsNeverMatch
