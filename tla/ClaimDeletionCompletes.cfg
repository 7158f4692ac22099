CONSTANTS
    asker = asker
    helper = helper
    r1 = r1
    bread = bread
    NoItem = NoItem
    Users = {asker, helper}
    Requests = {r1}
    Items = {bread}
    Requester <- MCRequester
    Owner <- MCOwner
    Qty <- OneUnit
    Reach <- AllNear
    InitialRadius = 1
    MaxRadius = 1
    MaxActiveMatchesPerHelper = 2
    MaxActiveRequestsPerUser = 3
    MaxStock = 1
    MaxCrashes = 0
    MaxLate = 0
SPECIFICATION DeletionSpec
CHECK_DEADLOCK FALSE
PROPERTY
    DeletionCompletes
