CONSTANTS
    asker = asker
    helper = helper
    r1 = r1
    bread = bread
    NoItem = NoItem
    Users = {asker, helper}
    Requests = {r1}
    Items = {bread}
    Requester <- MCRequester
    Owner <- MCOwner
    Qty <- OneUnit
    Reach <- AllNear
    InitialRadius = 1
    MaxRadius = 2
    MaxActiveMatchesPerHelper = 2
    MaxActiveRequestsPerUser = 3
    MaxStock = 1
    MaxFaults = 1
    MaxCrashes = 1
    MaxLate = 1
    phone1 = phone1
    Exports = {1, 2}
    Facts = {1, 2}
    TableOf <- MCTableOf
    Scrubbed = {1}
    Phones = {phone1}
    MaxPolls = 1
    ExportsPerDay = 1
    MaxDeaths = 1
SPECIFICATION MCSpec
CHECK_DEADLOCK FALSE
INVARIANTS
    JobsTypeOK
    EveryWaitHasItsJob
    OnlyRacesOutliveDeletion
    SharedIsWhole
PROPERTIES
    ReadyStaysAsItWas
    WaitsEnd
