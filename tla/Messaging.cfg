CONSTANTS
    p = p
    q = q
    t1 = t1
    t2 = t2
    t3 = t3
    d1 = d1
    d2 = d2
    n1 = n1
    n2 = n2
    key1 = key1
    People = {p, q}
    Texts = {t1, t2, t3}
    Author <- MCAuthor
    PageLimit = 2
    Helper = q
    MaxMinute = 1
    MaxTries = 2
    Devices = {d1, d2}
    Notes = {n1, n2}
    Keys = {key1}
    KeyOf <- MCKeyOf
    Urgent = {n2}
SPECIFICATION MCSpec
CHECK_DEADLOCK FALSE
INVARIANTS
    MessagingTypeOK
    TranscriptHolds
    DeliveredOnce

    
