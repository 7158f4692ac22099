CONSTANTS
    ann = ann
    ben = ben
    r1 = r1
    r2 = r2
    bread = bread
    water = water
    Requests = {r1, r2}
    Users = {ann, ben}
    Items = {bread, water}
    RequesterOf <- AnnThenBen
    HelperOf <- BenThenAnn
    ItemOf <- BreadThenWater
    Processes = {t1, t2, t3}
    OrderBreakers = TRUE
SPECIFICATION Spec
INVARIANT
    NoDeadlock
