\* One order while requests die and any call breaks off; run by hand.
CONSTANTS
    a = a
    b = b
    d1 = d1
    d2 = d2
    o1 = o1
    o2 = o2
    t1 = t1
    t2 = t2
    Lines = {a, b}
    Depots = {d1, d2}
    Orders = {o1}
    DepotOf <- OneLineEach
    Cart <- Anywhere
    Qty <- OneUnit
    Stock = 2
    Threads = {t1, t2}
    NoCall = NoCall
    NoJob = NoJob
    NoDepot = NoDepot
    Breaks <- CallOps
    MaxStock = 4
    MaxCounts = 0
    Kinds = {"counter", "legacy"}
    Crashes <- ButVoid
    MaxTries <- Twice
    MaxMoves = 0
SPECIFICATION Spec
SYMMETRY ThreadSymmetry
INVARIANTS RestockedOnce
CHECK_DEADLOCK FALSE
