CONSTANTS
    a = a
    b = b
    d1 = d1
    d2 = d2
    o1 = o1
    o2 = o2
    t1 = t1
    t2 = t2
    Lines = {a, b}
    Depots = {d1, d2}
    Orders = {o1}
    DepotOf <- OneLineEach
    Cart <- Anywhere
    Qty <- OneUnit
    Stock = 1
    Threads = {t1, t2}
    NoCall = NoCall
    NoJob = NoJob
    NoDepot = NoDepot
    Breaks = {}
    MaxStock = 2
    MaxCounts = 0
    Kinds = {"delivery"}
    Crashes = {}
    MaxTries <- Twice
    MaxMoves = 1
SPECIFICATION Spec
SYMMETRY ThreadSymmetry
INVARIANTS NoLiveOrderRefunded
CHECK_DEADLOCK FALSE
