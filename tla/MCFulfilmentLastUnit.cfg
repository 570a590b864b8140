\* Two orders want one unit, one of them at least at the counter.
CONSTANTS
    a = a
    b = b
    d1 = d1
    d2 = d2
    o1 = o1
    o2 = o2
    t1 = t1
    t2 = t2
    Lines = {a}
    Depots = {d1}
    Orders = {o1, o2}
    DepotOf <- OneLine
    Cart <- Anywhere
    Qty <- OneUnit
    Stock = 1
    Threads = {t1, t2}
    NoCall = NoCall
    NoJob = NoJob
    NoDepot = NoDepot
    Breaks = {}
    MaxStock = 2
    MaxCounts = 0
    Kinds = {"app", "counter", "legacy"}
    Crashes <- CrashOps
    MaxTries <- Twice
    MaxMoves = 0
SPECIFICATION LastUnitSpec
SYMMETRY Alike
INVARIANTS RestockedOnce PromisedIsThere
CHECK_DEADLOCK FALSE
