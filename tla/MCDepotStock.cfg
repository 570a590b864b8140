CONSTANTS
    a = a
    b = b
    d1 = d1
    o1 = o1
    o2 = o2
    t1 = t1
    t2 = t2
    Lines = {a, b}
    Depots = {d1}
    Orders = {o1, o2}
    DepotOf <- OneDepot
    Cart <- TwoLines
    Qty <- OneEach
    Stock = 1
    Threads = {t1, t2}
    NoCall = NoCall
    Breaks = {"consume"}
    MaxStock = 0
    MaxCounts = 1
SPECIFICATION DepotSpec
SYMMETRY ThreadSymmetry
INVARIANTS DepotTypeOK ReservedIsHeld HeldWholly LedgerMatchesShelf
PROPERTIES OnlySalesGoBelowZero
