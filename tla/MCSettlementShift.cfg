\* A delivery outside every shift: assigned during check-out, or ended in overtime; run by hand.
SPECIFICATION Spec
CONSTANTS
    Orders = {o1}
    Drivers = {d1}
    NoDriver = NoDriver
    Workers = {w1, w2}
    NoJob = NoJob
    Staff = {s1}
    Nobody = Nobody
    ExpectFromCod = TRUE
    MaxActive = 1
    MaxAssigns = 1
    MaxSlips = 0
    Windows = {}
INVARIANT EndsInAShift
CHECK_DEADLOCK FALSE
