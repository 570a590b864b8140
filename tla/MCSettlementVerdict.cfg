\* Two members of staff rule on one deposit, nothing failing; run by hand.
SPECIFICATION Spec
CONSTANTS
    Orders = {o1}
    Drivers = {d1}
    NoDriver = NoDriver
    Workers = {w1, w2}
    NoJob = NoJob
    Staff = {s1, s2}
    Nobody = Nobody
    ExpectFromCod = TRUE
    MaxActive = 1
    MaxAssigns = 1
    MaxSlips = 0
    Windows = {}
INVARIANT DebitedIsCharged
CHECK_DEADLOCK FALSE
