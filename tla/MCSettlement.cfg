\* One order, one courier, two requests at work at the same time, two failures.
SPECIFICATION Spec
CONSTANTS
    Orders = {o1}
    Drivers = {d1}
    NoDriver = NoDriver
    Workers = {w1, w2}
    NoJob = NoJob
    Staff = {s1, s2}
    Nobody = Nobody
    ExpectFromCod = TRUE
    MaxActive = 1
    MaxAssigns = 1
    MaxSlips = 2
    Windows = {}
INVARIANTS TypeOK DeliveredStands ChargedIsDebited
PROPERTIES DeliveredIsAsked ReturnedIsReversed
CHECK_DEADLOCK FALSE
