\* A second attempt by either of two couriers, nothing failing; run by hand.
SPECIFICATION Spec
CONSTANTS
    Orders = {o1}
    Drivers = {d1, d2}
    NoDriver = NoDriver
    Workers = {w1, w2}
    NoJob = NoJob
    Staff = {}
    Nobody = Nobody
    ExpectFromCod = TRUE
    MaxActive = 1
    MaxAssigns = 2
    MaxSlips = 0
    Windows = {}
INVARIANTS TypeOK DeliveredStands
PROPERTIES DeliveredIsAsked
CHECK_DEADLOCK FALSE
SYMMETRY Symmetry
