\* A proof queued offline reaches the server after the deposit; run by hand.
SPECIFICATION Spec
CONSTANTS
    Orders = {o1}
    Drivers = {d1}
    NoDriver = NoDriver
    Workers = {w1}
    NoJob = NoJob
    Staff = {s1}
    Nobody = Nobody
    ExpectFromCod = TRUE
    MaxActive = 1
    MaxAssigns = 1
    MaxSlips = 0
    Windows = {}
INVARIANT NothingGoesUnasked
CHECK_DEADLOCK FALSE
