\* One order, one courier, one request at a time and nothing fails.
SPECIFICATION Spec
CONSTANTS
    Orders = {o1}
    Drivers = {d1}
    NoDriver = NoDriver
    Workers = {w1}
    NoJob = NoJob
    Staff = {s1}
    Nobody = Nobody
    ExpectFromCod = TRUE
    MaxActive = 1
    MaxAssigns = 1
    MaxSlips = 0
    Windows = {}
PROPERTIES KeptCashIsAsked
CHECK_DEADLOCK FALSE
