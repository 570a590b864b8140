CONSTANTS
    o1 = o1
    w1 = w1
    w2 = w2
    c1 = c1
    Orders = {o1}
    WalkIns = {o1}
    Workers = {w1, w2}
    Cashouts = {c1}
    NoJob = NoJob
    EffectTopics = {"FRANCHISE_REVENUE"}
    VoidTopics = {"FRANCHISE_REVENUE_VOID"}
    MaxAttempts = 2
    MaxSlips = 1
    Sale = 3
    Commission = 1
SPECIFICATION Spec
INVARIANT VoidedIsBackedOut
CHECK_DEADLOCK FALSE
