CONSTANTS
    o1 = o1
    o2 = o2
    w1 = w1
    w2 = w2
    s1 = s1
    s2 = s2
    Orders = {o1, o2}
    WalkIns = {o1}
    Workers = {w1, w2}
    Sweeps = {s1, s2}
    NoJob = NoJob
    NoSweep = NoSweep
    EffectTopics = {"LOYALTY_AWARD"}
    VoidTopics = {}
    Worth <- OnePoint
    TierOf <- Ladder
    Tiers = {"REGULAR", "SILVER", "GOLD"}
    MaxAttempts = 2
    MaxSlips = 0
    MaxSpent = 0
SPECIFICATION Spec
INVARIANT PointsTakenBack
CHECK_DEADLOCK FALSE
