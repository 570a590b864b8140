CONSTANTS
    o1 = o1
    o2 = o2
    w1 = w1
    w2 = w2
    Orders = {o1, o2}
    WalkIns = {o1}
    Workers = {w1, w2}
    NoJob = NoJob
    NoOrder = NoOrder
    Legacy = Legacy
    EffectTopics = {"REFERRAL_QUALIFY"}
    VoidTopics = {"REFERRAL_REVERSE"}
    MaxAttempts = 2
    MaxSlips = 0
    Windows = {"prepare"}
SPECIFICATION Spec
INVARIANT VoidedKeepsNothing
CHECK_DEADLOCK FALSE
