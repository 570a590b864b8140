SPECIFICATION Spec
CONSTANTS
  o1 = o1
  p1 = p1
  p2 = p2
  t1 = t1
  t2 = t2
  t3 = t3
  NoJob = NoJob
  Orders = {o1}
  Payments = {p1, p2}
  Threads = {t1, t2}
  OrderOf <- OneOrder
  MethodOf <- OnlineThenCash
  High <- OnlineIsHigh
  ChargeRaces = FALSE
  LostReplies = FALSE
  Crashes = FALSE
  MaxRefunds = 2
SYMMETRY ThreadSymmetry
CHECK_DEADLOCK FALSE
INVARIANT CollectedMoneyIsOwed
