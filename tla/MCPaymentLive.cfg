SPECIFICATION FairSpec
CONSTANTS
  o1 = o1
  p1 = p1
  p2 = p2
  t1 = t1
  t2 = t2
  t3 = t3
  NoJob = NoJob
  Orders = {o1}
  Payments = {p1}
  Threads = {t1, t2}
  OrderOf <- OneOrder
  MethodOf <- AllOnline
  High <- NoneHigh
  ChargeRaces = FALSE
  LostReplies = FALSE
  Crashes = FALSE
  MaxRefunds = 2
CHECK_DEADLOCK FALSE
INVARIANT RefundedIsBacked
PROPERTY MoneyComesBack
PROPERTY PendingEnds
PROPERTY DriftIsReported
