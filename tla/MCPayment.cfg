SPECIFICATION Spec
CONSTANTS
  d1 = d1
  d2 = d2
  a1 = a1
  p1 = p1
  p2 = p2
  some = some
  all = all
  Deliveries <- TwoDeliveries
  Admins = {}
  Paid <- OnePaid
  Refunds <- BothRefunds
  Nobody = Nobody
  Total = 2
  Reversed <- InTwoParts
  LineCount = 1
  LeaseTime = 1
  Conditions = {"overlap"}
  MaxTime = 1
  MaxFaults = 1
SYMMETRY Symmetry
CHECK_DEADLOCK FALSE
INVARIANTS SettledIsDone
PROPERTIES RefundIsFinal
