SPECIFICATION Spec
CONSTANTS
  d1 = d1
  d2 = d2
  a1 = a1
  p1 = p1
  p2 = p2
  some = some
  all = all
  Deliveries <- TwoDeliveries
  Admins <- OneAdmin
  Paid <- OnePaid
  Refunds <- WholeRefund
  Nobody = Nobody
  Total = 2
  Reversed <- AtOnce
  LineCount = 1
  LeaseTime = 1
  Conditions = {"early"}
  MaxTime = 0
  MaxFaults = 1
SYMMETRY Symmetry
CHECK_DEADLOCK FALSE
INVARIANTS BlockedHasNoAccess
PROPERTIES RevocationIsFinal
