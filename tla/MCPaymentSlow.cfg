SPECIFICATION FairSpec
CONSTANTS
  d1 = d1
  d2 = d2
  a1 = a1
  p1 = p1
  p2 = p2
  some = some
  all = all
  Deliveries <- TwoDeliveries
  Admins = {}
  Paid <- OnePaid
  Refunds = {}
  Nobody = Nobody
  Total = 2
  Reversed <- Nothing
  LineCount = 1
  LeaseTime = 1
  Conditions = {"slow", "same_instant"}
  MaxTime = 1
  MaxFaults = 1
CHECK_DEADLOCK FALSE
INVARIANTS CompletedIsGranted
PROPERTIES EventsSettle
