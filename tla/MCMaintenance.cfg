SPECIFICATION MaintenanceSpec
CONSTANTS
  e1 = e1
  r1 = r1
  r2 = r2
  Emails = {e1}
  Runs = {r1, r2}
  Nobody = Nobody
  MaxAttempts = 2
  LeaseTime = 1
  RetryDelay = 1
  MaxTime = 6
  MaxSlow = 1
  MaxFaults = 2
  MaxResends = 1
  j1 = j1
  j2 = j2
  w1 = w1
  Requests = {1}
  Jobs = {j1, j2}
  Writers = {w1}
  Written = {"orders", "emails"}
  MaxWrites = 1
  MaxPurchases = 1
  MaxFailures = 1
  ev1 = ev1
  ev2 = ev2
  h1 = h1
  h2 = h2
  Paid = {ev1, ev2}
  Strays = {ev2}
  Replayers = {h1}
  MaxTries = 2
  Lease = 2
  FirstRetry = 1
  LastRetry = 2
  ClockEnd = 5
  MaxDeliveries = 1
  MaxTroubles = 3
CHECK_DEADLOCK FALSE
INVARIANTS BoundedSends CompletedIsErased HalfErasedIsResumed
PROPERTIES VerdictsStay Drains DeletionsEnd FlowsEnd
