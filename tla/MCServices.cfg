SPECIFICATION ServicesSpec
CONSTANTS
  Used = {"subscription", "cart", "audit", "token", "workflow"}
  a1 = a1
  Free = Free
  Length = 2
  Timelines <- Stories
  Actions = {a1}
  MaxFaults = 1
  r1 = r1
  r2 = r2
  NoRequest = NoRequest
  o1 = o1
  Others = {o1}
  Requests = {r1, r2}
  Operations = {"add", "update", "remove", "merge", "coupon", "move", "save"}
  Carts = {1, 2, 3, 4}
  Items = {1, 2}
  Limit = 2
  MaxClaims = 1
  MaxLapses = 1
  c1 = c1
  c2 = c2
  c3 = c3
  k1 = k1
  NoKey = NoKey
  Clients = {c1, c2, c3}
  Keys = {k1}
  Inputs = {"a", "b"}
  MaxBreaks = 2
  v1 = v1
  v2 = v2
  v3 = v3
  Visits = {v1, v2, v3}
  Tokens = {1, 2}
  MaxThrows = 1
  ev1 = ev1
  ev2 = ev2
  h1 = h1
  h2 = h2
  Paid = {ev1, ev2}
  Strays = {ev2}
  Replayers = {h1, h2}
  MaxTries = 2
  Lease = 2
  FirstRetry = 1
  LastRetry = 2
  ClockEnd = 3
  MaxDeliveries = 1
  MaxTroubles = 3
SYMMETRY RequestSymmetry
CHECK_DEADLOCK FALSE
INVARIANTS SettledAgrees OneCart UnitsAreKept OneRunPerKey UsedOnce CustomerIsTold
PROPERTIES NoRevival
