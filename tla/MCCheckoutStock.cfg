SPECIFICATION Spec
CONSTANTS
  c1 = c1
  c2 = c2
  c3 = c3
  r1 = r1
  r2 = r2
  Requests <- TwoRequests
  Checkouts <- TwoCheckouts
  Nobody = Nobody
  Keys = {k}
  NoKey = NoKey
  Unused = Unused
  Offers = {"buy_now"}
  Sessions = {"open"}
  LineCount = 1
  Capacity <- OneEach
  TTL = 1
  MaxTTL = 1
  MaxTime = 2
  MaxEdits = 0
  MaxFaults = 0
CHECK_DEADLOCK FALSE
SYMMETRY CheckoutRequestSymmetry
PROPERTIES UsesInventory
