SPECIFICATION FairSpec
CONSTANTS
  c1 = c1
  c2 = c2
  c3 = c3
  r1 = r1
  r2 = r2
  Requests <- TwoRequests
  Checkouts <- OneCheckout
  Nobody = Nobody
  Keys = {}
  NoKey = NoKey
  Unused = Unused
  Offers = {"cart"}
  Sessions = {"open", "paid", "closed"}
  LineCount = 2
  Capacity <- OneEach
  TTL = 1
  MaxTTL = 2
  MaxTime = 2
  MaxEdits = 1
  MaxFaults = 1
CHECK_DEADLOCK FALSE
INVARIANTS NoAbandonedHold ClaimHasOwner
PROPERTIES NoTrappedCart
