CONSTANTS
  r1 = r1
  r2 = r2
  r3 = r3
  s1 = s1
  s2 = s2
  s3 = s3
  k1 = k1
  k2 = k2
  shirt = shirt
  mug = mug
  ann = ann
  bob = bob
  Nobody = Nobody
  Requests = {r1, r2}
  Ids = {s1, s2, s3}
  Existing = {s1}
  Ops = {"create", "update", "complete", "cancel", "get"}
  Keys = {k1, k2}
  Items = {shirt, mug}
  First = {shirt}
  Buyers = {ann, bob}
  Buyer = ann
  SessionTTL = 1
  ClaimTTL = 1
  Retention = 0
  Retries = 3
  MaxTime = 2
  MaxInFlight = 2
  MaxFaults = 1
SPECIFICATION Spec
SYMMETRY Symmetry
INVARIANTS ClaimsExclude PaymentIsRecorded SnapshotIsCharged CanceledStopsPayment
CHECK_DEADLOCK FALSE
