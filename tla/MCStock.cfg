SPECIFICATION Spec
CONSTANTS
  i1 = i1
  i2 = i2
  e1 = e1
  e2 = e2
  e3 = e3
  Items <- TwoItems
  Events <- ThreeEvents
  Seed <- TwoAndOne
  Definitions <- AnyDefinition
  NoItem = NoItem
  Keys = {k1}
  NoKey = NoKey
  Customers = {}
  Nobody = Nobody
  MaxQty = 2
  MaxTime = 1
SYMMETRY EventSymmetry
INVARIANTS ReservedIsHeld NoOversell OnHandIsAccounted
PROPERTIES OversoldOnlyShrinks EndedReservationsStayEnded
