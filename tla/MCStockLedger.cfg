SPECIFICATION FairSpec
CONSTANTS
  i1 = i1
  i2 = i2
  e1 = e1
  e2 = e2
  e3 = e3
  Items <- OneItem
  Events <- ThreeEvents
  Seed <- TwoUnits
  Definitions <- OnlyStrict
  NoItem = NoItem
  Keys = {}
  NoKey = NoKey
  Customers = {c1}
  Nobody = Nobody
  MaxQty = 2
  MaxTime = 2
PROPERTIES ImplementsInventory HoldsDrain
