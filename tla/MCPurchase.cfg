SPECIFICATION PurchaseSpec
CONSTANTS
  c1 = c1
  c2 = c2
  c3 = c3
  r1 = r1
  r2 = r2
  Requests <- TwoRequests
  Checkouts <- TwoCheckouts
  Nobody = Nobody
  Keys = {}
  NoKey = NoKey
  Unused = Unused
  Offers = {"cart"}
  Sessions = {"open", "paid", "closed"}
  LineCount = 1
  Capacity <- OneEach
  TTL = 1
  MaxTTL = 1
  MaxTime = 1
  MaxEdits = 2
  MaxFaults = 0
  Sellables = {"s"}
  Prices = {"p1", "p2"}
  SellableOf <- OneSellable
  Amounts = {3, 5}
  MaxPerOrder = 3
  StockRows <- Rows
  NoRow = NoRow
  Codes = {"c"}
  Rates = {2, NoRate}
  NoRate = NoRate
  Asks <- SomeAsks
  Fee = 1
  MaxAsks = 2
  MaxEditsOfPrices = 2
  Stories <- SomeStories
  OrderTotal = 2
  MaxTroubles = 1
CHECK_DEADLOCK FALSE
SYMMETRY CheckoutRequestSymmetry
INVARIANTS LiveCheckoutHoldsStock QuoteIsHonoured ChargedAsAgreed EventsReachTheirOrder
PROPERTIES PaidStaysPaid
