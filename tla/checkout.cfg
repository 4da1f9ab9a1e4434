\* Two checkouts that may wait for each other's rows and compete for the only use of a
\* coupon; one product is edited, the cart is written, commits fail or lose their answer.
CONSTANTS
  Products = {p1, p2}
  Requests = {r1, r2}
  Customers = {c1}
  Nobody = Nobody
  NoOrder = NoOrder
  MaxQty = 1
  Writes = {1}
  Stocks = {1}
  Edited = {p1}
  EditStocks = {0}
  Prices = {1}
  EditPrices = {2}
  EditShelves = {"inactive"}
  CouponUse = {TRUE, FALSE}
  UsageLimit = 1
  Faults = {"crash", "commit_fails", "ack_lost", "stripe_down"}
  MaxInFlight = 2
SPECIFICATION FairSpec
INVARIANTS TypeOK RowsPinned ValidatedStaysTrue CouponAccounted CouponWithinLimit
PROPERTY SellsAtomically EveryCheckoutEnds
