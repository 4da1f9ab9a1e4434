\* A commit fails after the coupon was reserved: the use is not returned.
CONSTANTS
  Products = {p1}
  Requests = {r1, r2}
  Customers = {c1}
  Nobody = Nobody
  NoOrder = NoOrder
  MaxQty = 1
  Writes = {}
  Stocks = {2}
  Edited = {}
  EditStocks = {}
  Prices = {1}
  EditPrices = {}
  EditShelves = {}
  CouponUse = {TRUE}
  UsageLimit = 1
  Faults = {"commit_fails"}
  MaxInFlight = 1
SYMMETRY Symmetry
SPECIFICATION Spec
INVARIANTS UseReturned
