\* Customers, merchants and Stripe race over two orders, with every fault.
CONSTANTS
  Products = {p1, p2}
  Requests = {r1, r2, r3}
  Orders = {o1, o2}
  Events = {e1}
  Nobody = Nobody
  Unknown = Unknown
  NoJob = NoJob
  MaxQty = 1
  Stocks = {0}
  EditStocks = {2}
  Roles = {"customer", "merchant"}
  Kinds = {"success", "failure"}
  Faults = {"crash", "commit_fails"}
  MaxInFlight = 2
SYMMETRY Symmetry
SPECIFICATION Spec
INVARIANTS TypeOK RowsPinned NoUnitLost
PROPERTY RestocksWhole
