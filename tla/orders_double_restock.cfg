\* A customer cancels twice at once: both requests restock.
CONSTANTS
  Products = {p1}
  Requests = {r1, r2}
  Orders = {o1}
  Events = {e1}
  Nobody = Nobody
  Unknown = Unknown
  NoJob = NoJob
  MaxQty = 1
  Stocks = {0}
  EditStocks = {}
  Roles = {"customer"}
  Kinds = {"other"}
  Faults = {}
  MaxInFlight = 2
SYMMETRY Symmetry
SPECIFICATION Spec
INVARIANTS NoPhantomUnit
