\* A process dies between the claim of an event and the commit.
CONSTANTS
  Products = {p1}
  Requests = {r1, r2}
  Orders = {o1}
  Events = {e1}
  Nobody = Nobody
  Unknown = Unknown
  NoJob = NoJob
  MaxQty = 1
  Stocks = {0}
  EditStocks = {}
  Roles = {}
  Kinds = {"success"}
  Faults = {"crash"}
  MaxInFlight = 1
SYMMETRY Symmetry
SPECIFICATION Spec
INVARIANTS AckedIsApplied
