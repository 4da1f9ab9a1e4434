\* Two requests at a time and no fault: no acknowledged payment is forgotten.
CONSTANTS
  Products = {p1, p2}
  Requests = {r1, r2}
  Orders = {o1, o2}
  Events = {e1}
  Nobody = Nobody
  Unknown = Unknown
  NoJob = NoJob
  MaxQty = 1
  Stocks = {0}
  EditStocks = {}
  Roles = {"customer", "merchant"}
  Kinds = {"success", "failure"}
  Faults = {}
  MaxInFlight = 2
SPECIFICATION FairSpec
INVARIANTS AckedIsApplied
PROPERTY EveryRequestEnds
