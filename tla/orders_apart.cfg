\* Overlapping requests, but no two decisions on one order at once: the table of moves,
\* and each restock once.
CONSTANTS
  Products = {p1, p2}
  Requests = {r1, r2, r3}
  Orders = {o1, o2}
  Events = {e1}
  Nobody = Nobody
  Unknown = Unknown
  NoJob = NoJob
  MaxQty = 1
  Stocks = {0}
  EditStocks = {2}
  Roles = {"customer", "merchant"}
  Kinds = {"success", "failure", "other"}
  Faults = {"crash", "commit_fails"}
  MaxInFlight = 2
SYMMETRY Symmetry
SPECIFICATION ApartSpec
INVARIANTS NoPhantomUnit
PROPERTY RestocksOnce FollowsTable
