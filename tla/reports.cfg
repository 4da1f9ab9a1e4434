\* Two requests to the limiter and the figures behind it, while orders move.
CONSTANTS
  o1 = o1
  o2 = o2
  m1 = m1
  m2 = m2
  Admin = adm
  Merchants = {m1, m2}
  Callers = {adm, m1}
  Requests = {r1, r2}
  MaxReports = 1
  Limit = 1
  LastMinute = 1
  NoCaller = NoCaller
  Orders = {o1, o2}
  Windows <- MCWindows
  Lines <- MCLines
  Coupons <- MCCoupons
  Starts <- MCStarts
SYMMETRY Symmetry
SPECIFICATION Spec
INVARIANTS TypeOK LimitHolds RefusedOnlyWhenFull CountersExpire WindowsNested AverageNotInflated DiscountAccounts
