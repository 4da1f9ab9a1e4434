\* Two admins who take each other's rights away at the same time.
CONSTANTS
  u1 = u1
  u2 = u2
  u3 = u3
  e1 = e1
  e2 = e2
  e3 = e3
  Users = {u1, u2, u3}
  Emails = {e1, e2, e3}
  Requests = {w1, w2}
  Edits = {w1, w2}
  Registrations <- MCRegistrations
  Patches <- MCPatches
  Tables <- MCTables
  MaxInFlight = 2
  Keep = Keep
  NoUser = NoUser
  NoToken = NoToken
SYMMETRY Symmetry
SPECIFICATION Spec
INVARIANT AdminRemains
