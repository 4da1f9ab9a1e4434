\* Four session requests and two admins who edit accounts, two at a time.
CONSTANTS
  u1 = u1
  u2 = u2
  u3 = u3
  e1 = e1
  e2 = e2
  e3 = e3
  Users = {u1, u2, u3}
  Emails = {e1, e2, e3}
  Requests = {r1, r2, r3, r4, w1, w2}
  Edits = {w1, w2}
  Registrations <- MCRegistrations
  Patches <- MCPatches
  Tables <- MCTables
  MaxInFlight = 2
  Keep = Keep
  NoUser = NoUser
  NoToken = NoToken
SYMMETRY Symmetry
SPECIFICATION Spec
INVARIANTS TypeOK OneLiveToken ExchangedOnce BurnHasCause KeysExpire ConflictsAreRaces
PROPERTIES TokensChained LastAdminOnlyByStaleActor
