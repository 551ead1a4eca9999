\* Checks of every kind and batches of two subjects, one call after another.
CONSTANTS
  Orgs = {o1}
  Relations = {viewer}
  Subjects = {s1, s2}
  PolicyIds = {p1}
  NoPolicy = NoPolicy
  SeedDatabase <- SeededDatabase
  Writers = {w1, w2}
  MaxRevision = 3
  Checkers = {c1}
  NumSlots = 2
  NoRequest = NoRequest
  NoOrg = NoOrg
  Calls <- AllCalls
  NoEntry = NoEntry
  NoResult = NoResult
  NoSnapshot = NoSnapshot
SPECIFICATION Spec
SYMMETRY WriterSymmetry
INVARIANT BatchSpansTwoStates
PROPERTY ImplementsContract
