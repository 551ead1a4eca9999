\* Two concurrent checks in two contexts, two concurrent writers, all writes.
CONSTANTS
  Orgs = {o1}
  Relations = {viewer}
  Subjects = {s1}
  PolicyIds = {p1}
  NoPolicy = NoPolicy
  SeedDatabase <- SeededDatabase
  Writers = {w1, w2}
  MaxRevision = 3
  Checkers = {c1, c2}
  NumSlots = 1
  NoRequest = NoRequest
  NoOrg = NoOrg
  Calls <- FullCalls
  NoEntry = NoEntry
  NoResult = NoResult
  NoSnapshot = NoSnapshot
SPECIFICATION Spec
SYMMETRY CheckerSymmetry
INVARIANTS RevisionNamesSnapshot CacheEntriesMatchHistory AnswersAreFresh
PROPERTY RevisionsAdvance
