\* Two overlapping ticks, pages of up to two changes, an organization over the bound.
CONSTANTS
  Orgs = {o1, o2}
  Relations = {member}
  Subjects = {s1, s2}
  PolicyIds = {}
  NoPolicy = NoPolicy
  SeedDatabase <- EmptyDatabase
  Writers = {w1}
  MaxRevision = 3
  Ticks = {i1, i2}
  PageSize = 2
  MaxTuplesPerOrg = 1
  NoIndex = NoIndex
  NoDraft = NoDraft
  MaxAborts = 1
SPECIFICATION IndexingSpec
SYMMETRY Symmetry
INVARIANTS GateIsSound
