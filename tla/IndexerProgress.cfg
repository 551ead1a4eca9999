\* Ticks that never overlap, one of which may die; two organizations.
CONSTANTS
  Orgs = {o1, o2}
  Relations = {member}
  Subjects = {s1}
  PolicyIds = {}
  NoPolicy = NoPolicy
  SeedDatabase <- EmptyDatabase
  Writers = {w1}
  MaxRevision = 3
  Ticks = {i1}
  PageSize = 1
  MaxTuplesPerOrg = 1
  NoIndex = NoIndex
  NoDraft = NoDraft
  MaxAborts = 1
SPECIFICATION IndexingSpec
PROPERTY IndexConverges
