\* A consumer that starts with or without a token; connections break, another organization writes.
CONSTANTS
  Orgs = {o1, o2}
  Relations = {member}
  Subjects = {s1}
  PolicyIds = {}
  NoPolicy = NoPolicy
  SeedDatabase <- EmptyDatabase
  Writers = {w1}
  MaxRevision = 3
  Consumers = {k1}
  WatchedOrg = o1
  FirstIds <- SomeOrNone
  NoId = NoId
  PageSize = 2
  MaxWire = 2
  MaxBreaks = 1
SPECIFICATION Spec
INVARIANT StreamCoversHistory
PROPERTY EveryChangeArrives
