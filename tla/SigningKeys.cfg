\* One or two commands at once, one token at a time, two readers of the keys.
CONSTANTS
  Admins = {a1, a2}
  Issuers = {i1}
  Verifiers = {v1}
  AccessTtl = 2
  CacheTtl = 3
  MinRefresh = 1
  Delay = 1
  MaxVersion = 2
  MaxTokens = 1
  MaxTime = 3
  MaxDeaths = 1
SPECIFICATION KeySpec
SYMMETRY Symmetry
CONSTRAINT UntilLost
INVARIANTS KeysOutliveTheirTokens ActiveKeyIsLive NewKeysAreFound
