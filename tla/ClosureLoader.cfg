\* Viewers who are not blocked, groups nested in any way, a bound of two hops.
CONSTANTS
  Objects <- MCObjects
  Relations <- MCRelations
  Rewrites <- MCRewrites
  Configs <- OnlyDifference
  Resource = "d"
  Target = "u"
  MaxDepth = 2
  MaxCalls = 100
SPECIFICATION Spec
INVARIANT LoadedClosureNeverOpens
