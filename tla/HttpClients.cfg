\* One guarded request at a time with a concurrent owner, a revocation and time;
\* one browser tab over two sessions, two requests of the demo account, two parallel
\* refreshes over three generations with one failure, two runs of the seed.
CONSTANTS
  Issuers = {i1}
  Guards = {g1}
  AccessTtl = 2
  ClockSkew = 1
  GuardDelay = 1
  MaxTime = 3
  NoToken = NoToken
  Never = Never
  NoRoute = NoRoute
  MaxLogins = 2
  MaxClicks = 3
  NoCookie = NoCookie
  Visitors = {v1, v2}
  ResolutionTtl = 2
  MaxMinutes = 5
  NotYet = NotYet
  Seeders = {d1, d2}
  SeedWrites = 10
  MaxDeaths = 1
  Requests = {r1, r2}
  MaxTokens = 3
  RaceRetries = 2
  MaxFailures = 1
  NoRefresh = NoRefresh
SPECIFICATION ClientsSpec
CHECK_DEADLOCK FALSE
INVARIANTS OlderTokensStayRevoked AccessFollowsDecisions DemoIsReady ShownCodesWork FamilyNeverForks RevokedFamilyStaysClosed ReuseEndsSession
PROPERTIES RedirectsSettle
