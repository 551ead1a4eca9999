\* Two concurrent requests, one reset token, one session, one failure.
CONSTANTS
  Requests = {r1, r2}
  Keys <- MCKeys
  Threshold <- MCThreshold
  MaxResets = 1
  MaxLogins = 1
  MaxFailures = 1
  NoUser = NoUser
SPECIFICATION Spec
SYMMETRY Symmetry
INVARIANTS ResetTakesHold SessionsEndWithReset PendingAccountsCanVerify LoginGuessesAreBounded
