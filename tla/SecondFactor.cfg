\* Two concurrent requests, two credentials, two batches of recovery codes.
CONSTANTS
  Requests = {r1, r2}
  Creds = {c1, c2}
  MaxBatch = 2
  MaxClock = 1
  Threshold = 1
  MaxFailures = 1
  None = None
SPECIFICATION Spec
SYMMETRY Symmetry
CONSTRAINT UntilOverwritten
INVARIANTS CodesAreContained MfaStaysOn
PROPERTIES TotpIsSingleUse FactorIsProtected
