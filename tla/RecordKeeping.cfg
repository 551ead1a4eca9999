\* Batches of two, a buffer of two, two audited requests, one crash of the
\* process they share.
CONSTANTS
  MaxBuffer = 2
  FlushBatch = 2
  MaxEntries = 5
  MaxCrashes = 1
  Requests = {r1, r2}
SPECIFICATION RecordSpec
CHECK_DEADLOCK FALSE
INVARIANTS NothingIsLostSilently LossIsBounded TrailIsWhole TamperingIsLocated
PROPERTY BufferedEntriesSettle
