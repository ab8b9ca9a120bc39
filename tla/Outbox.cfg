SPECIFICATION FairSpec
CONSTANTS
  j1 = j1
  j2 = j2
  k1 = k1
  Jobs <- MCJobs
  Keys <- MCKeys
  KeyOf <- MCKeyOf
  Workers = {w1, w2}
  MaxAttempts = 2
  Limit = 2
  MaxStops = 1
INVARIANTS
  TypeOK
  SucceededGone
  TerminalAfterMaxAttempts
PROPERTIES
  JobsSettle
CHECK_DEADLOCK FALSE
