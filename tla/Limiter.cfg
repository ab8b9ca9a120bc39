SPECIFICATION FairRetrySpec
CONSTANTS
  Tasks = {t1, t2, t3, t4, t5}
  MaxConcurrent = 2
  MaxQueued = 2
  MaxAttempts = 3
  InitialDelay = 2
  MaxDelay = 3
  Multiplier = 2
INVARIANTS
  LoopTypeOK
  ActiveCountsRunning
  NoIdlePlace
  QueueIsWaiting
  BackoffSchedule
PROPERTIES
  FirstComeFirstServed
  WaitingServed
  NoAttemptAfterAbort
