SPECIFICATION Spec
CONSTANTS
  first = first
  second = second
  r1 = r1
  r2 = r2
  NoRecord = NoRecord
  NoJob = NoJob
  Jobs <- MCJobs
  Records = {r1, r2}
  RecordOf <- MCOwnRecord
  MaxAttempts <- MCTwoAttempts
  LockCoversRuntime = FALSE
  Concurrency = 2
  ManualRetryBound = 0
PROPERTIES
  SuccessIsFinal
CHECK_DEADLOCK FALSE
