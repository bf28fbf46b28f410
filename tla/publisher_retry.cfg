SPECIFICATION Spec
CONSTANTS
  first = first
  second = second
  r1 = r1
  r2 = r2
  NoRecord = NoRecord
  NoJob = NoJob
  Jobs <- MCJobs
  Records = {r1, r2}
  RecordOf <- MCOwnRecord
  MaxAttempts <- MCTwoAttempts
  LockCoversRuntime = TRUE
  Concurrency = 2
  ManualRetryBound = 0
INVARIANTS
  RetryNotBlockedByItself
CHECK_DEADLOCK FALSE
