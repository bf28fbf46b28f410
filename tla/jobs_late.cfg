SPECIFICATION Spec
CONSTANTS
  first = first
  second = second
  r1 = r1
  r2 = r2
  NoRecord = NoRecord
  NoJob = NoJob
  Jobs <- MCJobs
  Records = {r1}
  RecordOf <- MCSharedRecord
  MaxAttempts <- MCOneHasTwo
  LockCoversRuntime = FALSE
  Concurrency = 2
  ManualRetryBound = 1
INVARIANTS
  LedgerKeysFresh
  OnePublishCall
  PublishedHasResult
CHECK_DEADLOCK FALSE
