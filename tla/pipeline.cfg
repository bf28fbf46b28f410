SPECIFICATION FairPipelineSpec
CONSTANTS
  job = job
  stageRun = stageRun
  Attempts = 1
  LockCoversRuntime = FALSE
  Concurrency = 2
  ManualRetryBound = 1
  Slots = {s1}
  Users = {u1}
  Faults = 1
  NoRecord = NoRecord
  NoJob = NoJob
  NoEvent = NoEvent
  NoStage = NoStage
  Unsupported = Unsupported
  NoSubject = NoSubject
  NotTerminal = NotTerminal
INVARIANTS
  PipelineTypeOK
  StrandedOnlyByRecovery
PROPERTIES
  StageAnswered
CHECK_DEADLOCK FALSE
