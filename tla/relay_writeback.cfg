SPECIFICATION FairSpec
CONSTANTS
  draft = draft
  NoEvent = NoEvent
  NoStage = NoStage
  Unsupported = Unsupported
  NoSubject = NoSubject
  NotTerminal = NotTerminal
  Events = {1, 2, 3}
  Slots = {s1, s2}
  Faults = 1
  Stages = {draft}
  Users = {u1}
  SubjectOf <- MCKinds
  ResultOf <- MCSuccesses
INVARIANTS
  TypeOK
  AppliedOnce
  ProcessedIsConsumed
PROPERTIES
  ConsumedOnce
  EventuallyProcessed
CHECK_DEADLOCK FALSE
