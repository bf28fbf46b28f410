SPECIFICATION Spec
CONSTANTS
  draft = draft
  NoEvent = NoEvent
  NoStage = NoStage
  Unsupported = Unsupported
  NoSubject = NoSubject
  NotTerminal = NotTerminal
  Events = {1, 2}
  Slots = {s1, s2}
  Faults = 1
  Stages = {draft}
  Users = {u1}
  SubjectOf <- MCSubjects
  ResultOf <- MCResults
PROPERTIES
  FailureKeepsProcessedAt
CHECK_DEADLOCK FALSE
