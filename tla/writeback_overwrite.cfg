SPECIFICATION Spec
CONSTANTS
  draft = draft
  NoEvent = NoEvent
  NoStage = NoStage
  Unsupported = Unsupported
  NoSubject = NoSubject
  NotTerminal = NotTerminal
  Events = {1, 2}
  Slots = {s1, s2}
  Faults = 0
  Stages = {draft}
  Users = {u1}
  SubjectOf <- MCSubjects
  ResultOf <- MCResults
PROPERTIES
  AppliedToRunningStage
CHECK_DEADLOCK FALSE
