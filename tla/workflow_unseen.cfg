SPECIFICATION Spec
CONSTANTS
  brief = brief
  text = text
  art = art
  u1 = u1
  u2 = u2
  Nodes = {brief, text, art}
  Edges <- MCBranch
  Agents = {text}
  Visits <- MCOnce
  NoStageRun = NoStageRun
  Users = {u1, u2}
  PoolSize = 3
  Faults = 0
CHECK_DEADLOCK FALSE
INVARIANTS
  ExecutedStageIsRunning
