SPECIFICATION Spec
CONSTANTS
  brief = brief
  text = text
  art = art
  u1 = u1
  u2 = u2
  Nodes = {brief, text}
  Edges <- MCChain
  Agents = {text}
  Visits <- MCVisits
  NoStageRun = NoStageRun
  Users = {u1, u2}
  PoolSize = 3
  Faults = 1
SYMMETRY MCSymmetry
CHECK_DEADLOCK FALSE
INVARIANTS
  TypeOK
  ActivatedByApproval
  RunMatchesStages
