SPECIFICATION FairSpec
CONSTANTS
  brief = brief
  text = text
  art = art
  u1 = u1
  u2 = u2
  Nodes = {brief, text}
  Edges <- MCChain
  Agents = {brief, text}
  Visits <- MCOnce
  NoStageRun = NoStageRun
  Users = {u1, u2}
  PoolSize = 3
  Faults = 1
CHECK_DEADLOCK FALSE
PROPERTIES
  AgentsAreRequested
  RequestsFinish
