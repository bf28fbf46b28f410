SPECIFICATION ServicesSpec
CONSTANTS
  e1 = e1
  e2 = e2
  e3 = e3
  s1 = s1
  s2 = s2
  q1 = q1
  q2 = q2
  g1 = g1
  g2 = g2
  g3 = g3
  i1 = i1
  i2 = i2
  r1 = r1
  u1 = u1
  u2 = u2
  Sources = {s1, s2}
  Entries = {e1, e2, e3}
  SourceOf <- MCSourceOf
  PackTasks = {task}
  Queries = {q1, q2}
  Matching <- MCMatching
  NoQuery = NoQuery
  Limits = {2}
  KnowledgeUsers = {u1, u2}
  InitialSources = {s1}
  InitialEntries <- MCInitialEntries
  MaxPackVersion = 2
  MaxKnowledgeRequests = 3
  Checksums = {c1, c2, c3}
  AssetUsers = {u1, u2}
  AuditTxs = {x1, x2, x3}
  DefVersions = {1, 2, 3}
  DefGraphs <- MCDefGraphs
  GraphsFor <- MCGraphsFor
  Activators = {u1, u2}
  Callers = {x1, x2, x3}
  RequestLimit = 2
  CostLimit = 5
  CostPerRequest = 2
  Unlimited = Unlimited
  LastDay = 2
  Policies <- MCPolicies
  RuntimeRequests <- MCRuntimeRequests
  MaxAttempts = 2
  RegistryRows = {i1, i2}
  SlotOf <- MCSlotOf
  RegistryUsers = {u1, u2}
  FirstResults = {r1}
  FirstEvaluated = {r1}
  Metered <- MCMetered
  ModelCount = 2
  RateCards <- MCRateCards
  EvalRequests = {u1, u2}
  Worker = Worker
SYMMETRY MCSymmetry
INVARIANTS
  ServicesTypeOK
  StaleOnlyIfRaced
  StageContextCurrent
  ContentStoredOnce
  PointerNotBehind
  ChainUnbroken
  OnlyReviewsDeadlock
  ValidationExact
  OneActiveVersion
  QuotaHolds
  OutsideOnlyWhenAllowed
  RefusalsNotRetried
  OneLivePerKey
  TrailEndsAtRow
  RevokedOnce
  OneEvaluationPerType
  JobsRunOnce
  SettledOnce
CHECK_DEADLOCK FALSE
