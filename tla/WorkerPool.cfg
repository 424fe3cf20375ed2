SPECIFICATION Spec
CONSTANTS
  Agents = {a1}
  ProgressAgents = {}
  NoAgent = NoAgent
  Sources = {s1, s2, s3}
  Kinds = {"test_connection"}
  Commands = {1, 2}
  NoRequest = NoRequest
  NoRun = NoRun
  ScheduledSources = {s1, s2}
  ClaimLimit = 10
  MaxWorkers = 2
  AgentAckFields <- DeclaredAckFields
  MaxEdits = 0
  MaxRestarts = 0
  MaxCollections = 0
INVARIANT PoolIsUsedRight
