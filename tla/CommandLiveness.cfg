SPECIFICATION FairSpec
CONSTANTS
  Agents = {a1}
  ProgressAgents = {}
  NoAgent = NoAgent
  Sources = {s1}
  Kinds = {"run_now", "test_connection"}
  Commands = {1}
  NoRequest = NoRequest
  NoRun = NoRun
  ScheduledSources = {}
  ClaimLimit = 1
  MaxWorkers = 4
  AgentAckFields <- RepairedAckFields
  MaxEdits = 0
  MaxRestarts = 1
  MaxCollections = 2
PROPERTIES EveryCommandEnds EveryResultIsAcknowledged
INVARIANTS TypeOK SuccessHasEvidence
