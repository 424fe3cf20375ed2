SPECIFICATION Spec
CONSTANTS
  Agents = {a1}
  ProgressAgents = {}
  NoAgent = NoAgent
  Sources = {s1}
  Kinds = {"run_now"}
  Commands = {1}
  NoRequest = NoRequest
  NoRun = NoRun
  ScheduledSources = {}
  ClaimLimit = 10
  MaxWorkers = 4
  AgentAckFields <- DeclaredAckFields
  MaxEdits = 0
  MaxRestarts = 0
  MaxCollections = 1
PROPERTY AcceptedSubmissionSucceeds
