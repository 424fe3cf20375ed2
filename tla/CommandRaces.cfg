SPECIFICATION Spec
CONSTANTS
  Agents = {a1}
  ProgressAgents = {a1}
  NoAgent = NoAgent
  Sources = {s1}
  Kinds = {"test_connection"}
  Commands = {1, 2}
  NoRequest = NoRequest
  NoRun = NoRun
  ScheduledSources = {}
  ClaimLimit = 10
  MaxWorkers = 4
  AgentAckFields <- DeclaredAckFields
  MaxEdits = 2
  MaxRestarts = 0
  MaxCollections = 0
INVARIANTS OneActivePerSourceAndKind
PROPERTIES TerminalLeftOnlyByLateSave OrphanedOnlyByLateSteps
CONSTRAINT FewRequests
