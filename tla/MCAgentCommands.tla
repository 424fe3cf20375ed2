--------------------------- MODULE MCAgentCommands ---------------------------
(***************************************************************************)
(* Instances of AgentCommands for TLC.                                     *)
(***************************************************************************)
EXTENDS AgentCommands

\* The acknowledgement as internal/submission/client.go declares it.
DeclaredAckFields == {"status", "run_id", "observation_count", "payload_digest"}

\* The acknowledgement of an agent build that also knows the newer field.
RepairedAckFields == IngestReplyFields

\* Bound of the run with two commands and progress reports: requests in transit.
FewRequests == Cardinality(wire) <= 2
=============================================================================
