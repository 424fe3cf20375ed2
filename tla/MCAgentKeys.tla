---------------------------- MODULE MCAgentKeys ----------------------------
(* Instances of AgentKeys for TLC. *)
EXTENDS AgentKeys, TLC

\* Names that the specification never tells apart.
KeySymmetry == Permutations(Keys) \union Permutations(Hosts) \union Permutations(Tokens)

=============================================================================
