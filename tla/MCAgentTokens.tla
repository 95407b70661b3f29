---------------------------- MODULE MCAgentTokens ----------------------------
(* Instances of AgentTokens for TLC: secrets, requests and agents are      *)
(* interchangeable in every property that is not a temporal refinement.    *)
EXTENDS AgentTokens, TLC

Symmetry == Permutations(Secrets) \cup Permutations(Requests) \cup Permutations(Agents)
=============================================================================
