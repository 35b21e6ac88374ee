--------------------------- MODULE MCAgentSession ---------------------------
(***************************************************************************)
(* Memories are alike, and so are requests.                                *)
(***************************************************************************)
EXTENDS AgentSession, TLC

Symmetry == Permutations(Memories) \cup Permutations(Requests)
=============================================================================
