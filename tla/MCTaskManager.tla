--------------------------- MODULE MCTaskManager ---------------------------
(* TaskManager on a small instance: agents are interchangeable.            *)
EXTENDS TaskManager, TLC

AgentSymmetry == Permutations(Agents)
=============================================================================
