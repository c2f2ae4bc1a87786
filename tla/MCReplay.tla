------------------------------ MODULE MCReplay ------------------------------
(* Replay on a small instance: agents are interchangeable.                 *)
EXTENDS Replay, TLC

AgentSymmetry == Permutations(Agents)
=============================================================================
