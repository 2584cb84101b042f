------------------------------ MODULE MCAgents ------------------------------
(***************************************************************************)
(* Instances of Agents for model checking: two agents that compete for one *)
(* task.                                                                   *)
(***************************************************************************)
EXTENDS Agents, TLC

WorkerSymmetry == Permutations(Workers)
=============================================================================
