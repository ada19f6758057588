---------------------------- MODULE MCAgentTasks -----------------------------
(* Jobs, messages and workers have no order among themselves. *)
EXTENDS AgentTasks, TLC

Interchangeable ==
    Permutations(Jobs) \cup Permutations(Ingests) \cup Permutations(Regens)

=============================================================================
