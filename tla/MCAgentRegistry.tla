--------------------------- MODULE MCAgentRegistry ---------------------------
(* AgentRegistry on small instances. *)
EXTENDS AgentRegistry, TLC

(* Calls, threads and paths are interchangeable. *)
AgentSymmetry ==
    Permutations(Spawns) \cup Permutations(Closes) \cup Permutations(Threads)
        \cup Permutations(Paths)
===============================================================================
