------------------------ MODULE MCMachineAgentClaim ------------------------
(***************************************************************************)
(* MachineAgentClaim for TLC: machines and agents are interchangeable, and *)
(* no action or safety property tells one from another by its name.        *)
(***************************************************************************)
EXTENDS MachineAgentClaim, TLC

Interchangeable == Permutations(Machines) \cup Permutations(Agents)
=============================================================================
