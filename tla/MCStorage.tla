------------------------------ MODULE MCStorage ------------------------------
(* Storage on small instances. *)
EXTENDS Storage, TLC

(* VMs, device ids and pids are interchangeable. *)
Symmetry == Permutations(Vm) \cup Permutations(Dev) \cup Permutations(Pid)
=============================================================================
