---------------------------- MODULE MCVmLifecycle ----------------------------
(* VmLifecycle on small instances. *)
EXTENDS VmLifecycle, TLC

(* Callers and Firecracker processes are interchangeable. *)
Symmetry == Permutations(Task) \cup Permutations(Proc)
=============================================================================
