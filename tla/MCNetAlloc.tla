------------------------------ MODULE MCNetAlloc ------------------------------
(* NetAlloc on small instances. *)
EXTENDS NetAlloc, TLC

(* VM ids and project ids are interchangeable. *)
Symmetry == Permutations(Vm) \cup Permutations(Project)
=============================================================================
