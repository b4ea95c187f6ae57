----------------------------- MODULE MCWorkload -----------------------------
(* Workload on small instances. *)
EXTENDS Workload, TLC

(* Calls and connections are interchangeable. *)
Symmetry == Permutations(Task) \cup Permutations(Conn)
=============================================================================
