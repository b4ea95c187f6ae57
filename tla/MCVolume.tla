------------------------------- MODULE MCVolume -------------------------------
(* Volume on small instances. *)
EXTENDS Volume, TLC

(* The queue threads are interchangeable. *)
Symmetry == Permutations(Queue)
=============================================================================
