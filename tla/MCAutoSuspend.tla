--------------------------- MODULE MCAutoSuspend ---------------------------
(* AutoSuspend on small instances. *)
EXTENDS AutoSuspend, TLC

(* Requests are interchangeable. *)
Symmetry == Permutations(Req)
=============================================================================
