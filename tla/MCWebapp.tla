------------------------------ MODULE MCWebapp ------------------------------
(* Webapp on small instances. *)
EXTENDS Webapp
=============================================================================
