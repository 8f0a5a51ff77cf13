------------------------------ MODULE MCEngine ------------------------------
(* The engine's locks on small instances.                                  *)
EXTENDS Engine

=============================================================================
