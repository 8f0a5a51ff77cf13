------------------------------ MODULE MCServer ------------------------------
(* The daemon with a few connections and signals.                          *)
EXTENDS Server

=============================================================================
