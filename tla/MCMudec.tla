------------------------------ MODULE MCMudec ------------------------------
(* The player on small instances. *)
EXTENDS Mudec
=============================================================================
