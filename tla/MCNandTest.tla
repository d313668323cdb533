----------------------------- MODULE MCNandTest -----------------------------
(* The fatigue test on a few files. *)
EXTENDS NandTest
=============================================================================
