--------------------------- MODULE MCGuardSdSpace ---------------------------
(* The daemon with two directories and a few files. *)
EXTENDS GuardSdSpace

\* Two files of one second, then one of another.
MCTimes == [f \in 1 .. MaxFiles |-> (f + 1) \div 2]
=============================================================================
