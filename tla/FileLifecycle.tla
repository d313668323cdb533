---------------------------- MODULE FileLifecycle ----------------------------
(***************************************************************************)
(* What a flash is tired with in test_nand.c: every file is written while  *)
(* it does not exist, read one or more times after it was written, and     *)
(* removed only after it was read.  A file counts as written when its      *)
(* writer has closed it, however much of it reached the flash.             *)
(***************************************************************************)
CONSTANT Files

VARIABLE stage   \* stage[f]: "absent", "written" or "read"

TypeOK == stage \in [Files -> {"absent", "written", "read"}]

\* Some files may be left from before.
Init == stage \in [Files -> {"absent", "written"}]

Move(f, from, to) == stage[f] = from /\ stage' = [stage EXCEPT ![f] = to]

Next ==
  \E f \in Files : Move(f, "absent", "written") \/ Move(f, "written", "read")
                     \/ Move(f, "read", "absent")

Spec == Init /\ [][Next]_stage
=============================================================================
