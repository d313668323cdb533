----------------------------- MODULE MCMsgQueue -----------------------------
(* The message queue on a small instance; the bugs its runs would find. *)
EXTENDS MsgQueue, TLC

Symmetry == Permutations(Threads) \cup Permutations(Msg)
=============================================================================
