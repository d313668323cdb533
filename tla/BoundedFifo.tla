---------------------------- MODULE BoundedFifo ----------------------------
(***************************************************************************)
(* What a message queue promises its callers, whatever it is made of: a    *)
(* first-in first-out sequence of at most Capacity messages.  A put        *)
(* appends one message, a take removes the oldest one and hands it to      *)
(* exactly one caller; nothing else ever happens to the messages.          *)
(***************************************************************************)
EXTENDS Naturals, Sequences

CONSTANTS
  Threads,    \* the callers
  Msg,        \* the messages
  Capacity    \* how many messages fit

VARIABLES
  queue,      \* the messages put and not yet taken, oldest first
  got         \* got[t]: the last message handed to caller t

vars == <<queue, got>>

Init ==
  /\ queue = <<>>
  /\ got \in [Threads -> Msg]

Put(m) ==
  /\ Len(queue) < Capacity
  /\ queue' = Append(queue, m)
  /\ UNCHANGED got

Take(t) ==
  /\ queue # <<>>
  /\ got' = [got EXCEPT ![t] = Head(queue)]
  /\ queue' = Tail(queue)

Next ==
  \/ \E m \in Msg : Put(m)
  \/ \E t \in Threads : Take(t)

Spec == Init /\ [][Next]_vars
=============================================================================
