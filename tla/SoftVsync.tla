------------------------------ MODULE SoftVsync ------------------------------
(***************************************************************************)
(* test_soft_vsync.c with -P: a thread per interrupt line takes the time   *)
(* of each interrupt and posts a semaphore; main waits for both and prints *)
(* the difference.  When the microseconds of the last difference were      *)
(* below zero main holds the base thread with base_sync, waits for the     *)
(* diff line only, and throws away what was posted besides.                *)
(*                                                                         *)
(* Only tv_usec decides, which may be anything at any interrupt.  The      *)
(* semaphores are named, never unlinked and opened without a value: they   *)
(* may begin with what an earlier run left.  The gpio pin and the single   *)
(* line mode are left out.                                                 *)
(***************************************************************************)
EXTENDS Integers

CONSTANTS
  MaxUsec,     \* tv_usec is 0 .. MaxUsec
  MaxPosts     \* bound on the interrupts of a line that main has not waited for

ASSUME VsyncAssumption == {MaxUsec, MaxPosts} \subseteq Nat \ {0}

VARIABLES
  vsync,       \* main: "off", "create" (diff_start held), "loop", "both", "diff", "compare",
               \* "alone" (compare, base_sync held), "drain", "unlock", "print", "exited"
  line,        \* [base, diff]: the threads: "start", "read", "stamp", "post", "sync"
  sem,         \* base_sem, diff_sem
  time,        \* base_time, diff_time: their tv_usec
  base_sync,   \* held by main
  usec

vsyncVars == <<vsync, line, sem, time, base_sync, usec>>

Lines == {"base", "diff"}

VsyncOff ==
  /\ vsync = "off" /\ line = [l \in Lines |-> "start"]
  /\ sem = [l \in Lines |-> 0] /\ time = [l \in Lines |-> 0]
  /\ base_sync = FALSE /\ usec = 0
VsyncInit ==
  /\ vsync = "create" /\ line = [l \in Lines |-> "start"]
  /\ sem \in [Lines -> 0 .. MaxPosts] /\ time = [l \in Lines |-> 0]
  /\ base_sync = FALSE /\ usec = 0

-----------------------------------------------------------------------------
(* soft_irq_thread_base and soft_irq_thread_diff                             *)

Running == vsync \notin {"off", "exited"}
LineGoes(l, from, to) == Running /\ line[l] = from /\ line' = [line EXCEPT ![l] = to]

Begin(l) ==
  /\ vsync # "create"
  /\ LineGoes(l, "start", "read")
  /\ UNCHANGED <<vsync, sem, time, base_sync, usec>>
Irq(l) ==
  /\ sem[l] < MaxPosts
  /\ LineGoes(l, "read", "stamp")
  /\ UNCHANGED <<vsync, sem, time, base_sync, usec>>
Stamp(l) ==
  /\ LineGoes(l, "stamp", "post")
  /\ \E t \in 0 .. MaxUsec : time' = [time EXCEPT ![l] = t]
  /\ UNCHANGED <<vsync, sem, base_sync, usec>>
Post(l) ==
  /\ LineGoes(l, "post", "sync")
  /\ sem' = [sem EXCEPT ![l] = @ + 1]
  /\ UNCHANGED <<vsync, time, base_sync, usec>>

\* A thread locks its mutex and unlocks it again: that of the diff line is never held.
HoldsDiff(l) == l = "diff"                                               \* mutant
Holds(l) == l = "base"
Sync(l) ==
  /\ base_sync => ~ Holds(l)
  /\ LineGoes(l, "sync", "read")
  /\ UNCHANGED <<vsync, sem, time, base_sync, usec>>

-----------------------------------------------------------------------------
(* main                                                                      *)

Goes(from, to) == vsync = from /\ vsync' = to
SemWait(l) == sem[l] > 0 /\ sem' = [sem EXCEPT ![l] = @ - 1]

CreateThreads ==
  /\ Goes("create", "loop")
  /\ UNCHANGED <<line, sem, time, base_sync, usec>>
WaitBase ==
  /\ Goes("loop", "both") /\ usec >= 0
  /\ SemWait("base")
  /\ UNCHANGED <<line, time, base_sync, usec>>
LockBase ==
  /\ Goes("loop", "diff") /\ usec < 0
  /\ base_sync' = TRUE
  /\ UNCHANGED <<line, sem, time, usec>>
WaitDiff ==
  /\ \/ Goes("both", "compare")
     \/ Goes("diff", "alone")
  /\ SemWait("diff")
  /\ UNCHANGED <<line, time, base_sync, usec>>
Compare ==
  /\ \/ Goes("compare", "print")
     \/ Goes("alone", "drain")
  /\ usec' = time["diff"] - time["base"]
  /\ UNCHANGED <<line, sem, time, base_sync>>

\* The loops of sem_trywait are over before another interrupt comes.
Drain ==
  /\ \/ Goes("drain", "unlock") /\ sem' = [sem EXCEPT !["base"] = 0]
     \/ Goes("unlock", "print") /\ sem' = [sem EXCEPT !["diff"] = 0]
  /\ base_sync' = (vsync' # "print")
  /\ UNCHANGED <<line, time, usec>>
PrintDiff ==
  /\ Goes("print", "loop")
  /\ UNCHANGED <<line, sem, time, base_sync, usec>>

Sigstop ==
  /\ Running /\ vsync' = "exited"
  /\ UNCHANGED <<line, sem, time, base_sync, usec>>

VsyncMain ==
  CreateThreads \/ WaitBase \/ LockBase \/ WaitDiff \/ Compare \/ Drain \/ PrintDiff
LineStep(l) == Begin(l) \/ Irq(l) \/ Stamp(l) \/ Post(l) \/ Sync(l)
VsyncNext == VsyncMain \/ (\E l \in Lines : LineStep(l)) \/ Sigstop

\* The program runs and both lines go on interrupting.
VsyncFairness == WF_vsyncVars(VsyncMain) /\ \A l \in Lines : WF_vsyncVars(LineStep(l))

-----------------------------------------------------------------------------

\* Every variable has its type.
VsyncTypeOK ==
  /\ line \in [Lines -> {"start", "read", "stamp", "post", "sync"}]
  /\ sem \in [Lines -> 0 .. MaxPosts] /\ time \in [Lines -> 0 .. MaxUsec]
  /\ base_sync = (vsync \in {"diff", "alone", "drain", "unlock"}) \/ vsync = "exited"
  /\ usec \in -MaxUsec .. MaxUsec

\* While both lines interrupt, differences are printed: main, which holds one thread and
\* waits for the other, never waits for an interrupt that its own lock keeps back, nor
\* for one that it has thrown away, whatever the semaphores held at the start.
DifferencesPrinted == []<>(vsync \in {"off", "print", "exited"})
=============================================================================
