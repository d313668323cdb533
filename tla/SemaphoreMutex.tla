--------------------------- MODULE SemaphoreMutex ---------------------------
(***************************************************************************)
(* semcli.cpp: programs that share a System V semaphore as a lock          *)
(* (CSemaphoreMutex).  Each gets or creates the semaphore, then tries the  *)
(* lock again and again, sleeps, and unlocks when it had it.  Any of them  *)
(* may be stopped, or killed at any moment: every operation on the         *)
(* semaphore carries SEM_UNDO, and the kernel then adds the process's      *)
(* adjustment to the value.  Programs may be started at any time, also     *)
(* while another creates the semaphore.                                    *)
(***************************************************************************)
EXTENDS Integers, FiniteSetsExt

CONSTANT Processes

VARIABLES
  value,    \* semval, or None when there is no semaphore
  undo,     \* undo[p]: what the kernel adds to semval when p exits
  pc,       \* "gone", "create", "setval", "run", "locked"; "lost": killed in "setval";
            \* "stale": runs with the id of a semaphore that was removed
  raced     \* semget with IPC_CREAT has taken a semaphore that another had created

vars == <<value, undo, pc, raced>>

None == -1

Init ==
  /\ value = None
  /\ undo = [p \in Processes |-> 0]
  /\ pc = [p \in Processes |-> "gone"]
  /\ raced = FALSE

Go(p, from, to) == pc[p] = from /\ pc' = [pc EXCEPT ![p] = to]

\* Create: semget of an existing semaphore.
Find(p) ==
  /\ Go(p, "gone", IF value # None THEN "run" ELSE "create")
  /\ UNCHANGED <<value, undo, raced>>

\* Create: semget with IPC_CREAT and without IPC_EXCL takes what is there by now.
\* A new semaphore is 0.
SemGet(p) ==
  /\ Go(p, "create", "setval")
  /\ value' = IF value = None THEN 0 ELSE value
  /\ raced' = (raced \/ value # None)
  /\ UNCHANGED undo

\* Create: semctl SETVAL sets the value and clears every adjustment.
SetToOne(p) ==
  /\ Go(p, "setval", "run")
  /\ value' = 1
  /\ undo' = [q \in Processes |-> 0]
  /\ UNCHANGED raced

\* When it fails the semaphore is removed and the program ends; whoever had its id is
\* left with it, and another one's SETVAL will fail too.
RemoveId(p) ==
  /\ pc[p] = "setval"
  /\ value' = None
  /\ undo' = [q \in Processes |-> 0]
  /\ pc' = [q \in Processes |->
       IF pc[q] = "setval" THEN "gone"
       ELSE IF pc[q] \in {"run", "locked"} THEN "stale" ELSE pc[q]]
  /\ UNCHANGED raced

\* semop: the value moves by sem_op and, with SEM_UNDO, the adjustment the other way.
SemOpWithoutUndo(p, sem_op) ==                                           \* mutant
  /\ value' = value + sem_op
  /\ undo' = undo
SemOpUndoDown(p, sem_op) ==                                              \* mutant
  /\ value' = value + sem_op
  /\ undo' = [undo EXCEPT ![p] = IF sem_op < 0 THEN @ - sem_op ELSE @]
SemOp(p, sem_op) ==
  /\ value' = value + sem_op
  /\ undo' = [undo EXCEPT ![p] = @ - sem_op]

\* TryLock; when it fails, CliSem sleeps and tries again.
TryLock(p) ==
  /\ value > 0
  /\ Go(p, "run", "locked")
  /\ SemOp(p, -1)
  /\ UNCHANGED raced

Unlock(p) ==
  /\ Go(p, "locked", "run")
  /\ SemOp(p, 1)
  /\ UNCHANGED raced

\* At the exit of a process the kernel adds its adjustment, but never below 0.
Undone(p) ==
  /\ value' = IF value = None THEN None ELSE Max({0, value + undo[p]})
  /\ undo' = [undo EXCEPT ![p] = 0]

\* CliSem ends between two tries; Destroy leaves the semaphore for the others.
Stop(p) ==
  /\ Go(p, "run", "gone") \/ Go(p, "stale", "gone")
  /\ Undone(p)
  /\ UNCHANGED raced

\* The process is killed.
Kill(p) ==
  /\ \/ Go(p, "create", "gone") \/ Go(p, "setval", "lost")
     \/ Go(p, "run", "gone") \/ Go(p, "locked", "gone") \/ Go(p, "stale", "gone")
  /\ Undone(p)
  /\ UNCHANGED raced

Next ==
  \E p \in Processes :
    \/ Find(p) \/ SemGet(p) \/ SetToOne(p) \/ RemoveId(p)
    \/ TryLock(p) \/ Unlock(p) \/ Stop(p) \/ Kill(p)

Spec == Init /\ [][Next]_vars

-----------------------------------------------------------------------------

\* The semaphore's value is never negative, the adjustments are numbers.
TypeOK ==
  /\ value \in Nat \cup {None}
  /\ undo \in [Processes -> Int]
  /\ pc \in [Processes -> {"gone", "create", "setval", "run", "locked", "lost", "stale"}]
  /\ raced \in BOOLEAN

\* No two programs hold the lock, whichever of them were stopped or killed before
\* (SEM_UNDO on both the lock and the unlock), unless a semget without IPC_EXCL took a
\* semaphore another program had created since: the second SETVAL frees a lock that may
\* be held.
MutualExclusion ==
  ~ raced => \A p, q \in Processes : pc[p] = "locked" /\ pc[q] = "locked" => p = q

\* The lock is not left taken by nobody: if the value is 0 somebody holds it, or the
\* semaphore is being created, or its creator was killed before SETVAL.  Again unless
\* two programs created it at once.
NeverWedged ==
  ~ raced /\ value = 0 => \E p \in Processes : pc[p] \in {"locked", "setval", "lost"}
=============================================================================
