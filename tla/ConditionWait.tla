---------------------------- MODULE ConditionWait ----------------------------
(***************************************************************************)
(* condtest.cpp: a main thread that calls CConditionWait::Signal every 12  *)
(* seconds and a child thread that calls CConditionWait::Wait in a loop.   *)
(* The object holds one signal nobody waited for (m_Count = 1) and notes   *)
(* that somebody waits (m_Count = -1).  m_CondMutex is held from the first *)
(* line to the last of either operation except while the child is in       *)
(* pthread_cond_timedwait, so Signal is one step and Wait at most two.     *)
(* pthread_cond_timedwait returns 0 after a signal or a spurious wakeup    *)
(* and ETIMEDOUT after a timeout, and takes m_CondMutex again before it    *)
(* returns: a Signal that comes in between finds m_Count = -1, signals     *)
(* nobody, and is forgotten by the Wait that timed out.                    *)
(***************************************************************************)
EXTENDS Integers

VARIABLES
  m_Count,
  st_RunLoop,
  child,      \* "off", "loop", "asleep" in timedwait, "woken" (it returns 0) or "timedout"
              \* and after m_CondMutex, "ended"
  signaller,  \* the main thread: "off", "sleep", "loop", "join", "done" (object deleted)
  signalled   \* history, of the last Signal: "none" or taken by a Wait, "made" and not
              \* yet taken, "late" for the Wait that had timed out

condtestVars == <<m_Count, st_RunLoop, child, signaller, signalled>>

CondtestInit ==
  /\ m_Count = 0 /\ st_RunLoop = TRUE
  /\ child = "loop" /\ signaller = "loop"
  /\ signalled = "none"

\* The program is not running.
CondtestOff ==
  /\ m_Count = 0 /\ st_RunLoop = TRUE
  /\ child = "off" /\ signaller = "off"
  /\ signalled = "none"

\* m_Count after Signal: the signal is kept if nobody waits.
CountNotKept(count) == count                                             \* mutant
CountAfterSignal(count) == IF count = 0 THEN 1 ELSE count

\* CConditionWait::Signal, when sleep(12) is over or was interrupted.
Signal ==
  /\ signaller = "sleep"
  /\ m_Count' = CountAfterSignal(m_Count)
  /\ child' = IF m_Count = -1 /\ child = "asleep" THEN "woken" ELSE child
  /\ signalled' = IF child = "timedout" THEN "late" ELSE "made"
  /\ signaller' = "loop"
  /\ UNCHANGED st_RunLoop

\* The loop of main, pthread_join and delete.
MainLoop ==
  /\ signaller = "loop"
  /\ signaller' = IF st_RunLoop THEN "sleep" ELSE "join"
  /\ UNCHANGED <<m_Count, st_RunLoop, child, signalled>>

\* pthread_join returns when the child has ended; only then is the object deleted.
Join ==
  /\ signaller = "join" /\ child = "ended"
  /\ signaller' = "done"
  /\ UNCHANGED <<m_Count, st_RunLoop, child, signalled>>

\* CConditionWait::Wait up to pthread_cond_timedwait; a kept signal is taken and
\* the call returns without waiting (false, as after a timeout: ChildThread ignores it).
Wait ==
  /\ child = "loop" /\ st_RunLoop
  /\ IF m_Count = 0
       THEN m_Count' = -1 /\ child' = "asleep" /\ UNCHANGED signalled
       ELSE m_Count' = 0 /\ signalled' = "none" /\ UNCHANGED child
  /\ UNCHANGED <<st_RunLoop, signaller>>

WaitsForSignal == FALSE                                                  \* mutant
TimeIsUp == child = "asleep"

\* pthread_cond_timedwait gives up with ETIMEDOUT.
WaitTimesOut ==
  /\ TimeIsUp
  /\ child' = "timedout"
  /\ UNCHANGED <<m_Count, st_RunLoop, signaller, signalled>>

\* pthread_cond_timedwait returns 0 although nobody signalled.
SpuriousWakeup ==
  /\ child = "asleep"
  /\ child' = "woken"
  /\ UNCHANGED <<m_Count, st_RunLoop, signaller, signalled>>

\* Which Waits have taken the signal when they return: those that return true.
TakesSignal == child = "woken"

\* CConditionWait::Wait from the return of pthread_cond_timedwait on: the count is
\* cleared whatever it was, also by a Wait that timed out.
WaitReturns ==
  /\ child \in {"woken", "timedout"}
  /\ m_Count' = 0
  /\ child' = "loop"
  /\ signalled' = IF TakesSignal THEN "none" ELSE signalled
  /\ UNCHANGED <<st_RunLoop, signaller>>

ChildEnds ==
  /\ child = "loop" /\ ~ st_RunLoop
  /\ child' = "ended"
  /\ UNCHANGED <<m_Count, st_RunLoop, signaller, signalled>>

\* SIGINT or SIGTERM
Sighandler ==
  /\ st_RunLoop /\ signaller # "off"
  /\ st_RunLoop' = FALSE
  /\ UNCHANGED <<m_Count, child, signaller, signalled>>

SignallerStep == Signal \/ MainLoop \/ Join
ChildStep == Wait \/ WaitTimesOut \/ WaitReturns \/ ChildEnds

CondtestNext == SignallerStep \/ ChildStep \/ SpuriousWakeup \/ Sighandler

CondtestSpec == CondtestInit /\ [][CondtestNext]_condtestVars

\* Both threads are scheduled, and sleep and timedwait end; wakeups need not be spurious.
CondtestFairness == WF_condtestVars(SignallerStep) /\ WF_condtestVars(ChildStep)

-----------------------------------------------------------------------------

\* Every variable has its type.
CondtestTypeOK ==
  /\ m_Count \in {-1, 0, 1} /\ st_RunLoop \in BOOLEAN
  /\ signalled \in {"none", "made", "late"}
  /\ child \in {"off", "loop", "asleep", "woken", "timedout", "ended"}
  /\ signaller \in {"off", "sleep", "loop", "join", "done"}

\* A signal is lost to a timeout and to nothing else: as long as no Wait has taken it,
\* the child is about to return true or the count keeps it for the next Wait, unless
\* it came after the timeout and before the Wait that timed out had the mutex again.
SignalKept == signalled = "made" => child = "woken" \/ m_Count = 1

\* The count says whether the child waits; Signal relies on it to wake the child and
\* Wait to wait at all, and it outlives the timeout that races a signal.
CountTellsWaiter == m_Count = -1 <=> child \in {"asleep", "woken", "timedout"}

\* No signal is lost but to the timeout it races, and the count that decides it is
\* never out of step.
NoSignalLost == SignalKept /\ CountTellsWaiter

\* After SIGINT both threads end, although nobody signals the child any more: the
\* wait has a timeout, and the child sees the flag when it is over.
CondtestEnds == ~ st_RunLoop ~> signaller = "done" /\ child = "ended"
=============================================================================
