------------------------------ MODULE MsgQueue ------------------------------
(***************************************************************************)
(* msg_queue_t of mudec.c: a circular buffer of MAX_MSGS messages shared   *)
(* by threads under one mutex, with a condition variable for the readers   *)
(* of an empty queue and one for the writers of a full queue.              *)
(*                                                                         *)
(* Every access to the queue is made between pthread_mutex_lock and        *)
(* pthread_mutex_unlock (or the pthread_cond_wait that releases the mutex  *)
(* and falls asleep in one step), so each critical section is one action.  *)
(* What interleaves is the order in which the threads win the mutex: a     *)
(* thread in state "get" or "put" is about to lock it, for the first time  *)
(* or when it returns from pthread_cond_wait.                              *)
(***************************************************************************)
EXTENDS Integers, FiniteSets

CONSTANTS
  Threads,    \* the threads that share the queue
  Msg,        \* the messages (cmd, ptr and arg1..arg4 are never inspected)
  MAX_MSGS,   \* slots in the buffer
  MaxCount,   \* bound on num_readers, num_writers: spurious wakeups inflate them
  MaxEcho     \* bound on the value of the echo_event semaphore

ASSUME QueueAssumption ==
  /\ IsFiniteSet(Threads)
  /\ MAX_MSGS \in Nat \ {0}
  /\ MaxCount \in Nat
  /\ MaxEcho \in Nat

VARIABLES
  msgs, read_index, write_index, num_msgs,
  num_readers,   \* waits on cond_read begun and not yet signalled
  num_writers,   \* waits on cond_write begun and not yet signalled
  echo_event,    \* value of the semaphore
  pc,            \* what each thread is doing
  arg,           \* arg[t]: the message t passed to msg_queue_put
  got            \* got[t]: the caller's *msg, last filled by a get or a peek

qvars == <<msgs, read_index, write_index, num_msgs, num_readers, num_writers>>
vars == <<qvars, echo_event, pc, arg, got>>

Slots == 0 .. MAX_MSGS - 1
States == {"idle", "get", "put", "cond_read", "cond_write", "echo"}

ThreadsAt(s) == {t \in Threads : pc[t] = s}

Init ==
  /\ msgs \in [Slots -> Msg]           \* the array is not initialised
  /\ read_index = 0 /\ write_index = 0
  /\ num_msgs = 0
  /\ num_readers = 0 /\ num_writers = 0
  /\ echo_event = 0
  /\ pc = [t \in Threads |-> "idle"]
  /\ arg \in [Threads -> Msg]
  /\ got \in [Threads -> Msg]

\* if (++index == MAX_MSGS) index = 0
AdvanceTooLate(index) == IF index = MAX_MSGS THEN 0 ELSE index + 1      \* mutant
Advance(index) == IF index + 1 = MAX_MSGS THEN 0 ELSE index + 1

\* pthread_cond_signal wakes one of the threads asleep on the condition, if
\* there is one; the woken thread has to win the mutex again.  The caller t
\* unlocks the mutex and returns.
Signal(t, cond, woken) ==
  \/ /\ ThreadsAt(cond) = {}
     /\ pc' = [pc EXCEPT ![t] = "idle"]
  \/ \E w \in ThreadsAt(cond) : pc' = [pc EXCEPT ![t] = "idle", ![w] = woken]

\* if (q->num_writers > 0) { q->num_writers--; signal } unlock; return
SignalWriterIfFull(t) ==                                                 \* mutant
  \/ /\ num_writers > 0 /\ num_msgs = MAX_MSGS
     /\ num_writers' = num_writers - 1
     /\ Signal(t, "cond_write", "put")
  \/ /\ ~(num_writers > 0 /\ num_msgs = MAX_MSGS)
     /\ pc' = [pc EXCEPT ![t] = "idle"]
     /\ UNCHANGED num_writers
SignalWriter(t) ==
  \/ /\ num_writers > 0
     /\ num_writers' = num_writers - 1
     /\ Signal(t, "cond_write", "put")
  \/ /\ num_writers = 0
     /\ pc' = [pc EXCEPT ![t] = "idle"]
     /\ UNCHANGED num_writers

\* if (q->num_readers > 0) { q->num_readers--; signal } unlock; return
SignalReaderIfEmpty(t) ==                                                \* mutant
  \/ /\ num_readers > 0 /\ num_msgs = 0
     /\ num_readers' = num_readers - 1
     /\ Signal(t, "cond_read", "get")
  \/ /\ ~(num_readers > 0 /\ num_msgs = 0)
     /\ pc' = [pc EXCEPT ![t] = "idle"]
     /\ UNCHANGED num_readers
SignalReader(t) ==
  \/ /\ num_readers > 0
     /\ num_readers' = num_readers - 1
     /\ Signal(t, "cond_read", "get")
  \/ /\ num_readers = 0
     /\ pc' = [pc EXCEPT ![t] = "idle"]
     /\ UNCHANGED num_readers

\* num_msgs < MAX_MSGS
HasRoomOffByOne == num_msgs <= MAX_MSGS                                  \* mutant
HasRoom == num_msgs < MAX_MSGS

\* The part msg_queue_get and msg_queue_peek share: num_msgs > 0.
TakeMessage(t) ==
  /\ num_msgs > 0
  /\ got' = [got EXCEPT ![t] = msgs[read_index]]
  /\ read_index' = Advance(read_index)
  /\ num_msgs' = num_msgs - 1
  /\ SignalWriter(t)
  /\ UNCHANGED <<msgs, write_index, num_readers, echo_event, arg>>

\* A thread calls msg_queue_get and goes for the mutex.
CallGet(t) ==
  /\ pc[t] = "idle"
  /\ pc' = [pc EXCEPT ![t] = "get"]
  /\ UNCHANGED <<qvars, echo_event, arg, got>>

Get(t) ==
  /\ pc[t] = "get"
  /\ TakeMessage(t)

\* num_msgs == 0: pthread_cond_wait(&q->cond_read, &q->mutex)
GetWait(t) ==
  /\ pc[t] = "get"
  /\ num_msgs = 0
  /\ num_readers < MaxCount
  /\ num_readers' = num_readers + 1
  /\ pc' = [pc EXCEPT ![t] = "cond_read"]
  /\ UNCHANGED <<msgs, read_index, write_index, num_msgs, num_writers,
                 echo_event, arg, got>>

\* msg_queue_peek never blocks; on an empty queue it returns 0 and changes nothing.
Peek(t) ==
  /\ pc[t] = "idle"
  /\ TakeMessage(t)

CallPut(t, m) ==
  /\ pc[t] = "idle"
  /\ arg' = [arg EXCEPT ![t] = m]
  /\ pc' = [pc EXCEPT ![t] = "put"]
  /\ UNCHANGED <<qvars, echo_event, got>>

Put(t) ==
  /\ pc[t] = "put"
  /\ HasRoom
  /\ msgs' = [msgs EXCEPT ![write_index] = arg[t]]
  /\ write_index' = Advance(write_index)
  /\ num_msgs' = num_msgs + 1
  /\ SignalReader(t)
  /\ UNCHANGED <<read_index, num_writers, echo_event, arg, got>>

\* The queue is full: pthread_cond_wait(&q->cond_write, &q->mutex)
PutWait(t) ==
  /\ pc[t] = "put"
  /\ num_msgs = MAX_MSGS
  /\ num_writers < MaxCount
  /\ num_writers' = num_writers + 1
  /\ pc' = [pc EXCEPT ![t] = "cond_write"]
  /\ UNCHANGED <<msgs, read_index, write_index, num_msgs, num_readers,
                 echo_event, arg, got>>

\* POSIX lets pthread_cond_wait return without a signal.  The wakeup is held
\* back at the bound, so that the thread it wakes can always wait again.
SpuriousWakeup(t) ==
  /\ \/ /\ pc[t] = "cond_read"
        /\ num_readers < MaxCount - Cardinality(Threads)
        /\ pc' = [pc EXCEPT ![t] = "get"]
     \/ /\ pc[t] = "cond_write"
        /\ num_writers < MaxCount - Cardinality(Threads)
        /\ pc' = [pc EXCEPT ![t] = "put"]
  /\ UNCHANGED <<qvars, echo_event, arg, got>>

\* msg_queue_ack: sem_post(&q->echo_event)
Ack(t) ==
  /\ pc[t] = "idle"
  /\ echo_event < MaxEcho
  /\ echo_event' = echo_event + 1
  /\ UNCHANGED <<qvars, pc, arg, got>>

\* msg_queue_wait: sem_wait(&q->echo_event)
CallWait(t) ==
  /\ pc[t] = "idle"
  /\ pc' = [pc EXCEPT ![t] = "echo"]
  /\ UNCHANGED <<qvars, echo_event, arg, got>>

Wait(t) ==
  /\ pc[t] = "echo"
  /\ echo_event > 0
  /\ echo_event' = echo_event - 1
  /\ pc' = [pc EXCEPT ![t] = "idle"]
  /\ UNCHANGED <<qvars, arg, got>>

\* What a thread inside a call does next; it never needs another caller for it.
Step(t) == Get(t) \/ GetWait(t) \/ Put(t) \/ PutWait(t) \/ Wait(t)

Next ==
  \E t \in Threads :
    \/ CallGet(t) \/ Peek(t) \/ Ack(t) \/ CallWait(t)
    \/ \E m \in Msg : CallPut(t, m)
    \/ Step(t)
    \/ SpuriousWakeup(t)

Spec == Init /\ [][Next]_vars

\* The scheduler lets every runnable thread run and the mutex is granted to
\* every thread that keeps asking for it; nobody is obliged to call the queue.
FairSpec == Spec /\ \A t \in Threads : WF_vars(Step(t))

-----------------------------------------------------------------------------

\* Every variable has its type; the circular buffer's indices stay in range.
TypeOK ==
  /\ msgs \in [Slots -> Msg]
  /\ read_index \in Slots /\ write_index \in Slots
  /\ num_msgs \in 0 .. MAX_MSGS
  /\ num_readers \in Nat /\ num_writers \in Nat
  /\ echo_event \in Nat
  /\ pc \in [Threads -> States]
  /\ arg \in [Threads -> Msg]
  /\ got \in [Threads -> Msg]

\* The slot n places after read_index.
Slot(n) ==
  IF read_index + n < MAX_MSGS THEN read_index + n ELSE read_index + n - MAX_MSGS

\* The two indices and the count, each updated on its own by get and put, agree:
\* write_index is num_msgs places after read_index.
IndicesAgree == write_index = (IF num_msgs = MAX_MSGS THEN read_index ELSE Slot(num_msgs))

\* num_readers and num_writers never fall below the number of threads asleep,
\* so "if (q->num_readers > 0)" never skips a signal somebody waits for.
CountersCoverSleepers ==
  /\ num_readers >= Cardinality(ThreadsAt("cond_read"))
  /\ num_writers >= Cardinality(ThreadsAt("cond_write"))

\* No wakeup of a reader is lost: when a reader sleeps in msg_queue_get, each
\* message in the queue already has a running reader on its way to it.
NoLostReaderWakeup ==
  ThreadsAt("cond_read") # {} => num_msgs <= Cardinality(ThreadsAt("get"))

\* No wakeup of a writer is lost: when a writer sleeps in msg_queue_put, each
\* free slot already has a running writer on its way to it.
NoLostWriterWakeup ==
  ThreadsAt("cond_write") # {} => MAX_MSGS - num_msgs <= Cardinality(ThreadsAt("put"))

\* No wakeup is lost on either side, however sleeps, signals, late callers and
\* spurious wakeups interleave.
NoWakeupLost == CountersCoverSleepers /\ NoLostReaderWakeup /\ NoLostWriterWakeup

\* The messages in the buffer, oldest first.
Contents == [i \in 1 .. num_msgs |-> msgs[Slot(i - 1)]]

\* The circular buffer, its counters and its condition variables implement a
\* bounded first-in first-out queue: no message is lost, duplicated, reordered
\* or overwritten, and a get or peek hands out the oldest one.
Fifo == INSTANCE BoundedFifo WITH queue <- Contents, Capacity <- MAX_MSGS
ImplementsFifo == Fifo!Spec

\* Threads do not all go to sleep at once: readers and writers cannot be asleep
\* in the same queue unless somebody is awake to serve one of the sides.
NoMutualSleep ==
  ~ /\ ThreadsAt("cond_read") # {}
    /\ ThreadsAt("cond_write") # {}
    /\ ThreadsAt("get") \cup ThreadsAt("put") = {}

\* A reader does not sleep forever beside a message, nor a writer beside a free slot:
\* as long as one sleeps, the queue is emptied (or filled) by those that are awake, or
\* the last sleeper is woken.
SleepersServed ==
  /\ ThreadsAt("cond_read") # {} /\ num_msgs > 0
       ~> ThreadsAt("cond_read") = {} \/ num_msgs = 0
  /\ ThreadsAt("cond_write") # {} /\ num_msgs < MAX_MSGS
       ~> ThreadsAt("cond_write") = {} \/ num_msgs = MAX_MSGS
=============================================================================
