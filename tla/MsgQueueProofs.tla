--------------------------- MODULE MsgQueueProofs ---------------------------
(***************************************************************************)
(* Theorems about msg_queue_t for every set of threads, every queue size   *)
(* and every number of spurious wakeups.                                   *)
(*                                                                         *)
(* The wakeup invariants speak of how many threads are at a place.  A step *)
(* moves one thread, or one thread and the thread it wakes, so the lemmas  *)
(* say what one move does to the counts and each action adds them up.      *)
(*                                                                         *)
(* At the end, that the ring of slots implements BoundedFifo: its indices  *)
(* stay num_msgs apart, a put appends and a get or peek takes the head.    *)
(***************************************************************************)
EXTENDS MsgQueue, FiniteSetTheorems, SequenceTheorems, TLAPS

At(f, s) == {t \in Threads : f[t] = s}
Count(f, s) == Cardinality(At(f, s))

\* The wakeup invariants, as a relation between numbers.
Wakeups(f, num, readers, writers) ==
  /\ readers >= Count(f, "cond_read")
  /\ writers >= Count(f, "cond_write")
  /\ Count(f, "cond_read") > 0 => num <= Count(f, "get")
  /\ Count(f, "cond_write") > 0 => MAX_MSGS - num <= Count(f, "put")

-----------------------------------------------------------------------------
\* The number of threads at a place is a natural number, 0 only when nobody is there.
LEMMA CountType ==
  ASSUME NEW f, NEW s
  PROVE  /\ IsFiniteSet(At(f, s))
         /\ Count(f, s) \in Nat
         /\ Count(f, s) = 0 <=> At(f, s) = {}
BY QueueAssumption, FS_Subset, FS_CardinalityType, FS_EmptySet
   DEF At, Count, QueueAssumption

\* One thread moving to place b adds one to the count of b and takes one from
\* the count of the place it leaves.
One(s, place) == IF s = place THEN 1 ELSE 0
Moves(f, g, t, b) == g[t] = b /\ \A u \in Threads \ {t} : g[u] = f[u]
LEMMA MoveOne ==
  ASSUME NEW f \in [Threads -> States], NEW g \in [Threads -> States],
         NEW t \in Threads, NEW b \in States, Moves(f, g, t, b)
  PROVE  \A s : Count(g, s) = Count(f, s) + One(s, b) - One(s, f[t])
<1> USE DEF Moves
<1>1. CASE f[t] = b
  BY <1>1, CountType, f = g DEF One
<1>2. CASE f[t] # b
  <2>1. At(g, b) = At(f, b) \cup {t} /\ t \notin At(f, b)
    BY <1>2 DEF At
  <2>2. At(g, f[t]) = At(f, f[t]) \ {t} /\ t \in At(f, f[t])
    BY <1>2 DEF At
  <2>3. \A s : s \notin {b, f[t]} => At(g, s) = At(f, s)
    BY DEF At
  <2>4. Count(g, b) = Count(f, b) + 1
    BY <2>1, CountType, FS_AddElement DEF Count
  <2>5. Count(g, f[t]) = Count(f, f[t]) - 1
    <3>1. IsFiniteSet(At(f, f[t]))
      BY CountType
    <3>2. Cardinality(At(f, f[t]) \ {t}) = Cardinality(At(f, f[t])) - 1
      BY <2>2, <3>1, FS_RemoveElement
    <3> QED BY <2>2, <3>2, Zenon DEF Count
  <2>6. \A s : s \notin {b, f[t]} => Count(g, s) = Count(f, s)
    BY <2>3 DEF Count
  <2>7. \A s : Count(f, s) \in Nat
    BY CountType
  <2> QED
    BY <1>2, <2>4, <2>5, <2>6, <2>7 DEF One
<1> QED
  BY <1>1, <1>2

\* The wakeup invariants are the relation between the numbers.
LEMMA WakeupsIff ==
  (/\ num_readers \in Nat /\ num_writers \in Nat)
    => (NoWakeupLost <=> Wakeups(pc, num_msgs, num_readers, num_writers))
<1>1. \A s : /\ Count(pc, s) \in Nat
             /\ Count(pc, s) = 0 <=> At(pc, s) = {}
  BY CountType
<1>2. \A s : ThreadsAt(s) = At(pc, s) /\ Cardinality(ThreadsAt(s)) = Count(pc, s)
  BY DEF ThreadsAt, At, Count
<1> QED
  BY <1>1, <1>2 DEF NoWakeupLost, Wakeups, CountersCoverSleepers,
                    NoLostReaderWakeup, NoLostWriterWakeup

-----------------------------------------------------------------------------
\* Signal keeps pc a function to places; a wakeup moves the caller and one sleeper.
LEMMA SignalType ==
  ASSUME NEW t \in Threads, NEW cond \in States, NEW woken \in States,
         pc \in [Threads -> States], Signal(t, cond, woken)
  PROVE  pc' \in [Threads -> States]
BY DEF Signal, ThreadsAt, States

\* Type correctness: the indices and the count of the circular buffer never leave
\* their range, whatever the threads do (msg_queue_get, _peek and _put).
THEOREM TypeCorrect == Spec => []TypeOK
<1>1. Init => TypeOK
  BY QueueAssumption DEF Init, TypeOK, Slots, States, QueueAssumption
<1>2. TypeOK /\ [Next]_vars => TypeOK'
  <2> SUFFICES ASSUME TypeOK, [Next]_vars PROVE TypeOK'
    OBVIOUS
  <2> USE QueueAssumption DEF QueueAssumption
  <2>1. ASSUME NEW t \in Threads, TakeMessage(t) PROVE TypeOK'
    <3>1. pc' \in [Threads -> States] /\ num_writers' \in Nat
      BY <2>1, SignalType DEF TakeMessage, SignalWriter, TypeOK, States
    <3>2. read_index' \in Slots /\ num_msgs' \in 0 .. MAX_MSGS
      BY <2>1 DEF TakeMessage, Advance, TypeOK, Slots
    <3>3. got' \in [Threads -> Msg]
      BY <2>1 DEF TakeMessage, TypeOK
    <3> QED
      BY <2>1, <3>1, <3>2, <3>3 DEF TakeMessage, TypeOK
  <2>2. ASSUME NEW t \in Threads, Put(t) PROVE TypeOK'
    <3>1. pc' \in [Threads -> States] /\ num_readers' \in Nat
      BY <2>2, SignalType DEF Put, SignalReader, TypeOK, States
    <3>2. write_index' \in Slots /\ num_msgs' \in 0 .. MAX_MSGS
      BY <2>2 DEF Put, HasRoom, Advance, TypeOK, Slots
    <3>3. msgs' \in [Slots -> Msg]
      BY <2>2 DEF Put, TypeOK
    <3> QED
      BY <2>2, <3>1, <3>2, <3>3 DEF Put, TypeOK
  <2>3. CASE \E t \in Threads : CallGet(t) \/ GetWait(t) \/ PutWait(t) \/ SpuriousWakeup(t)
    BY <2>3 DEF CallGet, GetWait, PutWait, SpuriousWakeup, TypeOK, States, qvars
  <2>4. CASE \E t \in Threads : Ack(t) \/ CallWait(t) \/ Wait(t)
    BY <2>4 DEF Ack, CallWait, Wait, TypeOK, States, qvars
  <2>5. CASE \E t \in Threads : \E m \in Msg : CallPut(t, m)
    BY <2>5 DEF CallPut, TypeOK, States, qvars
  <2>6. CASE UNCHANGED vars
    BY <2>6 DEF vars, qvars, TypeOK
  <2> QED
    BY <2>1, <2>2, <2>3, <2>4, <2>5, <2>6 DEF Next, Step, Get, Peek
<1> QED
  BY <1>1, <1>2, PTL DEF Spec
-----------------------------------------------------------------------------
\* What Signal does to the counts, the caller having left its place a for "idle":
\* either nobody slept on cond, or exactly one sleeper went to woken.
LEMMA SignalCounts ==
  ASSUME NEW t \in Threads, NEW cond \in States, NEW woken \in States,
         pc \in [Threads -> States], pc[t] # cond, cond # "idle",
         Signal(t, cond, woken)
  PROVE  \/ /\ Count(pc, cond) = 0
            /\ \A s : Count(pc', s) = Count(pc, s) + One(s, "idle") - One(s, pc[t])
         \/ \A s : Count(pc', s) = Count(pc, s) + One(s, "idle") - One(s, pc[t])
                                                + One(s, woken) - One(s, cond)
<1> DEFINE f == [pc EXCEPT ![t] = "idle"]
<1>1. /\ f \in [Threads -> States]
      /\ \A s : Count(f, s) = Count(pc, s) + One(s, "idle") - One(s, pc[t])
  <2>1. f \in [Threads -> States] /\ "idle" \in States /\ Moves(pc, f, t, "idle")
    BY DEF States, Moves
  <2> QED
    BY <2>1, MoveOne
<1>2. CASE ThreadsAt(cond) = {} /\ pc' = f
  <2>1. Count(pc, cond) = 0
    BY <1>2, CountType DEF ThreadsAt, At
  <2> QED
    BY <1>1, <1>2, <2>1
<1>3. CASE \E w \in ThreadsAt(cond) : pc' = [pc EXCEPT ![t] = "idle", ![w] = woken]
  <2>1. PICK w \in Threads : pc[w] = cond /\ pc' = [pc EXCEPT ![t] = "idle", ![w] = woken]
    BY <1>3 DEF ThreadsAt
  <2>2. /\ w # t /\ f[w] = cond
        /\ pc' \in [Threads -> States] /\ Moves(f, pc', w, woken)
    BY <2>1 DEF States, Moves
  <2> HIDE DEF f
  <2>3. \A s : Count(pc', s) = Count(f, s) + One(s, woken) - One(s, cond)
    BY <1>1, <2>2, MoveOne
  <2> QED
    BY <1>1, <2>3
<1> QED
  BY <1>2, <1>3 DEF Signal

\* The counts the wakeup invariants are about, after a step that moves one thread
\* from place a to place b.
Moved(t, b) == pc' = [pc EXCEPT ![t] = b]
LEMMA MoveCounts ==
  ASSUME NEW t \in Threads, NEW a \in States, NEW b \in States,
         pc \in [Threads -> States], pc[t] = a, Moved(t, b)
  PROVE  \A s : Count(pc', s) = Count(pc, s) + One(s, b) - One(s, a)
<1>1. pc' \in [Threads -> States] /\ Moves(pc, pc', t, b)
  BY DEF Moves, Moved
<1> QED
  BY <1>1, MoveOne

\* A message taken: one message fewer, the taker idle, and a sleeping writer, if
\* there is one, on its way to the slot.
LEMMA TakePreservesWakeups ==
  ASSUME TypeOK, NEW t \in Threads, pc[t] \in {"get", "idle"}, TakeMessage(t),
         Wakeups(pc, num_msgs, num_readers, num_writers)
  PROVE  Wakeups(pc', num_msgs', num_readers', num_writers')
<1> DEFINE n(s) == Count(pc, s)
           m(s) == Count(pc', s)
<1>1. /\ pc \in [Threads -> States] /\ num_msgs \in 1 .. MAX_MSGS /\ MAX_MSGS \in Nat
      /\ num_writers \in Nat /\ num_readers \in Nat
      /\ num_msgs' = num_msgs - 1 /\ num_readers' = num_readers
  BY QueueAssumption DEF TypeOK, TakeMessage, QueueAssumption
<1>2. \A s : n(s) \in Nat /\ m(s) \in Nat
  BY CountType
<1>0. /\ pc[t] \in States /\ pc[t] # "cond_write" /\ One("get", pc[t]) \in 0 .. 1
      /\ \A s \in {"put", "cond_read", "cond_write"} : One(s, pc[t]) = 0
  BY DEF One, States
<1>3. CASE num_writers = 0 /\ num_writers' = num_writers /\ Moved(t, "idle")
  <2>1. /\ m("cond_read") = n("cond_read") /\ m("cond_write") = n("cond_write")
        /\ m("get") >= n("get") - 1
    BY <1>0, <1>1, <1>2, <1>3, MoveCounts DEF States, One
  <2> QED
    BY <1>1, <1>2, <1>3, <2>1 DEF Wakeups
<1>4. CASE num_writers > 0 /\ num_writers' = num_writers - 1 /\ Signal(t, "cond_write", "put")
  <2>1. \/ /\ n("cond_write") = 0 /\ m("cond_write") = 0
           /\ m("cond_read") = n("cond_read") /\ m("get") >= n("get") - 1
        \/ /\ m("cond_write") = n("cond_write") - 1 /\ m("put") = n("put") + 1
           /\ m("cond_read") = n("cond_read") /\ m("get") >= n("get") - 1
    BY <1>0, <1>1, <1>2, <1>4, SignalCounts DEF States, One
  <2> QED
    BY <1>1, <1>2, <1>4, <2>1 DEF Wakeups
<1> QED
  BY <1>3, <1>4 DEF TakeMessage, SignalWriter, Moved

\* A message put: one message more, the writer idle, and a sleeping reader, if
\* there is one, on its way to the message.
LEMMA PutPreservesWakeups ==
  ASSUME TypeOK, NEW t \in Threads, Put(t),
         Wakeups(pc, num_msgs, num_readers, num_writers)
  PROVE  Wakeups(pc', num_msgs', num_readers', num_writers')
<1> DEFINE n(s) == Count(pc, s)
           m(s) == Count(pc', s)
<1>1. /\ pc \in [Threads -> States] /\ pc[t] = "put"
      /\ num_msgs \in 0 .. MAX_MSGS - 1 /\ MAX_MSGS \in Nat
      /\ num_writers \in Nat /\ num_readers \in Nat
      /\ num_msgs' = num_msgs + 1 /\ num_writers' = num_writers
  BY QueueAssumption DEF TypeOK, Put, HasRoom, QueueAssumption
<1>2. \A s : n(s) \in Nat /\ m(s) \in Nat
  BY CountType
<1>3. CASE num_readers = 0 /\ num_readers' = num_readers /\ Moved(t, "idle")
  <2>1. /\ m("cond_read") = n("cond_read") /\ m("cond_write") = n("cond_write")
        /\ m("get") = n("get") /\ m("put") = n("put") - 1
    BY <1>1, <1>2, <1>3, MoveCounts DEF States, One
  <2> QED
    BY <1>1, <1>2, <1>3, <2>1 DEF Wakeups
<1>4. CASE num_readers > 0 /\ num_readers' = num_readers - 1 /\ Signal(t, "cond_read", "get")
  <2>1. \/ /\ n("cond_read") = 0 /\ m("cond_read") = 0
           /\ m("cond_write") = n("cond_write") /\ m("put") = n("put") - 1
        \/ /\ m("cond_read") = n("cond_read") - 1 /\ m("get") = n("get") + 1
           /\ m("cond_write") = n("cond_write") /\ m("put") = n("put") - 1
    BY <1>1, <1>2, <1>4, SignalCounts DEF States, One
  <2> QED
    BY <1>1, <1>2, <1>4, <2>1 DEF Wakeups
<1> QED
  BY <1>3, <1>4 DEF Put, SignalReader, Moved

\* Falling asleep, waking up without a signal and starting or ending a call.
LEMMA MovePreservesWakeups ==
  ASSUME TypeOK, NEW t \in Threads,
         \/ CallGet(t) \/ GetWait(t) \/ PutWait(t) \/ SpuriousWakeup(t)
         \/ Ack(t) \/ CallWait(t) \/ Wait(t) \/ \E m \in Msg : CallPut(t, m),
         Wakeups(pc, num_msgs, num_readers, num_writers)
  PROVE  Wakeups(pc', num_msgs', num_readers', num_writers')
<1> DEFINE n(s) == Count(pc, s)
           m(s) == Count(pc', s)
           Move(a, b) == pc[t] = a /\ Moved(t, b)
           Same == UNCHANGED <<num_msgs, num_readers, num_writers>>
<1>1. /\ pc \in [Threads -> States] /\ num_msgs \in 0 .. MAX_MSGS /\ MAX_MSGS \in Nat
      /\ num_writers \in Nat /\ num_readers \in Nat
  BY QueueAssumption DEF TypeOK, QueueAssumption
<1>2. \A s : n(s) \in Nat /\ m(s) \in Nat
  BY CountType
<1>3. CASE Same /\ (Move("idle", "get") \/ Move("idle", "put"))
  <2>1. /\ m("cond_read") = n("cond_read") /\ m("cond_write") = n("cond_write")
        /\ m("get") >= n("get") /\ m("put") >= n("put")
    BY <1>1, <1>2, <1>3, MoveCounts DEF States, One
  <2> QED
    BY <1>1, <1>2, <1>3, <2>1 DEF Wakeups
<1>4. CASE Same /\ (Move("idle", "echo") \/ Move("echo", "idle") \/ pc' = pc)
  <2>1. /\ m("cond_read") = n("cond_read") /\ m("cond_write") = n("cond_write")
        /\ m("get") = n("get") /\ m("put") = n("put")
    BY <1>1, <1>2, <1>4, MoveCounts DEF States, One
  <2> QED
    BY <1>1, <1>2, <1>4, <2>1 DEF Wakeups
<1>5. CASE GetWait(t)
  <2>0. /\ Move("get", "cond_read") /\ num_msgs = 0 /\ num_msgs' = num_msgs
        /\ num_readers' = num_readers + 1 /\ num_writers' = num_writers
    BY <1>5 DEF GetWait, Moved
  <2>1. /\ m("cond_read") = n("cond_read") + 1 /\ m("cond_write") = n("cond_write")
        /\ m("put") = n("put")
    BY <1>1, <1>2, <2>0, MoveCounts DEF States, One
  <2> QED
    BY <1>1, <1>2, <2>0, <2>1 DEF Wakeups
<1>6. CASE PutWait(t)
  <2>0. /\ Move("put", "cond_write") /\ num_msgs = MAX_MSGS /\ num_msgs' = num_msgs
        /\ num_writers' = num_writers + 1 /\ num_readers' = num_readers
    BY <1>6 DEF PutWait, Moved
  <2>1. /\ m("cond_read") = n("cond_read") /\ m("cond_write") = n("cond_write") + 1
        /\ m("get") = n("get")
    BY <1>1, <1>2, <2>0, MoveCounts DEF States, One
  <2> QED
    BY <1>1, <1>2, <2>0, <2>1 DEF Wakeups
<1>7. CASE Same /\ Move("cond_read", "get")
  <2>1. /\ m("cond_read") = n("cond_read") - 1 /\ m("cond_write") = n("cond_write")
        /\ m("get") = n("get") + 1 /\ m("put") = n("put")
    BY <1>1, <1>2, <1>7, MoveCounts DEF States, One
  <2> QED
    BY <1>1, <1>2, <1>7, <2>1 DEF Wakeups
<1>8. CASE Same /\ Move("cond_write", "put")
  <2>1. /\ m("cond_read") = n("cond_read") /\ m("cond_write") = n("cond_write") - 1
        /\ m("get") = n("get") /\ m("put") = n("put") + 1
    BY <1>1, <1>2, <1>8, MoveCounts DEF States, One
  <2> QED
    BY <1>1, <1>2, <1>8, <2>1 DEF Wakeups
<1> QED
  BY <1>3, <1>4, <1>5, <1>6, <1>7, <1>8
     DEF CallGet, SpuriousWakeup, Ack, CallWait, Wait, CallPut, Moved, qvars
-----------------------------------------------------------------------------
\* Nobody is there at the start.
LEMMA InitWakeups == Init => NoWakeupLost
<1> SUFFICES ASSUME Init PROVE NoWakeupLost
  OBVIOUS
<1>1. At(pc, "cond_read") = {} /\ At(pc, "cond_write") = {}
  BY DEF Init, At
<1>2. Count(pc, "cond_read") = 0 /\ Count(pc, "cond_write") = 0
  BY <1>1, CountType
<1>3. Wakeups(pc, num_msgs, num_readers, num_writers)
  BY <1>2 DEF Init, Wakeups
<1> QED
  BY <1>3, WakeupsIff DEF Init

\* A step of any thread preserves the relation between the counts.
LEMMA NextWakeups ==
  ASSUME TypeOK, [Next]_vars, Wakeups(pc, num_msgs, num_readers, num_writers)
  PROVE  Wakeups(pc', num_msgs', num_readers', num_writers')
<1>1. ASSUME NEW t \in Threads, Get(t) \/ Peek(t)
      PROVE  Wakeups(pc', num_msgs', num_readers', num_writers')
  BY <1>1, TakePreservesWakeups DEF Get, Peek
<1>2. ASSUME NEW t \in Threads, Put(t)
      PROVE  Wakeups(pc', num_msgs', num_readers', num_writers')
  BY <1>2, PutPreservesWakeups
<1>3. ASSUME NEW t \in Threads,
             \/ CallGet(t) \/ GetWait(t) \/ PutWait(t) \/ SpuriousWakeup(t)
             \/ Ack(t) \/ CallWait(t) \/ Wait(t) \/ \E m \in Msg : CallPut(t, m)
      PROVE  Wakeups(pc', num_msgs', num_readers', num_writers')
  BY <1>3, MovePreservesWakeups
<1>4. CASE UNCHANGED vars
  BY <1>4 DEF vars, qvars
<1> QED
  BY <1>1, <1>2, <1>3, <1>4 DEF Next, Step

\* The wakeup invariants, kept in one piece because each needs the others.
LEMMA WakeupsInvariant == Spec => []NoWakeupLost
<1>1. TypeOK /\ TypeOK' /\ NoWakeupLost /\ [Next]_vars => NoWakeupLost'
  <2> SUFFICES ASSUME TypeOK, TypeOK', NoWakeupLost, [Next]_vars PROVE NoWakeupLost'
    OBVIOUS
  <2>1. Wakeups(pc, num_msgs, num_readers, num_writers)
    BY WakeupsIff DEF TypeOK
  <2>2. Wakeups(pc', num_msgs', num_readers', num_writers')
    BY <2>1, NextWakeups
  <2>3. (/\ num_readers' \in Nat /\ num_writers' \in Nat)
          => (NoWakeupLost' <=> Wakeups(pc', num_msgs', num_readers', num_writers'))
    <3>1. \A s : Count(pc', s) \in Nat /\ (Count(pc', s) = 0 <=> At(pc', s) = {})
      BY CountType
    <3>2. \A s : ThreadsAt(s)' = At(pc', s) /\ Cardinality(ThreadsAt(s)') = Count(pc', s)
      BY DEF ThreadsAt, At, Count
    <3> QED
      BY <3>1, <3>2 DEF NoWakeupLost, Wakeups, CountersCoverSleepers,
                        NoLostReaderWakeup, NoLostWriterWakeup
  <2> QED
    BY <2>2, <2>3 DEF TypeOK
<1> QED
  BY InitWakeups, TypeCorrect, <1>1, PTL DEF Spec

\* No wakeup is lost, on either side of the queue, however many threads there are,
\* however the critical sections interleave and however often pthread_cond_wait
\* returns without a signal: a thread never sleeps beside a message (a free slot)
\* that no awake thread is coming for.
THEOREM NoLostWakeup == Spec => []NoWakeupLost
BY WakeupsInvariant

\* Readers and writers never all sleep in the same queue.
THEOREM QueueNeverStalls == Spec => []NoMutualSleep
<1>1. TypeOK /\ NoWakeupLost => NoMutualSleep
  <2> SUFFICES ASSUME TypeOK, NoWakeupLost,
                      ThreadsAt("cond_read") # {}, ThreadsAt("cond_write") # {}
               PROVE  ThreadsAt("get") \cup ThreadsAt("put") # {}
    BY DEF NoMutualSleep
  <2>1. num_msgs \in 0 .. MAX_MSGS /\ MAX_MSGS \in Nat \ {0}
    BY QueueAssumption DEF TypeOK, QueueAssumption
  <2>2. num_msgs <= Cardinality(ThreadsAt("get"))
    BY DEF NoWakeupLost, NoLostReaderWakeup
  <2>3. MAX_MSGS - num_msgs <= Cardinality(ThreadsAt("put"))
    BY DEF NoWakeupLost, NoLostWriterWakeup
  <2>4. Cardinality({}) = 0
    BY FS_EmptySet
  <2>5. SUFFICES ASSUME ThreadsAt("get") = {}, ThreadsAt("put") = {} PROVE FALSE
    OBVIOUS
  <2>6. num_msgs <= 0 /\ MAX_MSGS - num_msgs <= 0
    BY <2>2, <2>3, <2>4, <2>5
  <2> QED
    BY <2>1, <2>6
<1> QED
  BY <1>1, TypeCorrect, WakeupsInvariant, PTL

-----------------------------------------------------------------------------
(* The circular buffer implements a bounded first-in first-out queue, for every *)
(* number of slots and threads.                                                 *)

\* The two indices, advanced separately by get and put, stay num_msgs apart.
THEOREM IndicesStayTogether == Spec => []IndicesAgree
<1> USE QueueAssumption DEF QueueAssumption
<1>1. Init => IndicesAgree
  BY DEF Init, IndicesAgree, Slot
<1>2. TypeOK /\ IndicesAgree /\ [Next]_vars => IndicesAgree'
  <2> SUFFICES ASSUME TypeOK, IndicesAgree, [Next]_vars PROVE IndicesAgree'
    OBVIOUS
  <2>1. /\ MAX_MSGS \in Nat \ {0} /\ num_msgs \in 0 .. MAX_MSGS
        /\ read_index \in 0 .. MAX_MSGS - 1 /\ write_index \in 0 .. MAX_MSGS - 1
    BY DEF TypeOK, Slots
  <2>2. ASSUME NEW t \in Threads, TakeMessage(t) PROVE IndicesAgree'
    <3>1. num_msgs > 0 /\ num_msgs' = num_msgs - 1 /\ read_index' = Advance(read_index)
          /\ write_index' = write_index
      BY <2>2 DEF TakeMessage
    <3> QED
      BY <2>1, <3>1 DEF Advance, IndicesAgree, Slot
  <2>3. ASSUME NEW t \in Threads, Put(t) PROVE IndicesAgree'
    <3>1. num_msgs < MAX_MSGS /\ num_msgs' = num_msgs + 1 /\ read_index' = read_index
          /\ write_index' = Advance(write_index)
      BY <2>3 DEF Put, HasRoom
    <3> QED
      BY <2>1, <3>1 DEF Advance, IndicesAgree, Slot
  <2>4. CASE UNCHANGED qvars
    BY <2>4 DEF qvars, IndicesAgree, Slot
  <2>5. CASE \E t \in Threads : GetWait(t) \/ PutWait(t)
    BY <2>5 DEF GetWait, PutWait, IndicesAgree, Slot
  <2> QED
    BY <2>2, <2>3, <2>4, <2>5
       DEF Next, Step, Get, Peek, vars, CallGet, CallPut, Ack, CallWait, Wait, SpuriousWakeup
<1> QED
  BY <1>1, <1>2, TypeCorrect, PTL DEF Spec

\* The contents of the buffer are a sequence of num_msgs messages.
LEMMA ContentsType ==
  TypeOK => /\ Contents \in Seq(Msg)
            /\ Len(Contents) = num_msgs
            /\ \A i \in 1 .. num_msgs : Contents[i] = msgs[Slot(i - 1)]
<1> SUFFICES ASSUME TypeOK
             PROVE  /\ Contents \in Seq(Msg)
                    /\ Len(Contents) = num_msgs
                    /\ \A i \in 1 .. num_msgs : Contents[i] = msgs[Slot(i - 1)]
  OBVIOUS
<1>1. \A i \in 1 .. num_msgs : Slot(i - 1) \in Slots
  BY QueueAssumption DEF QueueAssumption, TypeOK, Slots, Slot
<1>2. Contents \in [1 .. num_msgs -> Msg] /\ num_msgs \in Nat
  BY <1>1 DEF TypeOK, Contents
<1> QED
  BY <1>2 DEF Contents

LEMMA ContentsTypeNext ==
  TypeOK' => /\ Contents' \in Seq(Msg)
             /\ Len(Contents') = num_msgs'
             /\ \A i \in 1 .. num_msgs' : Contents'[i] = msgs'[Slot(i - 1)']
<1> SUFFICES ASSUME TypeOK'
             PROVE  /\ Contents' \in Seq(Msg)
                    /\ Len(Contents') = num_msgs'
                    /\ \A i \in 1 .. num_msgs' : Contents'[i] = msgs'[Slot(i - 1)']
  OBVIOUS
<1>0. /\ read_index' \in 0 .. MAX_MSGS - 1 /\ num_msgs' \in 0 .. MAX_MSGS
      /\ MAX_MSGS \in Nat \ {0}
  BY QueueAssumption DEF QueueAssumption, TypeOK, Slots
<1>1. \A i \in 1 .. num_msgs' : Slot(i - 1)' \in Slots
  <2>1. \A r \in 0 .. MAX_MSGS - 1 : \A n \in 0 .. MAX_MSGS - 1 :
          (IF r + n < MAX_MSGS THEN r + n ELSE r + n - MAX_MSGS) \in Slots
    BY <1>0 DEF Slots
  <2>2. \A i \in 1 .. num_msgs' : i - 1 \in 0 .. MAX_MSGS - 1
    BY <1>0
  <2> QED
    BY <1>0, <2>1, <2>2 DEF Slot
<1>2. Contents' \in [1 .. num_msgs' -> Msg] /\ num_msgs' \in Nat
  BY <1>1 DEF TypeOK, Contents
<1> QED
  BY <1>2 DEF Contents

\* After a get or a peek the buffer holds the tail of what it held, and *msg is
\* the oldest message.
LEMMA TakeIsFifoTake ==
  ASSUME TypeOK, TypeOK', NEW t \in Threads, TakeMessage(t)
  PROVE  Fifo!Take(t)
<1> USE QueueAssumption DEF QueueAssumption
<1>1. /\ MAX_MSGS \in Nat \ {0} /\ num_msgs \in 1 .. MAX_MSGS
      /\ read_index \in 0 .. MAX_MSGS - 1 /\ read_index' = Advance(read_index)
      /\ num_msgs' = num_msgs - 1 /\ msgs' = msgs
  BY DEF TypeOK, Slots, TakeMessage
<1>2. \A i \in 1 .. num_msgs - 1 : Slot(i - 1)' = Slot(i)
  BY <1>1 DEF Slot, Advance
<1>3. /\ Contents \in Seq(Msg) /\ Len(Contents) = num_msgs
      /\ \A i \in 1 .. num_msgs : Contents[i] = msgs[Slot(i - 1)]
  BY ContentsType
<1>4. /\ Contents' \in Seq(Msg) /\ Len(Contents') = num_msgs - 1
      /\ \A i \in 1 .. num_msgs - 1 : Contents'[i] = msgs[Slot(i)]
  <2>1. /\ Contents' \in Seq(Msg) /\ Len(Contents') = num_msgs'
        /\ \A i \in 1 .. num_msgs' : Contents'[i] = msgs'[Slot(i - 1)']
    BY ContentsTypeNext
  <2> QED
    BY <1>1, <1>2, <2>1
<1>5. Contents # <<>>
  BY <1>1, <1>3
<1>6. Contents' = Tail(Contents)
  <2>1. /\ Tail(Contents) \in Seq(Msg) /\ Len(Tail(Contents)) = num_msgs - 1
        /\ \A i \in 1 .. num_msgs - 1 : Tail(Contents)[i] = Contents[i + 1]
    BY <1>1, <1>3, <1>5, HeadTailProperties
  <2>2. \A i \in 1 .. num_msgs - 1 : Contents[i + 1] = msgs[Slot(i)]
    BY <1>1, <1>3
  <2> QED
    BY <1>1, <1>4, <2>1, <2>2, SeqEqual
<1>7. Head(Contents) = msgs[read_index]
  BY <1>1, <1>3 DEF Slot
<1> QED
  BY <1>5, <1>6, <1>7 DEF Fifo!Take, TakeMessage

\* After a put the buffer holds what it held and the new message: the slot it
\* wrote held none of the messages that were waiting.
LEMMA PutIsFifoPut ==
  ASSUME TypeOK, TypeOK', IndicesAgree, NEW t \in Threads, Put(t)
  PROVE  arg[t] \in Msg /\ Fifo!Put(arg[t])
<1> USE QueueAssumption DEF QueueAssumption
<1>1. /\ MAX_MSGS \in Nat \ {0} /\ num_msgs \in 0 .. MAX_MSGS - 1
      /\ read_index \in 0 .. MAX_MSGS - 1 /\ read_index' = read_index
      /\ num_msgs' = num_msgs + 1
      /\ write_index = Slot(num_msgs) /\ write_index \in Slots
      /\ msgs \in [Slots -> Msg] /\ msgs' = [msgs EXCEPT ![write_index] = arg[t]]
      /\ arg[t] \in Msg
  BY DEF TypeOK, Slots, Put, HasRoom, IndicesAgree
<1>2. /\ \A n \in 0 .. num_msgs : Slot(n)' = Slot(n) /\ Slot(n) \in Slots
      /\ \A n \in 0 .. num_msgs - 1 : Slot(n) # write_index
  BY <1>1 DEF Slot, Slots
<1>3. /\ Contents \in Seq(Msg) /\ Len(Contents) = num_msgs
      /\ \A i \in 1 .. num_msgs : Contents[i] = msgs[Slot(i - 1)]
  BY ContentsType
<1>4. /\ Contents' \in Seq(Msg) /\ Len(Contents') = num_msgs + 1
      /\ \A i \in 1 .. num_msgs + 1 : Contents'[i] = msgs'[Slot(i - 1)]
  <2>1. /\ Contents' \in Seq(Msg) /\ Len(Contents') = num_msgs'
        /\ \A i \in 1 .. num_msgs' : Contents'[i] = msgs'[Slot(i - 1)']
    BY ContentsTypeNext
  <2> QED
    BY <1>1, <1>2, <2>1
<1>5. /\ \A i \in 1 .. num_msgs : msgs'[Slot(i - 1)] = msgs[Slot(i - 1)]
      /\ msgs'[Slot(num_msgs)] = arg[t]
  BY <1>1, <1>2
<1>6. Contents' = Append(Contents, arg[t])
  <2>1. /\ Append(Contents, arg[t]) \in Seq(Msg)
        /\ Len(Append(Contents, arg[t])) = num_msgs + 1
        /\ \A i \in 1 .. num_msgs : Append(Contents, arg[t])[i] = Contents[i]
        /\ Append(Contents, arg[t])[num_msgs + 1] = arg[t]
    BY <1>1, <1>3, AppendProperties
  <2>2. \A i \in 1 .. num_msgs + 1 : Contents'[i] = Append(Contents, arg[t])[i]
    BY <1>1, <1>3, <1>4, <1>5, <2>1
  <2> QED
    BY <1>1, <1>4, <2>1, <2>2, SeqEqual
<1> QED
  BY <1>1, <1>3, <1>6 DEF Fifo!Put, Put

\* msg_queue_get, _peek and _put implement a bounded first-in first-out queue:
\* every step of theirs puts one message, takes the oldest one, or touches none.
THEOREM RefinesFifo == Spec => ImplementsFifo
<1>1. Init => Fifo!Init
  <2> SUFFICES ASSUME Init PROVE Contents = <<>> /\ got \in [Threads -> Msg]
    BY DEF Fifo!Init
  <2> QED
    BY DEF Init, Contents
<1>2. TypeOK /\ TypeOK' /\ IndicesAgree /\ [Next]_vars => [Fifo!Next]_(Fifo!vars)
  <2> SUFFICES ASSUME TypeOK, TypeOK', IndicesAgree, [Next]_vars
               PROVE  [Fifo!Next]_(Fifo!vars)
    OBVIOUS
  <2>1. ASSUME NEW t \in Threads, Get(t) \/ Peek(t) PROVE Fifo!Next
    BY <2>1, TakeIsFifoTake DEF Get, Peek, Fifo!Next
  <2>2. ASSUME NEW t \in Threads, Put(t) PROVE Fifo!Next
    BY <2>2, PutIsFifoPut DEF Fifo!Next
  <2>3. CASE UNCHANGED <<msgs, read_index, num_msgs, got>>
    BY <2>3 DEF Fifo!vars, Contents, Slot
  <2> QED
    BY <2>1, <2>2, <2>3
       DEF Next, Step, vars, qvars, CallGet, CallPut, Ack, CallWait, Wait, SpuriousWakeup,
           GetWait, PutWait
<1> QED
  BY <1>1, <1>2, TypeCorrect, IndicesStayTogether, PTL
     DEF Spec, ImplementsFifo, Fifo!Spec
=============================================================================
