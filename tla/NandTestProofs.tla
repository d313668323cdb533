--------------------------- MODULE NandTestProofs ---------------------------
(***************************************************************************)
(* test_nand.c for every number of files: nobody meets a file while it is  *)
(* written, and every file goes through its life in order, with leftovers  *)
(* of earlier runs, failing writes, reads and removals, and an end by      *)
(* Ctrl-C anywhere.  The argument is that a thread past its lock holds the *)
(* mutex of the file it is at, so what it saw when it opened the file      *)
(* still holds when it works on it.                                        *)
(***************************************************************************)
EXTENDS NandTest, TLAPS

\* A thread between its lock and its unlock holds the mutex of its file.
HoldsMutex ==
  \A t \in Threads : pc[t] \in {"open", "work", "stuck"} => op_mutex[i[t]] = t

\* What a thread at work knows of its file.
WorkerKnows ==
  /\ pc["writefile"] = "work" => file[i["writefile"]] = "writing" /\ ~ rd_flag[i["writefile"]]
  /\ pc["readfile"] = "work" => file[i["readfile"]] \in {"short", "full"}
  /\ pc["deletefile"] = "work" =>
       file[i["deletefile"]] \in {"short", "full"} /\ rd_flag[i["deletefile"]]
  /\ pc["writefile"] # "stuck" /\ pc["deletefile"] # "stuck"

\* Only the file the writer is at is being written; what was read is there.
FilesClosed ==
  /\ \A f \in Files : file[f] = "writing" => pc["writefile"] = "work" /\ i["writefile"] = f
  /\ \A f \in Files : rd_flag[f] => file[f] \in {"short", "full"}

\* The handler is past a join only when the thread has ended.
Joined ==
  /\ handler \in {"join_deleter", "again", "close", "done"} => pc["writefile"] = "exit"
  /\ handler \in {"again", "close", "done"} => pc["deletefile"] = "exit"
  /\ fd_result = "closed" => pc["deletefile"] = "exit"

NandInv == TypeOK /\ HoldsMutex /\ WorkerKnows /\ FilesClosed /\ Joined

-----------------------------------------------------------------------------

\* The loop index stays an index.
LEMMA NextIndexInRange == ASSUME NEW n \in Files PROVE (n + 1) % NumFiles \in Files
  BY NandAssumption DEF Files

LEMMA InitInv == Init => NandInv
  BY NandAssumption DEF Init, NandInv, TypeOK, HoldsMutex, WorkerKnows, FilesClosed, Joined,
                        Files, Threads, Nobody

\* A step of one thread keeps the invariant.
LEMMA ThreadInv ==
  ASSUME NandInv, NEW t \in Threads, ThreadStep(t), Running
  PROVE  NandInv'
<1> USE DEF Goes, fileVars, mainVars
<1> USE DEF NandInv, TypeOK, HoldsMutex, WorkerKnows, FilesClosed, Joined, Threads
<1>a. i[t] \in Files /\ (i[t] + 1) % NumFiles \in Files
  BY NextIndexInRange
<1>0. CASE Start(t)
  BY <1>0 DEF Start
<1>1. CASE For(t)
  BY <1>1 DEF For
<1>2. CASE Lock(t)
  BY <1>2 DEF Lock, LockFile, Nobody
<1>3. CASE Open(t)
  <2>1. CASE ~ Wanted(t) /\ Leave(t, "open") /\ UNCHANGED fileVars
    <3>1. TypeOK'
      BY <1>a, <2>1 DEF Leave, NextIndex
    <3>2. HoldsMutex'
      BY <1>a, <2>1 DEF Leave, NextIndex
    <3>3. WorkerKnows' /\ FilesClosed' /\ Joined'
      BY <2>1 DEF Leave, NextIndex
    <3> QED BY <3>1, <3>2, <3>3
  <2>2. CASE Wanted(t) /\ t = "writefile"
    <3>1. /\ pc["writefile"] = "open" /\ pc' = [pc EXCEPT !["writefile"] = "work"]
          /\ file[i["writefile"]] = "absent"
          /\ file' = [file EXCEPT ![i["writefile"]] = "writing"]
          /\ rd_flag' = [rd_flag EXCEPT ![i["writefile"]] = FALSE]
          /\ UNCHANGED <<i, op_mutex, goon_flag, handler, fd_null, fd_result>>
      BY <1>3, <2>2 DEF Open, Wanted
    <3>2. TypeOK' /\ HoldsMutex' /\ FilesClosed' /\ Joined'
      BY <1>a, <2>2, <3>1
    <3>3. WorkerKnows'
      BY <1>a, <2>2, <3>1
    <3> QED BY <3>2, <3>3
  <2>3. CASE Wanted(t) /\ t # "writefile"
    <3>1. /\ pc[t] = "open" /\ pc' = [pc EXCEPT ![t] = "work"]
          /\ UNCHANGED <<i, op_mutex, file, rd_flag, goon_flag, handler, fd_null, fd_result>>
      BY <1>3, <2>3 DEF Open
    <3>2. TypeOK' /\ HoldsMutex' /\ FilesClosed' /\ Joined'
      BY <2>3, <3>1
    <3>3. op_mutex[i[t]] = t
      BY <3>1
    <3>4. pc["writefile"] = "work" => i["writefile"] # i[t]
      BY <2>3, <3>3
    <3>5. file[i[t]] \in {"short", "full"}
      <4>1. file[i[t]] # "absent"
        BY <2>3 DEF Wanted, ToDelete
      <4> QED BY <1>a, <3>4, <4>1
    <3>6. t = "deletefile" => rd_flag[i[t]]
      BY <2>3 DEF Wanted, ToDelete
    <3>7. WorkerKnows'
      BY <2>3, <3>1, <3>5, <3>6
    <3> QED BY <3>2, <3>7
  <2> QED BY <1>3, <2>1, <2>2, <2>3 DEF Open
<1>4. CASE Work(t)
  <2>1. CASE t = "writefile"
    <3>1. PICK length \in {"full", "short"} :
            file' = [file EXCEPT ![i["writefile"]] = length]
      BY <1>4, <2>1 DEF Work, WriteFile
    <3>2. TypeOK'
      BY <1>4, <1>a, <2>1, <3>1 DEF Work, WriteFile, Leave, NextIndex
    <3>3. HoldsMutex' /\ Joined'
      BY <1>4, <1>a, <2>1 DEF Work, WriteFile, Leave, NextIndex
    <3>4. WorkerKnows'
      BY <1>4, <1>a, <2>1, <3>1 DEF Work, WriteFile, Leave, NextIndex
    <3>5. FilesClosed'
      BY <1>4, <1>a, <2>1, <3>1 DEF Work, WriteFile, Leave, NextIndex
    <3> QED BY <3>2, <3>3, <3>4, <3>5
  <2>2. CASE t = "readfile" /\ ReadFile
    <3>1. TypeOK'
      BY <1>a, <2>2 DEF ReadFile, Leave, NextIndex
    <3>2. HoldsMutex' /\ Joined'
      BY <1>a, <2>2 DEF ReadFile, Leave, NextIndex
    <3>3. WorkerKnows' /\ FilesClosed'
      BY <1>a, <2>2 DEF ReadFile, Leave, NextIndex
    <3> QED BY <3>1, <3>2, <3>3
  <2>3. CASE t = "readfile" /\ ReadFails
    BY <2>3 DEF ReadFails
  <2>4. CASE t = "deletefile"
    <3>0. RemoveFile
      BY <1>4, <2>4 DEF Work
    <3>1. TypeOK'
      BY <3>0, <1>a, <2>4 DEF RemoveFile, Leave, NextIndex
    <3>2. HoldsMutex' /\ Joined'
      BY <1>4, <1>a, <2>4 DEF Work, RemoveFile, Leave, NextIndex
    <3>3. WorkerKnows'
      BY <1>4, <1>a, <2>4 DEF Work, RemoveFile, Leave, NextIndex
    <3>4. FilesClosed'
      <4>1. op_mutex[i["deletefile"]] = "deletefile"
        BY <1>4, <2>4 DEF Work, RemoveFile, Leave
      <4>2. /\ pc'["writefile"] = pc["writefile"] /\ i'["writefile"] = i["writefile"]
            /\ file' = [file EXCEPT ![i["deletefile"]] = "absent"]
            /\ rd_flag' = [rd_flag EXCEPT ![i["deletefile"]] = FALSE]
        BY <1>4, <2>4 DEF Work, RemoveFile, Leave
      <4> QED BY <1>a, <2>4, <4>1, <4>2
    <3> QED BY <3>1, <3>2, <3>3, <3>4
  <2> QED BY <1>4, <2>1, <2>2, <2>3, <2>4 DEF Work
<1> QED BY <1>0, <1>1, <1>2, <1>3, <1>4 DEF ThreadStep

\* The invariant is inductive.
LEMMA NandInvariant == Spec => []NandInv
<1>1. ASSUME NandInv, [Next]_vars PROVE NandInv'
  <2> USE DEF NandInv, TypeOK, HoldsMutex, WorkerKnows, FilesClosed, Joined, Threads, fileVars
  <2>1. CASE UNCHANGED vars
    BY <1>1, <2>1 DEF vars
  <2>2. CASE Running /\ \E t \in Threads : ThreadStep(t)
    BY <1>1, <2>2, ThreadInv DEF Threads
  <2>3. CASE \E t \in Threads : Fail(t)
    BY <1>1, <2>3 DEF Fail, Stop
  <2>7. CASE Interrupt \/ UseClosed
    BY <1>1, <2>7 DEF Interrupt, UseClosed, Stop
  <2>4. CASE Abort
    BY <1>1, <2>4 DEF Abort
  <2>5. CASE Join
    BY <1>1, <2>5 DEF Join, JoinReturns
  <2>6. CASE Close
    BY <1>1, <2>6 DEF Close
  <2> QED BY <1>1, <2>1, <2>2, <2>3, <2>4, <2>5, <2>6, <2>7 DEF Next
<1> QED BY <1>1, InitInv, PTL DEF Spec

\* Indices, mutexes, files and the handler's place keep their types, also when exit
\* stops the threads anywhere.
THEOREM NandTypes == Spec => []TypeOK
<1>1. NandInv => TypeOK
  BY DEF NandInv
<1> QED BY <1>1, NandInvariant, PTL

\* No thread of test_nand.c meets a file while it is written or removes one that is read,
\* whatever was left from before and whichever writes fail.
THEOREM WritesUndisturbed == Spec => []NobodyMeetsAWrite
<1>1. NandInv => NobodyMeetsAWrite
  BY DEF NandInv, FilesClosed, Joined, HoldsMutex, NobodyMeetsAWrite, AtWork
<1> QED BY <1>1, NandInvariant, PTL

\* deletefile has ended when its result file is closed.
THEOREM ResultSafe == Spec => []ResultClosedLast
<1>1. NandInv => ResultClosedLast
  BY DEF NandInv, Joined, ResultClosedLast
<1> QED BY <1>1, NandInvariant, PTL

-----------------------------------------------------------------------------

\* A thread's step is a step of some file's life, or none.
LEMMA ThreadStage ==
  ASSUME NandInv, NEW t \in Threads, ThreadStep(t)
  PROVE  [Lifecycle!Next]_stage
<1> USE DEF NandInv, TypeOK, WorkerKnows, FilesClosed, Threads
<1>0. i[t] \in Files
  OBVIOUS
<1>1. ASSUME UNCHANGED fileVars PROVE UNCHANGED stage
  BY <1>1 DEF fileVars, stage
<1>2. CASE Start(t) \/ For(t) \/ Lock(t)
  BY <1>1, <1>2 DEF Start, For, Lock
<1>3. CASE Open(t)
  <2>1. CASE t = "writefile" /\ Wanted(t)
    <3>1. file[i[t]] = "absent" /\ file' = [file EXCEPT ![i[t]] = "writing"]
            /\ rd_flag' = [rd_flag EXCEPT ![i[t]] = FALSE]
      BY <1>3, <2>1 DEF Open, Wanted
    <3> QED BY <1>0, <3>1 DEF stage
  <2> QED BY <1>1, <1>3, <2>1 DEF Open
<1>4. CASE Work(t)
  <2>1. CASE t = "writefile"
    <3>1. PICK length \in {"full", "short"} :
            /\ file[i[t]] = "writing" /\ ~ rd_flag[i[t]] /\ UNCHANGED rd_flag
            /\ file' = [file EXCEPT ![i[t]] = length]
      BY <1>0, <1>4, <2>1 DEF Work, WriteFile, Leave, Goes
    <3>2. stage[i[t]] = "absent" /\ stage' = [stage EXCEPT ![i[t]] = "written"]
      BY <1>0, <3>1 DEF stage
    <3> QED BY <1>0, <3>2 DEF Lifecycle!Next, Lifecycle!Move
  <2>2. CASE t = "readfile" /\ ReadFile
    <3>1. /\ file[i[t]] \in {"short", "full"} /\ UNCHANGED file
          /\ rd_flag' = [rd_flag EXCEPT ![i[t]] = TRUE]
      BY <1>0, <2>2 DEF ReadFile, Leave, Goes
    <3>2. CASE rd_flag[i[t]]
      BY <1>0, <3>1, <3>2 DEF stage
    <3>3. CASE ~ rd_flag[i[t]]
      <4>1. stage[i[t]] = "written" /\ stage' = [stage EXCEPT ![i[t]] = "read"]
        BY <1>0, <3>1, <3>3 DEF stage
      <4> QED BY <1>0, <4>1 DEF Lifecycle!Next, Lifecycle!Move
    <3> QED BY <3>2, <3>3
  <2>3. CASE t = "readfile" /\ ReadFails
    BY <1>1, <2>3 DEF ReadFails
  <2>4. CASE t = "deletefile"
    <3>1. /\ file[i[t]] \in {"short", "full"} /\ rd_flag[i[t]]
          /\ file' = [file EXCEPT ![i[t]] = "absent"]
          /\ rd_flag' = [rd_flag EXCEPT ![i[t]] = FALSE]
      BY <1>0, <1>4, <2>4 DEF Work, RemoveFile, Leave, Goes
    <3>2. stage[i[t]] = "read" /\ stage' = [stage EXCEPT ![i[t]] = "absent"]
      BY <1>0, <3>1 DEF stage
    <3> QED BY <1>0, <3>2 DEF Lifecycle!Next, Lifecycle!Move
  <2> QED BY <1>4, <2>1, <2>2, <2>3, <2>4 DEF Work
<1> QED BY <1>2, <1>3, <1>4 DEF ThreadStep

\* test_nand.c implements the life of a file: written when absent, removed only when
\* read since, for every number of files and every interleaving of the threads.
THEOREM RefinesLifecycle == Spec => ImplementsLifecycle
<1>1. Init => Lifecycle!Init
  BY DEF Init, Lifecycle!Init, stage
<1>2. ASSUME NandInv, [Next]_vars PROVE [Lifecycle!Next]_stage
  <2>1. CASE \E t \in Threads : ThreadStep(t)
    BY <1>2, <2>1, ThreadStage
  <2>2. CASE UNCHANGED fileVars
    BY <2>2 DEF fileVars, stage
  <2> QED BY <1>2, <2>1, <2>2 
      DEF Next, vars, fileVars, Fail, Interrupt, UseClosed, Stop, Abort, Join, Close
<1> QED BY <1>1, <1>2, NandInvariant, PTL DEF Spec, Lifecycle!Spec, ImplementsLifecycle
=============================================================================
