------------------------------ MODULE NandTest ------------------------------
(***************************************************************************)
(* test_nand.c: three threads go round the same files, one writes those    *)
(* that do not exist, one reads those that do, one removes those that were *)
(* read.  A mutex per file makes each visit exclusive.  SIGABRT clears     *)
(* goon_flag, joins threads, closes what they use and exits; Ctrl-C, the   *)
(* way to quit that the usage names, stops everything where it is.         *)
(***************************************************************************)
EXTENDS Integers

CONSTANT NumFiles      \* 10 in the code

ASSUME NandAssumption == NumFiles \in Nat \ {0}

Files == 0 .. NumFiles - 1
Threads == {"writefile", "readfile", "deletefile"}
Nobody == "nobody"

VARIABLES
  goon_flag,
  pc,           \* pc[t]: "start", "for", "lock", "open", "work", "exit"; "stuck" in a read
                \* that fails and never reaches the end of the file
  i,            \* i[t]: the loop index of thread t
  op_mutex,     \* op_mutex[f]: who holds fn[f].op_mutex
  file,         \* file[f]: "absent", "writing" (created and not closed), "short", "full"
  rd_flag,
  handler,      \* the signal handler: "none", "join_writer", "join_deleter", "again", "close";
                \* "done" when it has ended the program, "stopped" when something else has
  fd_null, fd_result        \* "unopened", "open" or "closed"

vars == <<goon_flag, pc, i, op_mutex, file, rd_flag, handler, fd_null, fd_result>>
fileVars == <<file, rd_flag>>
mainVars == <<goon_flag, handler, fd_null, fd_result>>

\* The three threads are created.  The files of an earlier run may still be there, and
\* be cut short if it was stopped while it wrote them; rd_flag starts at 0.
Init ==
  /\ goon_flag = TRUE
  /\ pc = [t \in Threads |-> "start"]
  /\ i = [t \in Threads |-> 0]
  /\ op_mutex = [f \in Files |-> Nobody]
  /\ file \in [Files -> {"absent", "short", "full"}]
  /\ rd_flag = [f \in Files |-> FALSE]
  /\ handler = "none"
  /\ fd_null = "unopened" /\ fd_result = "unopened"

Goes(t, from, to) == pc[t] = from /\ pc' = [pc EXCEPT ![t] = to]

\* The reader opens /dev/null and the deleter the result file before their loops.
Start(t) ==
  /\ Goes(t, "start", "for")
  /\ fd_null' = IF t = "readfile" THEN "open" ELSE fd_null
  /\ fd_result' = IF t = "deletefile" THEN "open" ELSE fd_result
  /\ UNCHANGED <<i, op_mutex, fileVars, goon_flag, handler>>

\* while (goon_flag) for (i = 0; i < 10 && goon_flag; i++)
For(t) ==
  /\ Goes(t, "for", IF goon_flag THEN "lock" ELSE "exit")
  /\ UNCHANGED <<i, op_mutex, fileVars, mainVars>>

\* Every thread locks the file it visits and unlocks it when it leaves.
LockNothing(t) ==                                                        \* mutant
  UNCHANGED op_mutex
LockFile(t) ==
  /\ op_mutex[i[t]] = Nobody
  /\ op_mutex' = [op_mutex EXCEPT ![i[t]] = t]
Lock(t) ==
  /\ LockFile(t)
  /\ Goes(t, "lock", "open")
  /\ UNCHANGED <<i, fileVars, mainVars>>

NextIndexUnbounded(t) == i[t] + 1                                        \* mutant
NextIndex(t) == (i[t] + 1) % NumFiles
LeaveLocked(t, from) ==                                                  \* mutant
  /\ Goes(t, from, "for")
  /\ i' = [i EXCEPT ![t] = NextIndex(t)]
  /\ UNCHANGED <<op_mutex, mainVars>>
Leave(t, from) ==
  /\ Goes(t, from, "for")
  /\ op_mutex' = [op_mutex EXCEPT ![i[t]] = IF @ = t THEN Nobody ELSE @]
  /\ i' = [i EXCEPT ![t] = NextIndex(t)]
  /\ UNCHANGED mainVars

\* What a thread looks for in the file it has locked.
ToDeleteAny(f) == file[f] # "absent"                                     \* mutant
ToDelete(f) == file[f] # "absent" /\ rd_flag[f]
Wanted(t) ==
  CASE t = "writefile" -> file[i[t]] = "absent"
    [] t = "readfile" -> file[i[t]] # "absent"
    [] t = "deletefile" -> ToDelete(i[t])

\* fopen: nothing to do here, or begin.  "w+" creates the file.
Open(t) ==
  \/ /\ ~ Wanted(t)
     /\ Leave(t, "open")
     /\ UNCHANGED fileVars
  \/ /\ Wanted(t)
     /\ Goes(t, "open", "work")
     /\ IF t = "writefile"
          THEN /\ file' = [file EXCEPT ![i[t]] = "writing"]
               /\ rd_flag' = [rd_flag EXCEPT ![i[t]] = FALSE]
          ELSE UNCHANGED fileVars
     /\ UNCHANGED <<i, op_mutex, mainVars>>

\* The bytes written and the file closed and unlocked.  What fputc and fclose return is
\* ignored: on a full or failing flash the file stays short.
WriteFile ==
  /\ Leave("writefile", "work")
  /\ \E length \in {"full", "short"} : file' = [file EXCEPT ![i["writefile"]] = length]
  /\ UNCHANGED rd_flag

\* The file read until feof, whatever its length.
ReadFile ==
  /\ Leave("readfile", "work")
  /\ rd_flag' = [rd_flag EXCEPT ![i["readfile"]] = TRUE]
  /\ UNCHANGED file

\* A read that fails does not set feof: the loop goes on, and the file stays locked.
ReadFails ==
  /\ Goes("readfile", "work", "stuck")
  /\ UNCHANGED <<i, op_mutex, fileVars, mainVars>>

\* The file removed, the result written and the file unlocked.
RemoveFile ==
  /\ Leave("deletefile", "work")
  /\ file' = [file EXCEPT ![i["deletefile"]] = "absent"]
  /\ rd_flag' = [rd_flag EXCEPT ![i["deletefile"]] = FALSE]

Work(t) ==
  \/ t = "writefile" /\ WriteFile
  \/ t = "readfile" /\ (ReadFile \/ ReadFails)
  \/ t = "deletefile" /\ RemoveFile

ThreadStep(t) == Start(t) \/ For(t) \/ Lock(t) \/ Open(t) \/ Work(t)

\* exit(1), whatever the others do: /dev/null or the result file cannot be opened, a file
\* cannot be created or removed.
CannotStart(t) == pc[t] = "start" /\ t # "writefile"
CannotCreate(t) == pc[t] = "open" /\ t = "writefile" /\ Wanted(t)
CannotRemove(t) == pc[t] = "work" /\ t = "deletefile"
Stop ==
  /\ handler' = "stopped"
  /\ UNCHANGED <<goon_flag, pc, i, op_mutex, fileVars, fd_null, fd_result>>
Fail(t) == (CannotStart(t) \/ CannotCreate(t) \/ CannotRemove(t)) /\ Stop

\* Ctrl-C, which is not handled.
Interrupt == Stop

\* SIGABRT: the handler runs in the main thread, which only spins.
Abort ==
  /\ handler = "none"
  /\ goon_flag' = FALSE
  /\ handler' = "join_writer"
  /\ UNCHANGED <<pc, i, op_mutex, fileVars, fd_null, fd_result>>

\* pthread_join of the writer, of the deleter, and of the deleter again: the last
\* one names a thread that is already joined, and returns at once.
JoinNobody(t) == TRUE                                                    \* mutant
JoinReturns(t) == pc[t] = "exit"
Join ==
  /\ \/ /\ handler = "join_writer" /\ JoinReturns("writefile")
        /\ handler' = "join_deleter"
     \/ /\ handler = "join_deleter" /\ JoinReturns("deletefile")
        /\ handler' = "again"
     \/ /\ handler = "again"
        /\ handler' = "close"
  /\ UNCHANGED <<goon_flag, pc, i, op_mutex, fileVars, fd_null, fd_result>>

\* fclose(fd_null), close(fd_result), exit(1).  The handler does not wait for the reader:
\* fd_null is NULL if it has not been started yet, and fclose crashes.
Close ==
  /\ handler = "close"
  /\ \/ fd_null = "unopened" /\ handler' = "stopped" /\ UNCHANGED <<fd_null, fd_result>>
     \/ fd_null = "open" /\ fd_null' = "closed" /\ UNCHANGED <<fd_result, handler>>
     \/ fd_null = "closed" /\ fd_result' = "closed" /\ handler' = "done" /\ UNCHANGED fd_null
  /\ UNCHANGED <<goon_flag, pc, i, op_mutex, fileVars>>

\* A read after that writes to a FILE that is gone, with any outcome: the program may crash.
UseClosed == pc["readfile"] = "work" /\ fd_null = "closed" /\ Stop

Running == handler \notin {"done", "stopped"}

Next ==
  \/ Running /\ \E t \in Threads : ThreadStep(t) \/ Fail(t)
  \/ Running /\ (Interrupt \/ UseClosed)
  \/ Abort \/ Join \/ Close

Spec == Init /\ [][Next]_vars

\* Every thread is scheduled; which of two waiters gets a mutex is not said.
FairSpec ==
  /\ Spec
  /\ \A t \in Threads : WF_vars(Running /\ ThreadStep(t))
  /\ WF_vars(Join) /\ WF_vars(Close)

-----------------------------------------------------------------------------

\* Every variable has its type.
TypeOK ==
  /\ pc \in [Threads -> {"start", "for", "lock", "open", "work", "stuck", "exit"}]
  /\ i \in [Threads -> Files]
  /\ op_mutex \in [Files -> Threads \cup {Nobody}]
  /\ file \in [Files -> {"absent", "writing", "short", "full"}]
  /\ rd_flag \in [Files -> BOOLEAN]
  /\ handler \in {"none", "join_writer", "join_deleter", "again", "close", "done", "stopped"}
  /\ fd_null \in {"unopened", "open", "closed"} /\ fd_result \in {"unopened", "open", "closed"}

AtWork(t, f) == i[t] = f /\ pc[t] \in {"work", "stuck"}

\* Nobody meets a file while it is written: the writer is at it alone until it is closed,
\* and the end of the program by SIGABRT waits for that.  Nobody removes a file that is
\* read, and no flag says of a file that is not there, or still written, that it was read.
\* (A file that was closed may be short: it failed to be written, or Ctrl-C cut it off.)
NobodyMeetsAWrite ==
  \A f \in Files :
    /\ file[f] = "writing" => AtWork("writefile", f) /\ handler # "done"
    /\ \A t, u \in Threads : AtWork(t, f) /\ AtWork(u, f) => t = u
    /\ rd_flag[f] => file[f] \in {"short", "full"}

\* The result file is closed only when nobody will write to it.
ResultClosedLast == fd_result = "closed" => pc["deletefile"] = "exit"

\* The files go through their life in order, whatever the threads' interleaving.  A file
\* counts as written when it is closed, at whatever length.
stage ==
  [f \in Files |-> IF file[f] \in {"absent", "writing"} THEN "absent"
                   ELSE IF rd_flag[f] THEN "read" ELSE "written"]
Lifecycle == INSTANCE FileLifecycle
ImplementsLifecycle == Lifecycle!Spec

\* After the signal the writer and the deleter end and the program exits, unless a read
\* that failed keeps a file locked for ever.
AbortCompletes == ~ goon_flag ~> ~ Running \/ pc["readfile"] = "stuck"
=============================================================================
