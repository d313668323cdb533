---------------------------- MODULE GuardSdSpace ----------------------------
(***************************************************************************)
(* guard_sd_space.c: a daemon that keeps room on a memory card by removing *)
(* the oldest files of the directory its configuration file names.  A      *)
(* second thread takes the signals: SIGHUP asks for the configuration to   *)
(* be read again, SIGTERM ends the program.  Meanwhile a recorder adds     *)
(* files, the operator edits the configuration, and the card comes and     *)
(* goes.  Files are numbered as they are recorded.                         *)
(***************************************************************************)
EXTENDS Integers, Sequences, SequencesExt, FiniteSets

CONSTANTS
  Dirs,       \* directories that the configuration may name
  DefaultDir, \* the one main writes into a configuration file it has to create
  NoDir,      \* the empty scanned_dir, and an empty configuration file
  NoFile,     \* no configuration file
  mtime,      \* mtime[f]: the second file f was recorded in
  Room,       \* files a card may hold before its space is low
  MaxFiles,   \* bound on the files recorded
  MaxEdits    \* bound on the edits of the configuration

ASSUME GuardAssumption ==
  /\ DefaultDir \in Dirs /\ NoDir \notin Dirs /\ NoFile \notin Dirs
  /\ {Room, MaxFiles, MaxEdits} \subseteq Nat
  \* the recorder's clock does not go back
  /\ mtime \in [1 .. MaxFiles -> Nat]
  /\ \A f, g \in 1 .. MaxFiles : f <= g => mtime[f] <= mtime[g]

VARIABLES
  pc,               \* main: "loop", "read", "count", "clear", "space", "delete", "sleep", "exited"
  need_reread,
  scanned_dir, old_scanned_dir,
  g_namelist,       \* the files of the last scan that are left, newest first
  missed,           \* those on which remove() failed since the scan
  signals,          \* signals sent and not taken yet
  config,           \* the directory in the configuration file, NoDir or NoFile
  edits,
  present,          \* the directories that are there
  files,            \* files[d]: the regular files of d
  clock,            \* the number of the last file
  others            \* something that is not a regular file fills the card

listVars == <<g_namelist, missed>>
mainVars == <<pc, scanned_dir, old_scanned_dir, listVars>>
worldVars == <<config, edits, present, files, clock, others>>
vars == <<mainVars, need_reread, signals, worldVars>>

Init ==
  /\ pc = "loop"
  /\ need_reread = TRUE
  /\ scanned_dir = NoDir /\ old_scanned_dir = NoDir
  /\ g_namelist = <<>> /\ missed = {}
  /\ signals = {}
  /\ config \in Dirs \cup {NoFile} /\ edits = 0
  /\ present \in SUBSET Dirs
  /\ files = [d \in Dirs |-> {}] /\ clock = 0
  /\ others \in BOOLEAN

-----------------------------------------------------------------------------
(* The main loop. *)

Goes(from, to) == pc = from /\ pc' = to

\* need_reread is looked at under the lock; the lock is released before it is used.
Loop ==
  /\ Goes("loop", IF need_reread THEN "read" ELSE "space")
  /\ UNCHANGED <<need_reread, scanned_dir, old_scanned_dir, listVars, signals, worldVars>>

\* guard_read_config with a configuration file: the directory named, if it exists; else
\* an empty one, and main sleeps and starts over.
NeverScanAgain(d) == old_scanned_dir = NoDir                             \* mutant
MustScan(d) == old_scanned_dir = NoDir \/ d # old_scanned_dir
Takes(d) ==
  /\ Goes("read", IF MustScan(d) THEN "count" ELSE "clear")
  /\ scanned_dir' = d
ReadNamed ==
  /\ \/ config \in present /\ Takes(config)
     \/ config \notin present /\ Goes("read", "loop") /\ scanned_dir' = NoDir
  /\ UNCHANGED config

\* Without one: a new file, with the default directory if that is there; if not, the
\* file stays empty and scanned_dir as it was, which is no failure.  If the file cannot
\* be made, main sleeps and starts over.
ReadMissing ==
  \/ DefaultDir \in present /\ Takes(DefaultDir) /\ config' = DefaultDir
  \/ DefaultDir \notin present /\ Takes(scanned_dir) /\ config' = NoDir
  \/ Goes("read", "loop") /\ UNCHANGED <<scanned_dir, config>>

ReadConfig ==
  /\ IF config = NoFile THEN ReadMissing ELSE ReadNamed
  /\ UNCHANGED <<need_reread, old_scanned_dir, listVars, signals, edits, present, files, clock,
                 others>>

\* count_files: fails without touching the list when the directory is gone.
OldestFirstOrder(a, b) == mtime[a] <= mtime[b]                           \* mutant
NewestFirst(a, b) == mtime[a] >= mtime[b]     \* scandir_cmp_time
\* The files of S as scandir lists them, each once, those of one second in any order.
Listings(S) ==
  {list \in [1 .. Cardinality(S) -> S] :
     /\ ToSet(list) = S
     /\ \A i, j \in DOMAIN list :
          i < j => NewestFirst(list[i], list[j]) /\ list[i] # list[j]}
ScanUnfiltered(d) ==                          \* mutant: "." is listed, too
  g_namelist' \in Listings(files[d] \cup {0}) /\ missed' = {}
Scan(d) == g_namelist' \in Listings(files[d]) /\ missed' = {}
CountFiles ==
  /\ \/ /\ scanned_dir \in present
        /\ Goes("count", "clear")
        /\ Scan(scanned_dir)
        /\ old_scanned_dir' = scanned_dir
     \/ /\ scanned_dir \notin present
        /\ Goes("count", "loop")
        /\ UNCHANGED <<listVars, old_scanned_dir>>
  /\ UNCHANGED <<need_reread, scanned_dir, signals, worldVars>>

ClearReread ==
  /\ Goes("clear", "space")
  /\ need_reread' = FALSE
  /\ UNCHANGED <<scanned_dir, old_scanned_dir, listVars, signals, worldVars>>

\* free_space: when the directory is gone statfs fails and the answer is garbage.
LowAnswers ==
  IF scanned_dir \in present THEN {others \/ Cardinality(files[scanned_dir]) > Room}
                             ELSE BOOLEAN
FreeSpace ==
  /\ \E low \in LowAnswers : Goes("space", IF low THEN "delete" ELSE "sleep")
  /\ UNCHANGED <<need_reread, scanned_dir, old_scanned_dir, listVars, signals, worldVars>>

\* The oldest file of the list is removed, or the directory is scanned again when
\* the list is used up.  No regular file at all: kill(tid, SIGTERM) names a thread,
\* not a process, and fails; the loop goes on.
KeepList == UNCHANGED listVars                                           \* mutant
Rescan == IF scanned_dir \in present THEN Scan(scanned_dir) ELSE UNCHANGED listVars
Delete ==
  /\ Goes("delete", "space")
  /\ \/ /\ g_namelist # <<>>
        /\ g_namelist' = Front(g_namelist)
        /\ IF scanned_dir \in present
             THEN /\ files' = [files EXCEPT ![scanned_dir] = @ \ {Last(g_namelist)}]
                  /\ UNCHANGED missed
             ELSE missed' = missed \cup {Last(g_namelist)} /\ UNCHANGED files
     \/ /\ g_namelist = <<>>
        /\ Rescan
        /\ UNCHANGED files
  /\ UNCHANGED <<need_reread, scanned_dir, old_scanned_dir, signals, config, edits,
                 present, clock, others>>

Sleep ==
  /\ Goes("sleep", "loop")
  /\ UNCHANGED <<need_reread, scanned_dir, old_scanned_dir, listVars, signals, worldVars>>

MainStep ==
  Loop \/ ReadConfig \/ CountFiles \/ ClearReread \/ FreeSpace \/ Delete \/ Sleep

-----------------------------------------------------------------------------
(* sig_process, and what is outside the program. *)

SigProcess ==
  /\ pc # "exited"
  /\ \/ /\ "SIGHUP" \in signals
        /\ signals' = signals \ {"SIGHUP"}
        /\ need_reread' = TRUE
        /\ UNCHANGED mainVars
     \/ /\ "SIGTERM" \in signals
        /\ signals' = signals \ {"SIGTERM"}
        /\ pc' = "exited"                                \* exit(0)
        /\ UNCHANGED <<need_reread, scanned_dir, old_scanned_dir, listVars>>
  /\ UNCHANGED worldVars

\* The operator names another directory or removes the file, and tells the daemon.
EditConfig ==
  /\ edits < MaxEdits
  /\ edits' = edits + 1
  /\ config' \in (Dirs \cup {NoFile}) \ {config}
  /\ signals' = signals \cup {"SIGHUP"}
  /\ UNCHANGED <<mainVars, need_reread, present, files, clock, others>>

\* The operator ends the daemon.
Terminate ==
  /\ edits = MaxEdits /\ pc # "exited"
  /\ signals' = signals \cup {"SIGTERM"}
  /\ UNCHANGED <<mainVars, need_reread, worldVars>>

\* A new file in some directory that is there.
Record ==
  /\ clock < MaxFiles
  /\ clock' = clock + 1
  /\ \E d \in present : files' = [files EXCEPT ![d] = @ \cup {clock + 1}]
  /\ UNCHANGED <<mainVars, need_reread, signals, config, edits, present, others>>

\* A card is taken out or put back.
Card ==
  /\ \E d \in Dirs : present' = IF d \in present THEN present \ {d} ELSE present \cup {d}
  /\ UNCHANGED <<mainVars, need_reread, signals, config, edits, files, clock, others>>

Next == MainStep \/ SigProcess \/ EditConfig \/ Terminate \/ Record \/ Card

Spec == Init /\ [][Next]_vars

\* Both threads run; what is outside does what it likes.
FairSpec == Spec /\ WF_vars(MainStep) /\ WF_vars(SigProcess)

-----------------------------------------------------------------------------

\* Every variable has its type.
TypeOK ==
  /\ pc \in {"loop", "read", "count", "clear", "space", "delete", "sleep", "exited"}
  /\ need_reread \in BOOLEAN
  /\ {scanned_dir, old_scanned_dir} \subseteq Dirs \cup {NoDir}
  /\ g_namelist \in Seq(1 .. MaxFiles) /\ missed \subseteq 1 .. MaxFiles
  /\ signals \subseteq {"SIGHUP", "SIGTERM"}
  /\ config \in Dirs \cup {NoDir, NoFile} /\ present \subseteq Dirs /\ clock \in 0 .. MaxFiles
  /\ files \in [Dirs -> SUBSET (1 .. MaxFiles)]

\* Files are removed by the name they had in the last scan and by the directory of
\* the configuration: the list always belongs to that directory when it is used.
ListOfScannedDir ==
  pc \in {"space", "delete"} =>
    /\ old_scanned_dir = scanned_dir
    /\ ToSet(g_namelist) \subseteq files[scanned_dir]

\* A file is removed only when every file of its directory with an older time is one on
\* which remove() failed since the last scan (the card was out), however many files
\* were recorded and directories exchanged since that scan.
OldestFirst ==
  [][\A d \in Dirs : \A f \in files[d] \ files'[d], g \in files[d] :
        mtime[g] < mtime[f] => g \in missed]_vars

\* main does not stay in the loop that removes files when removing files can help.
SpaceRestored ==
  pc = "space" /\ scanned_dir \in present /\ ~ others
    ~> pc \in {"sleep", "exited"} \/ scanned_dir \notin present

\* After SIGHUP the configuration is read again ("reread guard config file"): once
\* the edits are over, main takes up the directory of the last one, unless it is gone or
\* main is busy with removing files.
ConfigFollowed ==
  edits = MaxEdits ~>
    scanned_dir = config \/ config \notin present \/ pc \in {"delete", "exited"} \/ others
=============================================================================
