-------------------------- MODULE GuardSdSpaceProofs --------------------------
(***************************************************************************)
(* guard_sd_space.c: the list that files are removed by belongs to the     *)
(* directory it is applied to, and the oldest file goes first, for every   *)
(* set of directories, size of card and number of files and edits, and     *)
(* however many of the files share a second.                               *)
(***************************************************************************)
EXTENDS GuardSdSpace, FiniteSetTheorems, TLAPS

\* Files are numbered in the order of their recording.
Recorded ==
  /\ clock \in Nat
  /\ \A d \in Dirs : files[d] \subseteq 1 .. clock

\* need_reread stays set until the directory has been listed.
Listed == old_scanned_dir = scanned_dir /\ scanned_dir \in Dirs
PhaseKnows ==
  /\ pc \in {"read", "count", "clear"} => need_reread
  /\ pc = "loop" /\ ~ need_reread => Listed
  /\ pc \in {"clear", "space", "delete", "sleep"} => Listed

\* The list names each of its files once, newest first.
ListSorted(list) ==
  \A i, j \in DOMAIN list : i < j => mtime[list[i]] >= mtime[list[j]] /\ list[i] # list[j]

\* It names files of S only, and a file of S it does not name is one that could not be
\* removed or one that is no older than any it names.
ListCovers(list, S, skipped) ==
  /\ \A i \in DOMAIN list : list[i] \in S
  /\ \A f \in S :
       \/ f \in skipped
       \/ \E i \in DOMAIN list : list[i] = f
       \/ \A i \in DOMAIN list : mtime[f] >= mtime[list[i]]

GuardInv ==
  /\ TypeOK /\ Recorded /\ PhaseKnows
  /\ ListSorted(g_namelist)
  /\ old_scanned_dir # NoDir => ListCovers(g_namelist, files[old_scanned_dir], missed)

\* What a scan of S returns.
LEMMA ListingOf ==
  ASSUME NEW n \in Nat, NEW S \in SUBSET (1 .. n), NEW list \in Listings(S)
  PROVE  /\ list \in Seq(1 .. n)
         /\ ListSorted(list)
         /\ \A i \in DOMAIN list : list[i] \in S
         /\ \A f \in S : \E i \in DOMAIN list : list[i] = f
<1>1. IsFiniteSet(S)
  <2>1. IsFiniteSet(1 .. n)
    BY FS_Interval
  <2> QED BY <2>1, FS_Subset
<1>2. Cardinality(S) \in Nat
  BY <1>1, FS_CardinalityType
<1>3. /\ list \in [1 .. Cardinality(S) -> S]
      /\ ToSet(list) = S
      /\ \A i, j \in DOMAIN list : i < j => mtime[list[i]] >= mtime[list[j]] /\ list[i] # list[j]
  BY DEF Listings, NewestFirst
<1>4. list \in Seq(1 .. n)
  <2>1. list \in [1 .. Cardinality(S) -> 1 .. n]
    BY <1>3
  <2> QED BY <1>2, <2>1
<1>5. ListSorted(list)
  BY <1>3 DEF ListSorted
<1>6. \A f \in S : \E i \in DOMAIN list : list[i] = f
  BY <1>3 DEF ToSet
<1> QED BY <1>3, <1>4, <1>5, <1>6

\* The list without its last file.
LEMMA FrontOf ==
  ASSUME NEW n \in Nat, NEW list \in Seq(1 .. n), list # <<>>
  PROVE  /\ Front(list) \in Seq(1 .. n)
         /\ DOMAIN Front(list) = DOMAIN list \ {Len(list)}
         /\ \A i \in DOMAIN Front(list) : Front(list)[i] = list[i]
         /\ Len(list) \in DOMAIN list /\ Last(list) = list[Len(list)]
BY DEF Front, Last

LEMMA InitInv == Init => GuardInv
BY GuardAssumption DEF Init, GuardInv, TypeOK, Recorded, PhaseKnows, Listed, ListSorted, ListCovers,
     listVars

\* A scan of d makes a list that holds all of d.
LEMMA ScanLists ==
  ASSUME GuardInv, NEW d \in Dirs, Scan(d)
  PROVE  /\ g_namelist' \in Seq(1 .. MaxFiles) /\ missed' = {}
         /\ ListSorted(g_namelist')
         /\ ListCovers(g_namelist', files[d], missed')
<1>1. files[d] \in SUBSET (1 .. MaxFiles) /\ MaxFiles \in Nat
  BY GuardAssumption DEF GuardInv, TypeOK
<1>2. g_namelist' \in Listings(files[d]) /\ missed' = {}
  BY DEF Scan
<1>3. /\ g_namelist' \in Seq(1 .. MaxFiles)
      /\ ListSorted(g_namelist')
      /\ \A i \in DOMAIN g_namelist' : g_namelist'[i] \in files[d]
      /\ \A f \in files[d] : \E i \in DOMAIN g_namelist' : g_namelist'[i] = f
  BY <1>1, <1>2, ListingOf
<1> QED BY <1>2, <1>3 DEF ListCovers

\* The steps of main's loop outside the loop that removes files.
LEMMA LoopStep ==
  ASSUME GuardInv, Loop \/ ReadConfig \/ ClearReread \/ FreeSpace \/ Sleep
  PROVE  GuardInv'
<1> USE DEF GuardInv, TypeOK, Recorded, PhaseKnows, Listed, ListCovers, Goes, listVars, worldVars
<1>1. CASE Loop
  BY <1>1 DEF Loop
<1>2. CASE ReadConfig
  <2>1. CASE config # NoFile
    BY <1>2, <2>1, GuardAssumption DEF ReadConfig, ReadNamed, Takes, MustScan
  <2>2. CASE config = NoFile
    BY <1>2, <2>2, GuardAssumption DEF ReadConfig, ReadMissing, Takes, MustScan
  <2> QED BY <2>1, <2>2
<1>3. CASE ClearReread
  BY <1>3 DEF ClearReread
<1>4. CASE FreeSpace
  BY <1>4 DEF FreeSpace
<1>5. CASE Sleep
  BY <1>5 DEF Sleep
<1> QED BY <1>1, <1>2, <1>3, <1>4, <1>5

LEMMA CountStep == ASSUME GuardInv, CountFiles PROVE GuardInv'
<1>1. CASE scanned_dir \in present
  <2>1. scanned_dir \in Dirs /\ Scan(scanned_dir) /\ files' = files /\ old_scanned_dir' = scanned_dir
    BY <1>1 DEF CountFiles, GuardInv, TypeOK, Goes, worldVars
  <2>2. /\ g_namelist' \in Seq(1 .. MaxFiles) /\ missed' = {}
        /\ ListSorted(g_namelist')
        /\ ListCovers(g_namelist', files[scanned_dir], missed')
    BY <2>1, ScanLists
  <2> QED
    BY <1>1, <2>1, <2>2
    DEF CountFiles, GuardInv, TypeOK, Recorded, PhaseKnows, Listed, ListCovers, Goes, worldVars
<1>2. CASE scanned_dir \notin present
  BY <1>2 DEF CountFiles, GuardInv, TypeOK, Recorded, PhaseKnows, Listed, ListCovers, Goes,
              worldVars, listVars
<1> QED BY <1>1, <1>2

\* Removing the last file of the list removes the oldest that is left of it.
LEMMA DeleteFile ==
  ASSUME GuardInv, Delete, g_namelist # <<>>
  PROVE  /\ \A g \in files[scanned_dir] : mtime[g] < mtime[Last(g_namelist)] => g \in missed
         /\ g_namelist' \in Seq(1 .. MaxFiles) /\ missed' \subseteq 1 .. MaxFiles
         /\ ListSorted(g_namelist')
         /\ ListCovers(g_namelist', files'[scanned_dir], missed')
         /\ files' \in [Dirs -> SUBSET (1 .. MaxFiles)]
         /\ \A d \in Dirs : files'[d] \subseteq files[d]
         /\ \A d \in Dirs : \A f \in files[d] \ files'[d] :
              d = scanned_dir /\ f = Last(g_namelist)
<1> DEFINE n == Len(g_namelist)
           last == g_namelist[n]
<1>1. /\ g_namelist \in Seq(1 .. MaxFiles) /\ missed \subseteq 1 .. MaxFiles
      /\ files \in [Dirs -> SUBSET (1 .. MaxFiles)] /\ MaxFiles \in Nat
      /\ ListSorted(g_namelist)
      /\ scanned_dir \in Dirs
      /\ ListCovers(g_namelist, files[scanned_dir], missed)
  BY GuardAssumption DEF Delete, Goes, GuardInv, TypeOK, PhaseKnows, Listed
<1>2. /\ Front(g_namelist) \in Seq(1 .. MaxFiles)
      /\ DOMAIN Front(g_namelist) = DOMAIN g_namelist \ {n}
      /\ \A i \in DOMAIN Front(g_namelist) : Front(g_namelist)[i] = g_namelist[i]
      /\ n \in DOMAIN g_namelist /\ Last(g_namelist) = last
  BY <1>1, FrontOf
<1>3. /\ g_namelist' = Front(g_namelist)
      /\ \/ /\ files' = [files EXCEPT ![scanned_dir] = @ \ {last}]
            /\ missed' = missed
         \/ files' = files /\ missed' = missed \cup {last}
  BY <1>2, SMTT(60) DEF Delete
<1>4. \A i \in DOMAIN Front(g_namelist) :
        mtime[g_namelist[i]] >= mtime[last] /\ g_namelist[i] # last
  <2> SUFFICES ASSUME NEW i \in DOMAIN Front(g_namelist)
               PROVE  mtime[g_namelist[i]] >= mtime[last] /\ g_namelist[i] # last
    OBVIOUS
  <2>1. i \in DOMAIN g_namelist /\ n \in DOMAIN g_namelist /\ i < n
    BY <1>1, <1>2, SMTT(60)
  <2> HIDE DEF n
  <2> QED BY <1>1, <2>1, SMTT(60) DEF ListSorted
<1>5. last \in 1 .. MaxFiles /\ mtime[last] \in Nat
  BY <1>1, <1>2, GuardAssumption
<1>6. \A g \in files[scanned_dir] : mtime[g] < mtime[last] => g \in missed
  <2> SUFFICES ASSUME NEW g \in files[scanned_dir], mtime[g] < mtime[last], g \notin missed
               PROVE  FALSE
    OBVIOUS
  <2>1. mtime[g] \in Nat
    BY <1>1, GuardAssumption
  <2>2. CASE \E i \in DOMAIN g_namelist : g_namelist[i] = g
    BY <1>2, <1>4, <1>5, <2>1, <2>2
  <2>3. CASE \A i \in DOMAIN g_namelist : mtime[g] >= mtime[g_namelist[i]]
    BY <1>2, <1>5, <2>1, <2>3
  <2> QED BY <1>1, <2>2, <2>3 DEF ListCovers
<1>7. ListSorted(g_namelist')
  BY <1>1, <1>2, <1>3 DEF ListSorted
<1>8. ListCovers(g_namelist', files'[scanned_dir], missed')
  <2>1. files'[scanned_dir] \subseteq files[scanned_dir]
    BY <1>1, <1>3
  <2>2. \A i \in DOMAIN g_namelist' : g_namelist'[i] \in files'[scanned_dir]
    BY <1>1, <1>2, <1>3, <1>4, <1>5 DEF ListCovers
  <2>3. last \in missed' \/ last \notin files'[scanned_dir]
    BY <1>1, <1>3
  <2>4. ASSUME NEW f \in files'[scanned_dir]
        PROVE  \/ f \in missed'
               \/ \E i \in DOMAIN g_namelist' : g_namelist'[i] = f
               \/ \A i \in DOMAIN g_namelist' : mtime[f] >= mtime[g_namelist'[i]]
    <3>1. f \in files[scanned_dir]
      BY <2>1
    <3>2. CASE f \in missed
      BY <1>3, <3>2
    <3>3. CASE \E i \in DOMAIN g_namelist : g_namelist[i] = f
      BY <1>2, <1>3, <2>3, <3>3
    <3>4. CASE \A i \in DOMAIN g_namelist : mtime[f] >= mtime[g_namelist[i]]
      BY <1>2, <1>3, <3>4
    <3> QED BY <1>1, <3>1, <3>2, <3>3, <3>4 DEF ListCovers
  <2> QED BY <2>2, <2>4 DEF ListCovers
<1>9. /\ files' \in [Dirs -> SUBSET (1 .. MaxFiles)]
      /\ \A d \in Dirs : files'[d] \subseteq files[d]
      /\ \A d \in Dirs : \A f \in files[d] \ files'[d] : d = scanned_dir /\ f = last
  BY <1>1, <1>3
<1>10. missed' \subseteq 1 .. MaxFiles
  BY <1>1, <1>3, <1>5
<1> QED BY <1>2, <1>3, <1>6, <1>7, <1>8, <1>9, <1>10

LEMMA DeleteStep == ASSUME GuardInv, Delete PROVE GuardInv'
<1>1. /\ scanned_dir \in Dirs /\ old_scanned_dir = scanned_dir
      /\ pc' = "space"
      /\ UNCHANGED <<need_reread, scanned_dir, old_scanned_dir, signals, config, present, clock>>
  BY DEF Delete, Goes, GuardInv, PhaseKnows, Listed
<1>2. CASE g_namelist # <<>>
  <2>1. /\ g_namelist' \in Seq(1 .. MaxFiles) /\ missed' \subseteq 1 .. MaxFiles
        /\ ListSorted(g_namelist')
        /\ ListCovers(g_namelist', files'[scanned_dir], missed')
        /\ files' \in [Dirs -> SUBSET (1 .. MaxFiles)]
        /\ \A d \in Dirs : files'[d] \subseteq files[d]
    BY <1>2, DeleteFile
  <2> QED BY <1>1, <2>1 DEF GuardInv, TypeOK, Recorded, PhaseKnows, Listed
<1>3. CASE g_namelist = <<>> /\ scanned_dir \in present
  <2>1. Scan(scanned_dir) /\ files' = files
    BY <1>3 DEF Delete, Rescan
  <2>2. /\ g_namelist' \in Seq(1 .. MaxFiles) /\ missed' = {}
        /\ ListSorted(g_namelist')
        /\ ListCovers(g_namelist', files[scanned_dir], missed')
    BY <1>1, <2>1, ScanLists
  <2> QED BY <1>1, <2>1, <2>2 DEF GuardInv, TypeOK, Recorded, PhaseKnows, Listed
<1>4. CASE g_namelist = <<>> /\ scanned_dir \notin present
  <2>1. UNCHANGED <<g_namelist, missed, files>>
    BY <1>4 DEF Delete, Rescan, listVars
  <2> QED BY <1>1, <2>1 DEF GuardInv, TypeOK, Recorded, PhaseKnows, Listed
<1> QED BY <1>2, <1>3, <1>4

\* A new file is newer than every file of the list.
LEMMA RecordStep == ASSUME GuardInv, Record PROVE GuardInv'
<1>1. /\ clock' = clock + 1 /\ clock < MaxFiles
      /\ UNCHANGED <<pc, need_reread, scanned_dir, old_scanned_dir, g_namelist, missed, signals,
                     config, present>>
  BY DEF Record, mainVars, listVars
<1>2. PICK d \in present : files' = [files EXCEPT ![d] = @ \cup {clock + 1}]
  BY DEF Record
<1>3. /\ g_namelist \in Seq(1 .. MaxFiles) /\ clock \in Nat /\ MaxFiles \in Nat /\ d \in Dirs
      /\ \A e \in Dirs : files[e] \subseteq 1 .. clock
      /\ files \in [Dirs -> SUBSET (1 .. MaxFiles)]
  BY GuardAssumption DEF GuardInv, TypeOK, Recorded
<1>4. /\ files' \in [Dirs -> SUBSET (1 .. MaxFiles)]
      /\ \A e \in Dirs : files'[e] \subseteq 1 .. clock'
      /\ \A e \in Dirs : files[e] \subseteq files'[e] /\ files'[e] \subseteq files[e] \cup {clock + 1}
  BY <1>1, <1>2, <1>3
<1>5. ASSUME old_scanned_dir # NoDir
      PROVE  ListCovers(g_namelist, files'[old_scanned_dir], missed)
  <2>1. old_scanned_dir \in Dirs /\ ListCovers(g_namelist, files[old_scanned_dir], missed)
    BY <1>5 DEF GuardInv, TypeOK
  <2>2. \A i \in DOMAIN g_namelist : mtime[clock + 1] >= mtime[g_namelist[i]]
    <3> SUFFICES ASSUME NEW i \in DOMAIN g_namelist
                 PROVE  mtime[g_namelist[i]] <= mtime[clock + 1]
      BY <1>1, <1>3, GuardAssumption
    <3>1. g_namelist[i] \in files[old_scanned_dir]
      BY <2>1 DEF ListCovers
    <3>2. g_namelist[i] \in 1 .. clock /\ clock + 1 \in 1 .. MaxFiles
      BY <1>1, <1>3, <2>1, <3>1
    <3>3. g_namelist[i] \in 1 .. MaxFiles /\ g_namelist[i] <= clock + 1
      BY <1>1, <1>3, <3>2
    <3> QED BY <3>2, <3>3, GuardAssumption
  <2> QED BY <1>4, <2>1, <2>2 DEF ListCovers
<1> QED BY <1>1, <1>3, <1>4, <1>5 DEF GuardInv, TypeOK, Recorded, PhaseKnows, Listed

LEMMA OutsideStep ==
  ASSUME GuardInv, SigProcess \/ EditConfig \/ Terminate \/ Card \/ UNCHANGED vars
  PROVE  GuardInv'
<1> USE DEF GuardInv, TypeOK, Recorded, PhaseKnows, Listed, mainVars, listVars, worldVars
<1>1. CASE SigProcess
  BY <1>1 DEF SigProcess
<1>2. CASE EditConfig
  BY <1>2 DEF EditConfig
<1>3. CASE Terminate
  BY <1>3 DEF Terminate
<1>4. CASE Card
  BY <1>4 DEF Card
<1>5. CASE UNCHANGED vars
  BY <1>5 DEF vars
<1> QED BY <1>1, <1>2, <1>3, <1>4, <1>5

LEMMA GuardInvariant == Spec => []GuardInv
<1>1. GuardInv /\ [Next]_vars => GuardInv'
  BY LoopStep, CountStep, DeleteStep, RecordStep, OutsideStep DEF Next, MainStep
<1> QED BY <1>1, InitInv, PTL DEF Spec

-----------------------------------------------------------------------------

\* Every variable has its type; the daemon's list holds files that were recorded.
THEOREM GuardTypes == Spec => []TypeOK
<1>1. GuardInv => TypeOK
  BY DEF GuardInv
<1> QED BY GuardInvariant, <1>1, PTL

\* delete files: the names of the last scan are joined to the directory they are from,
\* whatever the operator, the signals and the card do between the scan and the removal.
THEOREM NamesBelongToDir == Spec => []ListOfScannedDir
<1>1. GuardInv => ListOfScannedDir
  <2>1. ASSUME GuardInv, pc \in {"space", "delete"} PROVE Listed /\ scanned_dir # NoDir
    BY <2>1, GuardAssumption DEF GuardInv, PhaseKnows, Listed
  <2> QED BY <2>1 DEF GuardInv, Listed, ListCovers, ListOfScannedDir, ToSet
<1> QED BY GuardInvariant, <1>1, PTL

\* delete files: no file goes before an older one that could have been removed.
THEOREM OldestGoesFirst == Spec => OldestFirst
<1> DEFINE Order == \A d \in Dirs : \A f \in files[d] \ files'[d], g \in files[d] :
                      mtime[g] < mtime[f] => g \in missed
<1>1. ASSUME GuardInv, [Next]_vars PROVE [Order]_vars
  <2>1. CASE Delete /\ g_namelist # <<>>
    BY <1>1, <2>1, DeleteFile
  <2>2. CASE Delete /\ g_namelist = <<>>
    BY <2>2 DEF Delete
  <2>3. CASE Record
    <3>1. PICK d \in present : files' = [files EXCEPT ![d] = @ \cup {clock + 1}]
      BY <2>3 DEF Record
    <3>2. \A e \in Dirs : files[e] \subseteq files'[e]
      BY <1>1, <3>1 DEF GuardInv, TypeOK
    <3> QED BY <3>2
  <2>4. CASE UNCHANGED files
    BY <2>4
  <2>5. (MainStep /\ ~ Delete) \/ SigProcess \/ EditConfig \/ Terminate \/ Card \/ UNCHANGED vars
          => UNCHANGED files
    BY DEF MainStep, Loop, ReadConfig, CountFiles, ClearReread, FreeSpace, Sleep, SigProcess,
           EditConfig, Terminate, Card, vars, worldVars
  <2> QED BY <1>1, <2>1, <2>2, <2>3, <2>4, <2>5 DEF Next
<1> QED BY <1>1, GuardInvariant, PTL DEF Spec, OldestFirst
=============================================================================
