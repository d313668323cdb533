------------------------------ MODULE BenchProofs ------------------------------
(***************************************************************************)
(* The small programs of MCBench, each alone and then side by side: with   *)
(* BitsFifoProofs this module proves every safety invariant of the         *)
(* composition (BenchSafe).                                                *)
(*                                                                         *)
(* condtest.cpp: a signal is lost only to the timeout it races, for any    *)
(* interleaving of signals, timeouts and spurious wakeups.  The argument   *)
(* is that m_Count is -1 exactly while the child is between the two halves *)
(* of Wait.                                                                *)
(*                                                                         *)
(* test_playback.c: the decoder's ring is never overrun and each thread    *)
(* finds it empty, for any ring and any files.  What the thread asked for  *)
(* before a frame leaves room for the end code that it does not ask for,   *)
(* unless that frame is an IDR frame.                                      *)
(*                                                                         *)
(* test_mp4mux.c: the file leads to each picture.  The index is followed   *)
(* through memory and file; when Stop copies it into the boxes, a word     *)
(* lies at or above the place it goes to, so it is read before that place  *)
(* is written over.                                                        *)
(*                                                                         *)
(* test_soft_vsync.c: the types, with the states in which main holds the   *)
(* mutex.                                                                  *)
(*                                                                         *)
(* net_srv: what a client sent is in the file, once and in order.  The     *)
(* piece between a read and its write continues what the file has of the   *)
(* client served, and nothing in the file lies beyond what was read.       *)
(***************************************************************************)
EXTENDS MCBench, BitsFifoProofs, SequenceTheorems, TLAPS

LatchInv == CondtestTypeOK /\ NoSignalLost

\* What the three values of the count have to do with each other.
LEMMA CountValues == -1 # 0 /\ -1 # 1 /\ 0 # 1
BY SMT

LEMMA LatchInitInv == CondtestInit => LatchInv
BY CountValues, Zenon
DEF CondtestInit, LatchInv, CondtestTypeOK, NoSignalLost, SignalKept, CountTellsWaiter

LEMMA LatchInvInductive == LatchInv /\ [CondtestNext]_condtestVars => LatchInv'
<1> USE DEF LatchInv, CondtestTypeOK, NoSignalLost, SignalKept, CountTellsWaiter
<1>0. SUFFICES ASSUME LatchInv, [CondtestNext]_condtestVars PROVE LatchInv'
  OBVIOUS
<1>1. CASE Signal
  <2>1. CondtestTypeOK'
    BY <1>0, <1>1, Zenon DEF Signal, CountAfterSignal
  <2>2. SignalKept'
    BY <1>0, <1>1, CountValues, Zenon DEF Signal, CountAfterSignal
  <2>3. CountTellsWaiter'
    BY <1>0, <1>1, CountValues, Zenon DEF Signal, CountAfterSignal
  <2> QED BY <2>1, <2>2, <2>3
<1>2. CASE MainLoop
  BY <1>0, <1>2, Zenon DEF MainLoop
<1>3. CASE Join
  BY <1>0, <1>3, Zenon DEF Join
<1>4. CASE Sighandler
  BY <1>0, <1>4, Zenon DEF Sighandler
<1>5. CASE Wait
  <2>1. CASE m_Count = 0
    BY <1>0, <1>5, <2>1, CountValues, Zenon DEF Wait
  <2>2. CASE m_Count # 0
    BY <1>0, <1>5, <2>2, CountValues, Zenon DEF Wait
  <2> QED BY <2>1, <2>2
<1>6. CASE WaitTimesOut
  BY <1>0, <1>6, Zenon DEF WaitTimesOut, TimeIsUp
<1>10. CASE SpuriousWakeup
  BY <1>0, <1>10, Zenon DEF SpuriousWakeup
<1>7. CASE WaitReturns
  <2>1. CondtestTypeOK' /\ CountTellsWaiter'
    BY <1>0, <1>7, CountValues, Zenon DEF WaitReturns
  <2>2. SignalKept'
    BY <1>0, <1>7, CountValues, Zenon DEF WaitReturns, TakesSignal
  <2> QED BY <2>1, <2>2
<1>8. CASE ChildEnds
  BY <1>0, <1>8, Zenon DEF ChildEnds
<1>9. CASE UNCHANGED condtestVars
  BY <1>0, <1>9, Zenon DEF condtestVars
<1> QED
  BY <1>0, <1>1, <1>2, <1>3, <1>4, <1>5, <1>6, <1>7, <1>8, <1>9, <1>10, Zenon
  DEF CondtestNext, SignallerStep, ChildStep

LEMMA LatchInvariant == CondtestSpec => []LatchInv
BY LatchInitInv, LatchInvInductive, PTL DEF CondtestSpec

\* CConditionWait: until a Wait has taken it, a signal is kept in the count or the child is
\* on its way out of Wait with true, unless it raced a timeout.
THEOREM LatchKeepsSignals == CondtestSpec => []NoSignalLost
<1>1. LatchInv => NoSignalLost
  BY DEF LatchInv
<1> QED BY LatchInvariant, <1>1, PTL

-----------------------------------------------------------------------------
(* test_playback.c *)

PlaybackSpec == PlaybackInit /\ [][PlaybackNext]_playbackVars

\* Where the frames end: one behind the other.
Ends ==
  /\ unread \in Seq(Nat)
  /\ \A i, j \in 1 .. Len(unread) : i <= j => unread[i] <= unread[j]

Position ==
  /\ recording \in Recordings /\ repeat_times \in 0 .. 2
  /\ task \in {"wait", "copy"} => frame_index < Len(recording)

\* The room that the thread asked for is still there when it copies, and the end code's
\* when it has copied the last frame, if that was no IDR frame.
RoomLeft ==
  /\ BsbNotOverrun
  /\ task = "copy" => BsbUsed + Request(Frame) <= bsb_mem_size
  /\ task = "eos" => /\ BsbUsed <= bsb_mem_size
                     /\ ~ Last(recording).idr => BsbUsed + EosSize <= bsb_mem_size

\* The decoder holds nothing while the menu can start a thread.
RingFresh == menu = "keys" /\ task = "none" => unread = <<>>

PlaybackInv == PlaybackTypeOK /\ Ends /\ Position /\ RoomLeft /\ RingFresh

LEMMA RingSizes ==
  /\ bsb_mem_size \in Nat /\ GOP_HEADER_SIZE \in Nat /\ EosSize \in Nat
  /\ EosSize <= GOP_HEADER_SIZE
BY PlaybackAssumption

\* A file is not empty.
LEMMA FileFacts ==
  ASSUME NEW file \in Recordings
  PROVE  /\ file \in Seq([size : Nat, idr : BOOLEAN]) /\ Len(file) \in Nat \ {0}
         /\ \A i \in 1 .. Len(file) : file[i].size \in Nat /\ file[i].idr \in BOOLEAN
         /\ Last(file) = file[Len(file)]
<1>1. file \in Seq([size : Nat, idr : BOOLEAN]) \ {<<>>}
  BY PlaybackAssumption
<1>2. Len(file) \in Nat \ {0}
  BY <1>1, EmptySeq
<1>3. \A i \in 1 .. Len(file) : file[i] \in [size : Nat, idr : BOOLEAN]
  BY <1>1, ElementOfSeq
<1> QED BY <1>1, <1>2, <1>3 DEF Last

LEMMA UsedIsNat == Ends => BsbUsed \in Nat
<1> SUFFICES ASSUME Ends, unread # <<>> PROVE unread[Len(unread)] \in Nat
  BY DEF BsbUsed, Last
<1>1. Len(unread) \in 1 .. Len(unread)
  BY EmptySeq, LenProperties DEF Ends
<1> QED BY <1>1, ElementOfSeq DEF Ends

\* The thread puts something behind what the decoder holds.
LEMMA UsedAfterDecode ==
  ASSUME Ends, NEW len \in Nat, unread' = Append(unread, BsbUsed + len)
  PROVE  Ends' /\ BsbUsed' = BsbUsed + len
<1>1. PICK n, e, t : n = Len(unread) /\ e = BsbUsed + len /\ t = unread'
  OBVIOUS
<1>2. n \in Nat /\ e \in Nat /\ BsbUsed \in Nat /\ unread \in Seq(Nat)
  BY <1>1, UsedIsNat, LenProperties DEF Ends
<1>3. /\ t \in Seq(Nat) /\ Len(t) = n + 1 /\ t[n + 1] = e
      /\ \A i \in 1 .. n : t[i] = unread[i]
  BY <1>1, <1>2, AppendProperties
<1>4. BsbUsed' = e
  <2>1. t # <<>>
    BY <1>2, <1>3, EmptySeq
  <2> QED BY <1>1, <1>3, <2>1 DEF BsbUsed, Last
<1>5. ASSUME NEW i \in 1 .. n PROVE unread[i] \in Nat /\ unread[i] <= e
  <2>1. BsbUsed = unread[n] /\ n \in 1 .. n
    <3>1. n # 0
      BY <1>2
    <3> QED BY <1>1, <1>2, <3>1, EmptySeq DEF BsbUsed, Last
  <2>2. unread[i] \in Nat /\ unread[i] <= unread[n]
    <3>1. i <= n
      BY <1>2
    <3> QED BY <1>1, <1>2, <2>1, <3>1, ElementOfSeq DEF Ends
  <2> QED BY <1>1, <1>2, <2>1, <2>2
<1>6. ASSUME NEW i \in 1 .. n + 1, NEW j \in 1 .. n + 1, i <= j
      PROVE  t[i] <= t[j]
  <2>1. CASE j \in 1 .. n
    <3>1. i \in 1 .. n
      BY <1>2, <1>6, <2>1
    <3>2. unread[i] <= unread[j]
      BY <1>1, <1>6, <2>1, <3>1, Zenon DEF Ends
    <3>3. t[i] = unread[i] /\ t[j] = unread[j]
      BY <1>3, <2>1, <3>1, Zenon
    <3>4. unread[i] \in Nat /\ unread[j] \in Nat
      BY <1>5, <2>1, <3>1
    <3> QED BY <3>2, <3>3, <3>4
  <2>2. CASE j = n + 1 /\ i \in 1 .. n
    BY <1>3, <1>5, <2>2
  <2>3. CASE j = n + 1 /\ i = n + 1
    BY <1>2, <1>3, <2>3
  <2> QED BY <1>2, <1>6, <2>1, <2>2, <2>3
<1> QED BY <1>1, <1>3, <1>4, <1>6 DEF Ends

\* Reading leaves the decoder with less.
LEMMA UsedAfterRead ==
  ASSUME Ends, DecoderReads
  PROVE  Ends' /\ BsbUsed' \in Nat /\ BsbUsed' <= BsbUsed
<1>1. PICK n : n = Len(unread)
  OBVIOUS
<1>2. /\ n \in Nat \ {0} /\ unread \in Seq(Nat)
      /\ unread' = [i \in 1 .. n - 1 |-> unread[i + 1] - unread[1]]
  <2>1. unread # <<>> /\ unread' = [i \in 1 .. Len(unread) - 1 |-> unread[i + 1] - unread[1]]
    BY DEF DecoderReads
  <2> QED BY <1>1, <2>1, EmptySeq DEF Ends
<1>3. ASSUME NEW i \in 1 .. n PROVE unread[i] \in Nat /\ unread[1] \in Nat /\ unread[1] <= unread[i]
  <2>1. 1 \in 1 .. n /\ 1 <= i
    BY <1>2
  <2> QED BY <1>1, <1>2, <2>1, ElementOfSeq DEF Ends
<1>4. ASSUME NEW i \in 1 .. n - 1
      PROVE  i + 1 \in 1 .. n /\ unread'[i] = unread[i + 1] - unread[1] /\ unread'[i] \in Nat
  <2>1. i + 1 \in 1 .. n /\ unread'[i] = unread[i + 1] - unread[1]
    BY <1>2
  <2>2. unread[i + 1] - unread[1] \in Nat
    BY <1>3, <2>1
  <2> QED BY <2>1, <2>2
<1>5. unread' \in Seq(Nat) /\ Len(unread') = n - 1
  <2>1. n - 1 \in Nat /\ unread' \in [1 .. n - 1 -> Nat]
    BY <1>2, <1>4
  <2> QED BY <2>1, IsASeq, LenProperties
<1>6. ASSUME NEW i \in 1 .. n - 1, NEW j \in 1 .. n - 1, i <= j
      PROVE  unread'[i] <= unread'[j]
  <2>1. i + 1 <= j + 1
    BY <1>6
  <2>2. unread[i + 1] <= unread[j + 1]
    BY <1>1, <1>4, <2>1 DEF Ends
  <2> QED BY <1>3, <1>4, <2>2
<1>7. Ends'
  BY <1>5, <1>6 DEF Ends
<1>8. BsbUsed = unread[n] /\ BsbUsed \in Nat
  BY <1>1, <1>2, UsedIsNat, EmptySeq DEF BsbUsed, Last
<1>9. CASE n = 1
  <2>1. unread' = <<>>
    BY <1>5, <1>9, EmptySeq
  <2> QED BY <1>7, <1>8, <2>1 DEF BsbUsed
<1>10. CASE n > 1
  <2>1. n - 1 \in 1 .. n - 1 /\ n - 1 + 1 = n
    BY <1>2, <1>10
  <2>2. BsbUsed' = unread'[n - 1]
    <3>1. unread' # <<>>
      BY <1>5, <2>1, EmptySeq
    <3> QED BY <1>5, <3>1 DEF BsbUsed, Last
  <2>3. unread'[n - 1] = unread[n] - unread[1] /\ unread'[n - 1] \in Nat
    BY <1>4, <2>1
  <2>4. unread[1] \in Nat
    BY <1>3, <2>1
  <2>5. unread[n] - unread[1] <= unread[n]
    BY <1>8, <2>4
  <2> QED BY <1>7, <1>8, <2>2, <2>3, <2>5
<1> QED BY <1>2, <1>9, <1>10

LEMMA PlaybackInitInv == PlaybackInit => PlaybackInv
<1> SUFFICES ASSUME NEW file \in Recordings, NEW times \in 0 .. 2,
                    PlaybackStart(file, times, "keys")
             PROVE  PlaybackInv
  BY DEF PlaybackInit
<1>1. /\ recording = file /\ repeat_times = times /\ menu = "keys"
      /\ decode_task_exit_flag = FALSE /\ task = "none"
      /\ frame_index = 0 /\ repeat = 0 /\ unread = <<>> /\ paused = FALSE
  BY DEF PlaybackStart
<1>2. Ends /\ BsbUsed = 0
  <2>1. Len(unread) = 0 /\ unread \in Seq(Nat)
    BY <1>1, EmptySeq
  <2> QED BY <1>1, <2>1 DEF Ends, BsbUsed
<1>3. PlaybackTypeOK
  <2>1. Len(file) \in Nat \ {0}
    BY FileFacts
  <2>2. frame_index \in 0 .. Len(recording)
    BY <1>1, <2>1
  <2>3. repeat \in 0 .. 2
    BY <1>1
  <2> QED BY <1>1, <2>2, <2>3 DEF PlaybackTypeOK
<1> QED BY <1>1, <1>2, <1>3, RingSizes DEF PlaybackInv, Position, RoomLeft, RingFresh, BsbNotOverrun

\* Starting, pausing and ending: they empty the ring or leave it as it is.
LEMMA MenuKeeps ==
  ASSUME PlaybackInv, Start \/ PauseOrResume \/ DestroyDecodeTask \/ FinishDestroy
  PROVE  PlaybackInv'
<1>1. /\ recording \in Recordings /\ Len(recording) \in Nat \ {0}
      /\ 0 \in 0 .. Len(recording) /\ 0 < Len(recording)
  <2>1. recording \in Recordings
    BY DEF PlaybackInv, Position
  <2>2. Len(recording) \in Nat \ {0}
    BY <2>1, FileFacts
  <2> QED BY <2>1, <2>2
<1>2. Ends /\ BsbUsed \in Nat
  BY UsedIsNat DEF PlaybackInv
<1> USE DEF PlaybackInv, PlaybackTypeOK, Position, RoomLeft, RingFresh, BsbNotOverrun
<1>3. CASE UNCHANGED unread
  <2>1. Ends' /\ BsbUsed' = BsbUsed
    BY <1>2, <1>3 DEF Ends, BsbUsed
  <2>2. CASE Start
    BY <1>1, <2>1, <2>2 DEF Start, CreateDecodeTask, Frame, Request
  <2>3. CASE PauseOrResume
    BY <1>1, <2>1, <2>3 DEF PauseOrResume, Frame, Request
  <2>4. CASE DestroyDecodeTask
    BY <1>1, <2>1, <2>4 DEF DestroyDecodeTask, Frame, Request
  <2>5. CASE FinishDestroy
    BY <1>1, <2>1, <2>5 DEF FinishDestroy, Frame, Request
  <2> QED BY <2>2, <2>3, <2>4, <2>5
<1>4. CASE FinishDestroy
  <2>1. Ends' /\ BsbUsed' = 0
    <3>1. unread' = <<>>
      BY <1>4 DEF FinishDestroy
    <3>2. Len(unread') = 0 /\ unread' \in Seq(Nat)
      BY <3>1, EmptySeq
    <3> QED BY <3>1, <3>2 DEF Ends, BsbUsed
  <2>2. /\ UNCHANGED <<recording, repeat_times>> /\ paused' = FALSE
        /\ decode_task_exit_flag' = FALSE
        /\ \/ menu' = "keys" /\ task' = "wait" /\ frame_index' = 0 /\ repeat' = repeat_times
           \/ menu' = "ended" /\ task' = "none" /\ UNCHANGED <<frame_index, repeat>>
    BY <1>4 DEF FinishDestroy
  <2>3. PlaybackTypeOK' /\ Position'
    BY <1>1, <2>2
  <2>4. RoomLeft' /\ RingFresh'
    BY <2>1, <2>2, RingSizes
  <2> QED BY <2>1, <2>3, <2>4
<1> QED BY <1>3, <1>4 DEF Start, PauseOrResume, DestroyDecodeTask

LEMMA TaskKeeps == ASSUME PlaybackInv, TaskStep PROVE PlaybackInv'
<1>1. recording \in Recordings /\ Len(recording) \in Nat \ {0}
  <2>1. recording \in Recordings
    BY DEF PlaybackInv, Position
  <2> QED BY <2>1, FileFacts
<1>2. Ends /\ BsbUsed \in Nat
  BY UsedIsNat DEF PlaybackInv
<1>3. CASE WaitBsb \/ WaitFails
  <2>1. Ends' /\ BsbUsed' = BsbUsed /\ UNCHANGED <<recording, frame_index>>
    BY <1>2, <1>3 DEF Ends, BsbUsed, WaitBsb, WaitFails
  <2> QED BY <1>1, <1>3, <2>1 DEF PlaybackInv, PlaybackTypeOK, Position, RoomLeft, RingFresh,
             WaitBsb, WaitFails, BsbHasRoom, Frame, Request, BsbNotOverrun
<1>4. CASE CopyFrame
  <2>1. /\ task = "copy" /\ UNCHANGED <<recording, repeat_times, menu, decode_task_exit_flag,
                                        repeat, paused>>
        /\ frame_index \in 0 .. Len(recording) /\ frame_index < Len(recording)
    BY <1>4 DEF CopyFrame, PlaybackInv, PlaybackTypeOK, Position
  <2>2. CASE task' = "error_exit" /\ UNCHANGED <<unread, frame_index>>
    <3>1. Ends' /\ BsbUsed' = BsbUsed
      BY <1>2, <2>2 DEF Ends, BsbUsed
    <3> QED BY <1>1, <2>1, <2>2, <3>1 DEF PlaybackInv, PlaybackTypeOK, Position, RoomLeft, RingFresh,
               BsbNotOverrun
  <2>3. CASE /\ unread' = Append(unread, BsbUsed + Frame.size
                                           + (IF Frame.idr THEN GOP_HEADER_SIZE ELSE 0))
             /\ frame_index' = frame_index + 1
             /\ task' = IF frame_index' = Len(recording) THEN "eos" ELSE "wait"
    <3>1. Frame.size \in Nat /\ Frame.idr \in BOOLEAN
      <4>1. frame_index + 1 \in 1 .. Len(recording)
        BY <1>1, <2>1
      <4> QED BY <1>1, <4>1, FileFacts DEF Frame
    <3>2. PICK len : len = Frame.size + (IF Frame.idr THEN GOP_HEADER_SIZE ELSE 0)
      OBVIOUS
    <3>3. len \in Nat /\ len <= Frame.size + GOP_HEADER_SIZE
      BY <3>1, <3>2, RingSizes
    <3>4. unread' = Append(unread, BsbUsed + len)
      <4>1. BsbUsed + Frame.size + (IF Frame.idr THEN GOP_HEADER_SIZE ELSE 0) = BsbUsed + len
        BY <1>2, <3>1, <3>2, RingSizes
      <4> QED BY <2>3, <4>1
    <3>5. Ends' /\ BsbUsed' = BsbUsed + len
      BY <1>2, <3>3, <3>4, UsedAfterDecode
    <3>6. BsbUsed + (Frame.size + GOP_HEADER_SIZE) <= bsb_mem_size
      BY <2>1 DEF PlaybackInv, RoomLeft, Request
    <3>7. PICK used : used = BsbUsed'
      OBVIOUS
    <3>8. /\ used <= bsb_mem_size
          /\ task' = "eos" /\ ~ Last(recording).idr => used + EosSize <= bsb_mem_size
      <4>1. used = BsbUsed + len
        BY <3>5, <3>7
      <4>2. used <= bsb_mem_size
        BY <1>2, <3>1, <3>3, <3>6, <4>1, RingSizes
      <4>3. ASSUME task' = "eos", ~ Last(recording).idr PROVE used + EosSize <= bsb_mem_size
        <5>1. frame_index + 1 = Len(recording)
          BY <2>3, <4>3
        <5>2. len = Frame.size
          <6>1. Frame = Last(recording)
            BY <1>1, <5>1, FileFacts DEF Frame
          <6>2. ~ Frame.idr /\ Frame.size \in Nat
            BY <3>1, <4>3, <6>1, Zenon
          <6> QED BY <3>2, <6>2
        <5> QED BY <1>2, <3>1, <3>6, <4>1, <5>2, RingSizes
      <4> QED BY <4>2, <4>3
    <3>9. RoomLeft'
      <4>1. task' # "copy"
        BY <2>3
      <4>2. recording' = recording
        BY <2>1
      <4> QED BY <3>7, <3>8, <4>1, <4>2 DEF RoomLeft, BsbNotOverrun
    <3>10. PlaybackTypeOK' /\ Position' /\ RingFresh'
      BY <1>1, <2>1, <2>3 DEF PlaybackInv, PlaybackTypeOK, Position, RingFresh
    <3> QED BY <3>5, <3>9, <3>10 DEF PlaybackInv
  <2> QED BY <1>4, <2>2, <2>3 DEF CopyFrame
<1>5. CASE FillEos
  <2>1. /\ task = "eos" /\ frame_index' = 0
        /\ UNCHANGED <<recording, repeat_times, menu, decode_task_exit_flag, paused>>
        /\ task' \in {"error_exit", "wait"} /\ repeat' \in 0 .. 2
    BY <1>5 DEF FillEos, PlaybackInv, PlaybackTypeOK
  <2>2. /\ BsbUsed <= bsb_mem_size
        /\ ~ Last(recording).idr => BsbUsed + EosSize <= bsb_mem_size
    BY <2>1, Zenon DEF PlaybackInv, RoomLeft
  <2>3. PICK before \in Nat, e \in Nat, ring \in Nat :
          before = BsbUsed /\ e = EosSize /\ ring = bsb_mem_size
    BY <1>2, RingSizes
  <2>4. Ends' /\ BsbNotOverrun'
    <3>1. CASE unread' = Append(unread, BsbUsed + EosSize)
      <4>1. Ends' /\ BsbUsed' = before + e
        BY <1>2, <2>3, <3>1, UsedAfterDecode, RingSizes
      <4>2. before + e <= ring \/ (Last(recording).idr /\ before + e <= ring + e)
        BY <2>2, <2>3
      <4> QED BY <2>1, <2>3, <4>1, <4>2 DEF BsbNotOverrun
    <3>2. CASE UNCHANGED unread
      <4>1. Ends' /\ BsbUsed' = BsbUsed
        BY <1>2, <3>2 DEF Ends, BsbUsed
      <4> QED BY <2>2, <4>1 DEF BsbNotOverrun
    <3> QED BY <1>5, <3>1, <3>2 DEF FillEos
  <2> QED BY <1>1, <2>1, <2>4 DEF PlaybackInv, PlaybackTypeOK, Position, RoomLeft, RingFresh
<1>6. CASE EndTask
  <2>1. Ends' /\ BsbUsed' = BsbUsed
    BY <1>2, <1>6 DEF Ends, BsbUsed, EndTask
  <2> QED BY <1>1, <1>6, <2>1 DEF PlaybackInv, PlaybackTypeOK, Position, RoomLeft, RingFresh,
             BsbNotOverrun, EndTask
<1> QED BY <1>3, <1>4, <1>5, <1>6 DEF TaskStep

LEMMA ReadKeeps == ASSUME PlaybackInv, DecoderReads PROVE PlaybackInv'
<1>1. /\ unread # <<>> /\ menu # "ended"
      /\ UNCHANGED <<recording, repeat_times, menu, decode_task_exit_flag, task,
                     frame_index, repeat, paused>>
  BY DEF DecoderReads
<1>2. Ends' /\ BsbUsed' \in Nat /\ BsbUsed' <= BsbUsed /\ BsbUsed \in Nat
  BY UsedAfterRead, UsedIsNat DEF PlaybackInv
<1>3. RoomLeft'
  <2>1. PICK used : used = BsbUsed'
    OBVIOUS
  <2>2. Frame' = Frame
    BY <1>1 DEF Frame
  <2>3. task = "copy" => Request(Frame) \in Nat
    <3> SUFFICES ASSUME task = "copy" PROVE Request(Frame) \in Nat
      OBVIOUS
    <3>1. recording \in Recordings /\ frame_index \in 0 .. Len(recording)
          /\ frame_index < Len(recording)
      BY DEF PlaybackInv, Position, PlaybackTypeOK
    <3>2. frame_index + 1 \in 1 .. Len(recording)
      BY <3>1, FileFacts
    <3> QED BY <3>1, <3>2, FileFacts, RingSizes DEF Request, Frame
  <2>4. PICK before \in Nat, want \in Int, e \in Nat, ring \in Nat :
          /\ before = BsbUsed /\ e = EosSize /\ ring = bsb_mem_size
          /\ task = "copy" => want = Request(Frame)
    <3>1. PICK want \in Int : task = "copy" => want = Request(Frame)
      BY <2>3
    <3> QED BY <1>2, <3>1, RingSizes
  <2>5. used \in Nat /\ used <= before
    BY <1>2, <2>1, <2>4
  <2>6. /\ before <= ring \/ (Last(recording).idr /\ frame_index = 0 /\ before <= ring + e)
        /\ task = "copy" => before + want <= ring
        /\ task = "eos" => before <= ring /\ (~ Last(recording).idr => before + e <= ring)
    BY <2>4, Zenon DEF PlaybackInv, RoomLeft, BsbNotOverrun
  <2>7. /\ used <= ring \/ (Last(recording).idr /\ frame_index = 0 /\ used <= ring + e)
        /\ task = "copy" => used + want <= ring
        /\ task = "eos" => used <= ring /\ (~ Last(recording).idr => used + e <= ring)
    BY <2>4, <2>5, <2>6
  <2>8. /\ task' = task /\ recording' = recording /\ frame_index' = frame_index
        /\ Request(Frame)' = Request(Frame)
    BY <1>1, <2>2 DEF Request
  <2> QED BY <2>1, <2>4, <2>7, <2>8, Zenon DEF RoomLeft, BsbNotOverrun
<1>4. PlaybackTypeOK' /\ Position' /\ RingFresh'
  BY <1>1 DEF PlaybackInv, PlaybackTypeOK, Position, RingFresh, DecoderReads
<1> QED BY <1>2, <1>3, <1>4 DEF PlaybackInv

LEMMA PlaybackInvInductive == PlaybackInv /\ [PlaybackNext]_playbackVars => PlaybackInv'
<1>1. PlaybackInv /\ UNCHANGED playbackVars => PlaybackInv'
  BY DEF playbackVars, PlaybackInv, PlaybackTypeOK, Ends, Position, RoomLeft, RingFresh,
         BsbUsed, Frame, Request, BsbNotOverrun
<1> QED BY <1>1, MenuKeeps, TaskKeeps, ReadKeeps DEF PlaybackNext

\* do_decode_h264 and decode_h264 (test_playback.c): whatever the sizes and the order of
\* the frames, the repeats and the keys, the decoder is never given more than its ring
\* holds, but for the end code of a file that ends with an IDR frame.
THEOREM RingNotOverrun == PlaybackSpec => []BsbNotOverrun
<1>1. PlaybackInv => BsbNotOverrun
  BY DEF PlaybackInv, RoomLeft
<1> QED BY <1>1, PlaybackInitInv, PlaybackInvInductive, PTL DEF PlaybackSpec

\* create_decode_task and destroy_decode_task: a thread that starts finds the ring empty
\* and the thread before it joined.
THEOREM ThreadFindsRingEmpty == PlaybackSpec => RingFreshForTask
<1>1. ASSUME PlaybackInv, [PlaybackNext]_playbackVars
      PROVE  [task' = "wait" /\ task \in {"none", "ended", "error_exit"} =>
                unread' = <<>> /\ task # "error_exit"]_playbackVars
  <2>1. CASE Start
    BY <1>1, <2>1 DEF Start, CreateDecodeTask, PlaybackInv, RingFresh
  <2>2. CASE FinishDestroy
    BY <2>2 DEF FinishDestroy, Joined
  <2>3. CASE TaskStep
    BY <2>3 DEF TaskStep, WaitBsb, WaitFails, CopyFrame, FillEos, EndTask
  <2>4. CASE PauseOrResume \/ DestroyDecodeTask \/ DecoderReads
    BY <2>4 DEF PauseOrResume, DestroyDecodeTask, DecoderReads
  <2> QED BY <1>1, <2>1, <2>2, <2>3, <2>4 DEF PlaybackNext
<1> QED BY <1>1, PlaybackInitInv, PlaybackInvInductive, PTL DEF PlaybackSpec, RingFreshForTask
-----------------------------------------------------------------------------
(* test_mp4mux.c *)

MuxSpec == MuxInit /\ [][MuxNext]_muxVars

\* The recordings whose header is right.
Proper == {v \in Videos : HeaderRight(v)}

\* In t the words of list are in a row from at on, and no other place of ws has changed.
InRow(ws, at, n, list, t) ==
  /\ \A i \in 1 .. n : at + 4 * (i - 1) \in DOMAIN t /\ t[at + 4 * (i - 1)] = list[i]
  /\ \A p \in DOMAIN ws : p \in Int /\ (p < at \/ p >= at + 4 * n) =>
       p \in DOMAIN t /\ t[p] = ws[p]

LEMMA PutPlaces ==
  ASSUME NEW ws, NEW at \in Int, NEW n \in Nat, NEW list, DOMAIN list = 1 .. n
  PROVE  InRow(ws, at, n, list, Put(ws, at, list))
<1>1. PICK mine : mine = {at + 4 * (i - 1) : i \in 1 .. n}
  OBVIOUS
<1>2. Put(ws, at, list) =
        [p \in DOMAIN ws \cup mine |-> IF p \in mine THEN list[(p - at) \div 4 + 1] ELSE ws[p]]
  BY <1>1 DEF Put
<1>3. ASSUME NEW i \in 1 .. n
      PROVE  /\ at + 4 * (i - 1) \in DOMAIN Put(ws, at, list)
             /\ Put(ws, at, list)[at + 4 * (i - 1)] = list[i]
  <2>1. at + 4 * (i - 1) \in mine
    BY <1>1
  <2>2. ((at + 4 * (i - 1)) - at) \div 4 + 1 = i
    OBVIOUS
  <2> QED BY <1>2, <2>1, <2>2, Zenon
<1>4. ASSUME NEW p \in DOMAIN ws, p \in Int, p < at \/ p >= at + 4 * n
      PROVE  p \in DOMAIN Put(ws, at, list) /\ Put(ws, at, list)[p] = ws[p]
  <2>1. p \notin mine
    BY <1>1, <1>4
  <2> QED BY <1>2, <2>1, Zenon
<1> QED BY <1>3, <1>4, Zenon DEF InRow

\* The constant parts of a recording that the layout depends on.
LEMMA VideoFacts ==
  ASSUME video \in Videos
  PROVE  /\ video.frames \in Seq(MuxFrame) /\ Len(video.frames) \in Nat
         /\ video.frame_cnt \in Nat
         /\ \A k \in 1 .. Len(video.frames) : video.frames[k] \in MuxFrame
         /\ video.M \in Nat \ {0} /\ video.idr_interval * video.N \in Nat \ {0}
<1>1. /\ {video.M, video.N, video.idr_interval} \subseteq Nat \ {0}
      /\ video.frames \in Seq(MuxFrame) /\ video.frame_cnt \in Nat
  BY MuxAssumption
<1>2. Len(video.frames) \in Nat /\ \A k \in 1 .. Len(video.frames) : video.frames[k] \in MuxFrame
  BY <1>1, ElementOfSeq
<1>3. \A a, b \in Nat \ {0} : a * b \in Nat \ {0}
  OBVIOUS
<1>4. video.idr_interval * video.N \in Nat \ {0}
  <2>1. video.idr_interval \in Nat \ {0} /\ video.N \in Nat \ {0}
    BY <1>1
  <2> QED BY <1>3, <2>1
<1> QED BY <1>1, <1>2, <1>4

LEMMA RecordingFacts ==
  ASSUME video \in Proper
  PROVE  /\ video.frames \in Seq(MuxFrame) /\ Len(video.frames) \in Nat
         /\ video.frame_cnt \in Nat /\ Len(video.frames) <= video.frame_cnt
         /\ \A k \in 1 .. Len(video.frames) : video.frames[k] \in MuxFrame
         /\ video.M \in Nat \ {0} /\ video.idr_interval * video.N \in Nat \ {0}
         /\ video.M <= video.idr_interval * video.N
<1>1. video \in Videos /\ HeaderRight(video)
  BY Zenon DEF Proper
<1>2. /\ video.frame_cnt >= Len(video.frames)
      /\ video.M <= video.idr_interval * video.N
  BY <1>1, Zenon DEF HeaderRight
<1>3. Len(video.frames) <= video.frame_cnt
  <2>1. PICK n \in Nat, c \in Nat : n = Len(video.frames) /\ c = video.frame_cnt
    BY <1>1, VideoFacts
  <2> QED BY <1>2, <2>1
<1> QED BY <1>1, <1>2, <1>3, VideoFacts, Zenon

LEMMA MaxIdrFact ==
  ASSUME video \in Proper
  PROVE  /\ MaxIdrPacketCnt \in Nat
         /\ video.frame_cnt < MaxIdrPacketCnt * (video.idr_interval * video.N)
<1>1. PICK n, p : n = video.frame_cnt /\ p = video.idr_interval * video.N
  OBVIOUS
<1>2. n \in Nat /\ p \in Nat \ {0}
  BY <1>1, RecordingFacts
<1>3. n \div p \in Nat /\ n < (1 + n \div p) * p
  BY <1>2
<1> QED BY <1>1, <1>3 DEF MaxIdrPacketCnt

\* The room in front of the pictures: the index starts far behind the place of the SPS and
\* PPS, and each of its tables behind the place in the boxes that it is copied to.
LEMMA RoomLayout ==
  ASSUME video \in Proper, NEW v \in Nat, v <= video.frame_cnt, NEW s \in Nat, s <= 128,
         NEW idr \in Nat, idr <= MaxIdrPacketCnt + 1
  PROVE  /\ MediaData \in Nat /\ fpos.ctts \in Nat
         /\ fpos.stsz = fpos.ctts + 8 * video.frame_cnt + 16
         /\ fpos.stco = fpos.ctts + 12 * video.frame_cnt + 32
         /\ FileTypeBox_SIZE + MovieBox_SIZE(0, 0, 0) + 8 \in Nat
         /\ FileTypeBox_SIZE + MovieBox_SIZE(0, 0, 0) + 8 + 140 <= fpos.ctts
         /\ FileTypeBox_SIZE + MovieBox_SIZE(v, idr, s)
              <= fpos.ctts + 17 * v + 4 * idr
         /\ FreeSpaceSize - MovieBox_SIZE(v, idr, s) >= 8
         /\ FreeSpaceSize = MediaData - FileTypeBox_SIZE
<1>1. PICK n, q : n = video.frame_cnt /\ q = MaxIdrPacketCnt
  OBVIOUS
<1>2. n \in Nat /\ q \in Nat
  BY <1>1, RecordingFacts, MaxIdrFact
<1> USE DEF FileTypeBox_SIZE, MovieBox_SIZE, VideoTrackBox_SIZE, VideoMediaBox_SIZE,
            VideoMediaInformationBox_SIZE, VideoSampleTableBox_SIZE,
            CompositionTimeToSampleBox_SIZE, EmptyFreeSpaceBox_SIZE
<1>3. PICK h : h = FileHeader_MAXSIZE
  OBVIOUS
<1>4. h = 24 + MovieBox_SIZE(n, q, 0) + 144
  BY <1>1, <1>3 DEF FileHeader_MAXSIZE
<1>5. h \in Nat /\ MovieBox_SIZE(v, idr, s) \in Nat
  BY <1>2, <1>4
<1>6. PICK m : m = MediaData
  OBVIOUS
<1>7. m = ((h + 1023) \div 1024 + 2) * 1024 /\ FreeSpaceSize = m - FileTypeBox_SIZE
  <2>1. ((h + 1023) \div 1024 + 2) * 1024 \in Int
    BY <1>5
  <2> QED BY <1>3, <1>6, <2>1 DEF MediaData, FreeSpaceSize
<1>8. m \in Nat /\ m >= h + 2048
  BY <1>5, <1>7
<1>9. PICK start : start = fpos.ctts
  OBVIOUS
<1>10. /\ start = (m - (4 * 4 * n + 80)) - ((m - (4 * 4 * n + 80)) % 8)
       /\ fpos.stsz = start + 8 * n + 16 /\ fpos.stco = start + 12 * n + 32
  BY <1>1, <1>6, <1>9 DEF fpos
<1>11. start \in Int /\ start >= m - (4 * 4 * n + 80) - 7
  BY <1>2, <1>8, <1>10
<1>12. /\ m >= h + 2048 /\ start >= m - 16 * n - 87
  BY <1>8, <1>11, <1>2
<1>13. PICK c : c = MovieBox_SIZE(0, 0, 0)
  OBVIOUS
<1>14. /\ c \in Nat /\ h = 24 + (c + 17 * n + 4 * q) + 144
       /\ MovieBox_SIZE(v, idr, s) = c + s + 17 * v + 4 * idr
  BY <1>2, <1>4, <1>13
<1>15. PICK b : b = MovieBox_SIZE(v, idr, s)
  OBVIOUS
<1>16. b = c + s + 17 * v + 4 * idr /\ FileTypeBox_SIZE = 24
  BY <1>14, <1>15
<1> HIDE DEF FileTypeBox_SIZE, MovieBox_SIZE
<1>17. /\ FreeSpaceSize = m - 24 /\ v <= n /\ idr <= q + 1 /\ m \in Nat /\ start \in Int /\ h \in Nat
  BY <1>1, <1>5, <1>7, <1>8, <1>11, <1>16
<1>18. /\ start \in Nat /\ 24 + c + 8 \in Nat /\ 24 + c + 8 + 140 <= start
       /\ 24 + b <= start + 17 * v + 4 * idr /\ (m - 24) - b >= 8
  BY <1>2, <1>12, <1>14, <1>16, <1>17
<1> QED
  BY <1>1, <1>6, <1>9, <1>10, <1>13, <1>15, <1>16, <1>17, <1>18

\* The frames in front of the first IDR frame, and where the IDR frames are behind them.
LEMMA LeadingFacts ==
  ASSUME video \in Proper
  PROVE  /\ Leading(video) \in 0 .. Len(video.frames) /\ LeadBy(video, Leading(video))
         /\ \A k \in 1 .. Len(video.frames) - Leading(video) :
              video.frames[Leading(video) + k].pic_type = IDR
                <=> \E i \in 1 .. k : k = SyncSample(video, i)
<1>1. PICK n \in 0 .. Len(video.frames) :
        /\ LeadBy(video, n)
        /\ \A k \in 1 .. Len(video.frames) - n :
             video.frames[n + k].pic_type = IDR <=> \E i \in 1 .. k : k = SyncSample(video, i)
  BY Zenon DEF Proper, HeaderRight
<1>2. Leading(video) \in 0 .. Len(video.frames) /\ LeadBy(video, Leading(video))
  BY <1>1 DEF Leading
<1>3. ASSUME NEW a \in 0 .. Len(video.frames), NEW b \in 0 .. Len(video.frames),
             LeadBy(video, a), LeadBy(video, b), a < b
      PROVE  FALSE
  <2>1. a + 1 \in 1 .. b /\ a < Len(video.frames)
    BY <1>3, RecordingFacts
  <2> QED BY <1>3, <2>1 DEF LeadBy
<1>4. Leading(video) = n
  <2>1. n \in Int /\ Leading(video) \in Int
    BY <1>2, RecordingFacts
  <2>2. ~ n < Leading(video) /\ ~ Leading(video) < n
    BY <1>1, <1>2, <1>3
  <2> QED BY <2>1, <2>2
<1> QED BY <1>1, <1>2, <1>4

\* The numbers of the sync samples ascend.
LEMMA SyncSampleNext ==
  ASSUME video \in Proper, NEW i \in Nat \ {0}
  PROVE  /\ SyncSample(video, i) \in Nat \ {0}
         /\ SyncSample(video, i) < SyncSample(video, i + 1)
         /\ i <= SyncSample(video, i)
         /\ i > 1 => SyncSample(video, i) = 2 - video.M + (i - 1) * (video.idr_interval * video.N)
<1>1. PICK p, m : p = video.idr_interval * video.N /\ m = video.M
  OBVIOUS
<1>2. p \in Nat \ {0} /\ m \in Nat \ {0} /\ m <= p
  BY <1>1, RecordingFacts
<1>3. SyncSample(video, 1) = 1
  BY DEF SyncSample
<1>4. \A j \in Nat : j > 1 => SyncSample(video, j) = 2 - m + (j - 1) * p
  <2>1. \A j \in Nat : j > 1 => SyncSample(video, j) = 1 + (j - 1) * p - (m - 1)
    BY <1>1 DEF SyncSample
  <2>2. \A j \in Nat : (j - 1) * p \in Int
    BY <1>2
  <2> QED BY <1>2, <2>1, <2>2
<1>5. CASE i = 1
  <2>1. SyncSample(video, 2) = 2 - m + 1 * p
    BY <1>4
  <2>2. SyncSample(video, 2) > 1
    BY <1>2, <2>1
  <2> QED BY <1>3, <1>5, <2>2
<1>6. CASE i > 1
  <2>1. PICK x : x = (i - 1) * p
    OBVIOUS
  <2>2. x \in Nat /\ ((i + 1) - 1) * p = x + p
    BY <1>2, <2>1
  <2>3. x >= p + (i - 2)
    <3>1. PICK y : y = i - 2
      OBVIOUS
    <3>2. y \in Nat /\ x = p + y * p
      BY <1>2, <1>6, <2>1, <3>1
    <3>3. y * p \in Nat /\ y * p >= y
      BY <1>2, <3>2
    <3> QED BY <1>2, <3>1, <3>2, <3>3
  <2>4. SyncSample(video, i) = 2 - m + x /\ SyncSample(video, i + 1) = 2 - m + (x + p)
    BY <1>4, <1>6, <2>1, <2>2
  <2>5. /\ 2 - m + x \in Nat \ {0} /\ 2 - m + x < 2 - m + (x + p) /\ i <= 2 - m + x
    BY <1>2, <1>6, <2>2, <2>3
  <2> QED BY <1>1, <2>1, <2>4, <2>5
<1> QED BY <1>5, <1>6

\* Between two neighbouring numbers there is none.
LEMMA SyncSampleGap ==
  ASSUME video \in Proper, NEW i \in Nat \ {0}, NEW j \in Nat \ {0}, i < j
  PROVE  SyncSample(video, i + 1) <= SyncSample(video, j)
<1>1. PICK p, m : p = video.idr_interval * video.N /\ m = video.M
  OBVIOUS
<1>2. p \in Nat \ {0} /\ m \in Nat \ {0} /\ m <= p
  BY <1>1, RecordingFacts
<1>3. SyncSample(video, j) = 2 - m + (j - 1) * p /\ SyncSample(video, i + 1) = 2 - m + i * p
  <2>1. i + 1 \in Nat \ {0} /\ j > 1 /\ i + 1 > 1 /\ (i + 1) - 1 = i
    OBVIOUS
  <2> QED BY <1>1, <2>1, SyncSampleNext
<1>4. i * p <= (j - 1) * p
  <2>1. PICK d : d = (j - 1) - i
    OBVIOUS
  <2>2. d \in Nat /\ (j - 1) * p = i * p + d * p
    BY <1>2, <2>1
  <2>3. d * p \in Nat /\ i * p \in Nat
    BY <1>2, <2>2
  <2> QED BY <2>2, <2>3
<1>5. i * p \in Int /\ (j - 1) * p \in Int
  BY <1>2
<1> QED BY <1>2, <1>3, <1>4, <1>5

\* The IDR frames among the first v pictures are hardly more than Init expects.
LEMMA SyncSampleBound ==
  ASSUME video \in Proper, NEW i \in Nat \ {0}, SyncSample(video, i) <= video.frame_cnt
  PROVE  i <= MaxIdrPacketCnt + 1
<1>1. PICK p, m, n, q : /\ p = video.idr_interval * video.N /\ m = video.M
                        /\ n = video.frame_cnt /\ q = MaxIdrPacketCnt
  OBVIOUS
<1>2. /\ p \in Nat \ {0} /\ m \in Nat \ {0} /\ m <= p /\ n \in Nat /\ q \in Nat /\ n < q * p
  BY <1>1, RecordingFacts, MaxIdrFact
<1>3. CASE i > q + 1
  <2>1. SyncSample(video, i) = 2 - m + (i - 1) * p
    BY <1>1, <1>2, <1>3, SyncSampleNext
  <2>2. PICK d : d = (i - 1) - (q + 1)
    OBVIOUS
  <2>3. d \in Nat /\ (i - 1) * p = q * p + p + d * p
    BY <1>2, <1>3, <2>2
  <2>4. d * p \in Nat /\ q * p \in Nat
    BY <1>2, <2>3
  <2>5. 2 - m + (q * p + p + d * p) > n
    BY <1>2, <2>4
  <2>6. SyncSample(video, i) = 2 - m + (q * p + p + d * p)
    BY <2>1, <2>3, Zenon
  <2>7. SyncSample(video, i) > n /\ SyncSample(video, i) <= n /\ n \in Int
    BY <1>1, <1>2, <2>5, <2>6
  <2>8. SyncSample(video, i) \in Int
    BY SyncSampleNext
  <2> QED BY <2>7, <2>8
<1>4. CASE i <= q + 1
  BY <1>1, <1>4
<1>5. q \in Int
  BY <1>2
<1> QED BY <1>3, <1>4, <1>5

-----------------------------------------------------------------------------
(* The index of the pictures: the first of them in the file, the rest in memory. *)

MuxEntry == [ctts : Nat, stsz : Nat, stco : Nat]
EntryIn(ws, k) ==
  [ctts |-> ws[fpos.ctts + 8 * (k - 1) + 4], stsz |-> ws[fpos.stsz + 4 * (k - 1)],
   stco |-> ws[fpos.stco + 4 * (k - 1)]]
IndexIn(ws, n) ==
  \A k \in 1 .. n :
    /\ fpos.ctts + 8 * (k - 1) \in DOMAIN ws /\ ws[fpos.ctts + 8 * (k - 1)] = 1
    /\ fpos.ctts + 8 * (k - 1) + 4 \in DOMAIN ws
    /\ fpos.stsz + 4 * (k - 1) \in DOMAIN ws /\ fpos.stco + 4 * (k - 1) \in DOMAIN ws
PlacesAt(n) ==
  [ctts |-> fpos.ctts + 8 * n, stsz |-> fpos.stsz + 4 * n, stco |-> fpos.stco + 4 * n]

\* What is written behind n entries stays clear of them, and is found where they end.
LEMMA WriteIdxPlaces ==
  ASSUME video \in Proper, NEW ws, NEW list \in Seq(MuxEntry), NEW n \in Nat,
         cur_fpos = PlacesAt(n), n + Len(list) <= video.frame_cnt, IndexIn(ws, n)
  PROVE  /\ IndexIn(WriteIdx(ws, list), n + Len(list))
         /\ \A k \in 1 .. n : EntryIn(WriteIdx(ws, list), k) = EntryIn(ws, k)
         /\ \A k \in 1 .. Len(list) : EntryIn(WriteIdx(ws, list), n + k) = list[k]
<1>1. PICK a, z, o, c, m : /\ a = fpos.ctts /\ z = fpos.stsz /\ o = fpos.stco
                           /\ c = video.frame_cnt /\ m = Len(list)
  OBVIOUS
<1>2. /\ a \in Nat /\ c \in Nat /\ m \in Nat /\ z = a + 8 * c + 16 /\ o = a + 12 * c + 32
      /\ n + m <= c
  <2>1. a \in Nat /\ z = a + 8 * c + 16 /\ o = a + 12 * c + 32
    <3>1. 0 <= video.frame_cnt /\ 0 <= MaxIdrPacketCnt + 1
      BY RecordingFacts, MaxIdrFact
    <3> QED BY <1>1, <3>1, RoomLayout
  <2> QED BY <1>1, <2>1, RecordingFacts, LenProperties
<1>3. PICK l1, l2, l3 : /\ l1 = CttsWords(list) /\ l2 = [i \in DOMAIN list |-> list[i].stsz]
                        /\ l3 = [i \in DOMAIN list |-> list[i].stco]
  OBVIOUS
<1>4. PICK w1, w2, w3 : /\ w1 = Put(ws, a + 8 * n, l1) /\ w2 = Put(w1, z + 4 * n, l2)
                        /\ w3 = Put(w2, o + 4 * n, l3)
  OBVIOUS
<1>5. w3 = WriteIdx(ws, list)
  <2>1. cur_fpos.ctts = a + 8 * n /\ cur_fpos.stsz = z + 4 * n /\ cur_fpos.stco = o + 4 * n
    BY <1>1 DEF PlacesAt
  <2> QED BY <1>3, <1>4, <2>1 DEF WriteIdx
<1>6. /\ DOMAIN list = 1 .. m /\ DOMAIN l1 = 1 .. 2 * m
      /\ DOMAIN l2 = 1 .. m /\ DOMAIN l3 = 1 .. m
      /\ \A j \in 1 .. m : /\ l1[2 * j - 1] = 1 /\ l1[2 * j] = list[j].ctts
                           /\ l2[j] = list[j].stsz /\ l3[j] = list[j].stco
  <2>1. DOMAIN list = 1 .. m
    BY <1>1, LenProperties
  <2>2. l1 = [i \in 1 .. 2 * m |-> IF i % 2 = 1 THEN 1 ELSE list[i \div 2].ctts]
    BY <1>1, <1>3 DEF CttsWords
  <2>3. ASSUME NEW j \in 1 .. m
        PROVE  /\ 2 * j - 1 \in 1 .. 2 * m /\ (2 * j - 1) % 2 = 1
               /\ 2 * j \in 1 .. 2 * m /\ (2 * j) % 2 # 1 /\ (2 * j) \div 2 = j
    BY <1>2
  <2>4. ASSUME NEW j \in 1 .. m PROVE l1[2 * j - 1] = 1 /\ l1[2 * j] = list[j].ctts
    BY <2>2, <2>3, Zenon
  <2> QED BY <1>3, <2>1, <2>2, <2>4, Zenon
<1>7. InRow(ws, a + 8 * n, 2 * m, l1, w1)
  <2>1. a + 8 * n \in Int /\ 2 * m \in Nat
    BY <1>2
  <2>2. DOMAIN l1 = 1 .. 2 * m
    BY <1>6, Zenon
  <2> QED BY <1>4, <2>1, <2>2, PutPlaces, Zenon
<1>8. InRow(w1, z + 4 * n, m, l2, w2)
  <2>1. z + 4 * n \in Int /\ m \in Nat
    BY <1>2
  <2>2. DOMAIN l2 = 1 .. m
    BY <1>6, Zenon
  <2> QED BY <1>4, <2>1, <2>2, PutPlaces, Zenon
<1>9. InRow(w2, o + 4 * n, m, l3, w3)
  <2>1. o + 4 * n \in Int /\ m \in Nat
    BY <1>2
  <2>2. DOMAIN l3 = 1 .. m
    BY <1>6, Zenon
  <2> QED BY <1>4, <2>1, <2>2, PutPlaces, Zenon
<1>10. ASSUME NEW p \in DOMAIN ws, p \in Int, p < a + 8 * n \/ p >= (a + 8 * n) + 4 * (2 * m),
              p < z + 4 * n \/ p >= (z + 4 * n) + 4 * m, p < o + 4 * n \/ p >= (o + 4 * n) + 4 * m
       PROVE  p \in DOMAIN w3 /\ w3[p] = ws[p]
  BY <1>7, <1>8, <1>9, <1>10, Zenon DEF InRow
<1>11. ASSUME NEW k \in 1 .. n
       PROVE  /\ a + 8 * (k - 1) \in DOMAIN w3 /\ w3[a + 8 * (k - 1)] = 1
              /\ a + 8 * (k - 1) + 4 \in DOMAIN w3
              /\ w3[a + 8 * (k - 1) + 4] = ws[a + 8 * (k - 1) + 4]
              /\ z + 4 * (k - 1) \in DOMAIN w3 /\ w3[z + 4 * (k - 1)] = ws[z + 4 * (k - 1)]
              /\ o + 4 * (k - 1) \in DOMAIN w3 /\ w3[o + 4 * (k - 1)] = ws[o + 4 * (k - 1)]
  <2>1. /\ a + 8 * (k - 1) \in DOMAIN ws /\ ws[a + 8 * (k - 1)] = 1
        /\ a + 8 * (k - 1) + 4 \in DOMAIN ws
        /\ z + 4 * (k - 1) \in DOMAIN ws /\ o + 4 * (k - 1) \in DOMAIN ws
    BY <1>1, Zenon DEF IndexIn
  <2>2. a + 8 * (k - 1) \in DOMAIN w3 /\ w3[a + 8 * (k - 1)] = ws[a + 8 * (k - 1)]
    <3>1. PICK p : p = a + 8 * (k - 1)
      OBVIOUS
    <3>2. p \in Int /\ p < a + 8 * n /\ p < z + 4 * n /\ p < o + 4 * n
      BY <1>2, <3>1
    <3> QED BY <1>10, <2>1, <3>1, <3>2, Zenon
  <2>3. a + 8 * (k - 1) + 4 \in DOMAIN w3 /\ w3[a + 8 * (k - 1) + 4] = ws[a + 8 * (k - 1) + 4]
    <3>1. PICK p : p = a + 8 * (k - 1) + 4
      OBVIOUS
    <3>2. p \in Int /\ p < a + 8 * n /\ p < z + 4 * n /\ p < o + 4 * n
      BY <1>2, <3>1
    <3> QED BY <1>10, <2>1, <3>1, <3>2, Zenon
  <2>4. z + 4 * (k - 1) \in DOMAIN w3 /\ w3[z + 4 * (k - 1)] = ws[z + 4 * (k - 1)]
    <3>1. PICK p : p = z + 4 * (k - 1)
      OBVIOUS
    <3>2. p \in Int /\ p >= (a + 8 * n) + 4 * (2 * m) /\ p < z + 4 * n /\ p < o + 4 * n
      BY <1>2, <3>1
    <3> QED BY <1>10, <2>1, <3>1, <3>2, Zenon
  <2>5. o + 4 * (k - 1) \in DOMAIN w3 /\ w3[o + 4 * (k - 1)] = ws[o + 4 * (k - 1)]
    <3>1. PICK p : p = o + 4 * (k - 1)
      OBVIOUS
    <3>2. p \in Int /\ p >= (a + 8 * n) + 4 * (2 * m) /\ p >= (z + 4 * n) + 4 * m /\ p < o + 4 * n
      BY <1>2, <3>1
    <3> QED BY <1>10, <2>1, <3>1, <3>2, Zenon
  <2> QED BY <2>1, <2>2, <2>3, <2>4, <2>5
<1>12. ASSUME NEW k \in 1 .. m
       PROVE  /\ a + 8 * ((n + k) - 1) \in DOMAIN w3 /\ w3[a + 8 * ((n + k) - 1)] = 1
              /\ a + 8 * ((n + k) - 1) + 4 \in DOMAIN w3
              /\ w3[a + 8 * ((n + k) - 1) + 4] = list[k].ctts
              /\ z + 4 * ((n + k) - 1) \in DOMAIN w3 /\ w3[z + 4 * ((n + k) - 1)] = list[k].stsz
              /\ o + 4 * ((n + k) - 1) \in DOMAIN w3 /\ w3[o + 4 * ((n + k) - 1)] = list[k].stco
  <2>1. ASSUME NEW i \in 1 .. 2 * m
        PROVE  /\ (a + 8 * n) + 4 * (i - 1) \in DOMAIN w3
               /\ w3[(a + 8 * n) + 4 * (i - 1)] = l1[i]
    <3>1. PICK p : p = (a + 8 * n) + 4 * (i - 1)
      OBVIOUS
    <3>2. p \in DOMAIN w1 /\ w1[p] = l1[i]
      BY <1>7, <3>1, Zenon DEF InRow
    <3>3. p \in Int /\ p < z + 4 * n /\ p < o + 4 * n
      BY <1>2, <3>1
    <3> QED BY <1>8, <1>9, <3>1, <3>2, <3>3, Zenon DEF InRow
  <2>2. /\ (z + 4 * n) + 4 * (k - 1) \in DOMAIN w3
        /\ w3[(z + 4 * n) + 4 * (k - 1)] = l2[k]
    <3>1. PICK p : p = (z + 4 * n) + 4 * (k - 1)
      OBVIOUS
    <3>2. p \in DOMAIN w2 /\ w2[p] = l2[k]
      BY <1>8, <3>1, Zenon DEF InRow
    <3>3. p \in Int /\ p < o + 4 * n
      BY <1>2, <3>1
    <3> QED BY <1>9, <3>1, <3>2, <3>3, Zenon DEF InRow
  <2>3. /\ 2 * k - 1 \in 1 .. 2 * m /\ 2 * k \in 1 .. 2 * m
        /\ (a + 8 * n) + 4 * ((2 * k - 1) - 1) = a + 8 * ((n + k) - 1)
        /\ (a + 8 * n) + 4 * (2 * k - 1) = a + 8 * ((n + k) - 1) + 4
        /\ (z + 4 * n) + 4 * (k - 1) = z + 4 * ((n + k) - 1)
        /\ (o + 4 * n) + 4 * (k - 1) = o + 4 * ((n + k) - 1)
    BY <1>2
  <2>4. /\ a + 8 * ((n + k) - 1) \in DOMAIN w3 /\ w3[a + 8 * ((n + k) - 1)] = l1[2 * k - 1]
        /\ a + 8 * ((n + k) - 1) + 4 \in DOMAIN w3
        /\ w3[a + 8 * ((n + k) - 1) + 4] = l1[2 * k]
    BY <2>1, <2>3, Zenon
  <2>5. /\ z + 4 * ((n + k) - 1) \in DOMAIN w3 /\ w3[z + 4 * ((n + k) - 1)] = l2[k]
        /\ o + 4 * ((n + k) - 1) \in DOMAIN w3 /\ w3[o + 4 * ((n + k) - 1)] = l3[k]
    BY <1>9, <2>2, <2>3, Zenon DEF InRow
  <2> QED BY <1>6, <2>4, <2>5, Zenon
<1>13. ASSUME NEW k \in 1 .. n PROVE EntryIn(w3, k) = EntryIn(ws, k)
  BY <1>1, <1>11, Zenon DEF EntryIn
<1>14. ASSUME NEW k \in 1 .. m PROVE EntryIn(w3, n + k) = list[k]
  <2>1. EntryIn(w3, n + k) = [ctts |-> list[k].ctts, stsz |-> list[k].stsz, stco |-> list[k].stco]
    BY <1>1, <1>12, Zenon DEF EntryIn
  <2>2. list[k] \in MuxEntry
    BY <1>1, ElementOfSeq
  <2> QED BY <2>1, <2>2 DEF MuxEntry
<1>15. IndexIn(w3, n + m)
  <2>1. ASSUME NEW k \in 1 .. n + m
        PROVE  /\ a + 8 * (k - 1) \in DOMAIN w3 /\ w3[a + 8 * (k - 1)] = 1
               /\ a + 8 * (k - 1) + 4 \in DOMAIN w3
               /\ z + 4 * (k - 1) \in DOMAIN w3 /\ o + 4 * (k - 1) \in DOMAIN w3
    <3>1. CASE k \in 1 .. n
      BY <1>11, <3>1, Zenon
    <3>2. CASE k > n
      <4>1. k - n \in 1 .. m /\ n + (k - n) = k
        BY <1>2, <3>2
      <4> QED BY <1>12, <4>1, Zenon
    <3> QED BY <1>2, <3>1, <3>2
  <2> QED BY <1>1, <2>1, Zenon DEF IndexIn
<1> QED BY <1>1, <1>5, <1>13, <1>14, <1>15, Zenon

\* The SPS and PPS go in front of the index.
LEMMA WriteSpsPpsPlaces ==
  ASSUME video \in Proper, NEW ws, NEW n \in Nat, IndexIn(ws, n),
         SpsPps_pos \in Nat, SpsPps_pos + 140 <= fpos.ctts
  PROVE  /\ IndexIn(WriteSpsPps(ws), n)
         /\ \A k \in 1 .. n : EntryIn(WriteSpsPps(ws), k) = EntryIn(ws, k)
<1>1. PICK a, z, o, c, w : /\ a = fpos.ctts /\ z = fpos.stsz /\ o = fpos.stco
                           /\ c = video.frame_cnt /\ w = WriteSpsPps(ws)
  OBVIOUS
<1>2. a \in Nat /\ c \in Nat /\ z = a + 8 * c + 16 /\ o = a + 12 * c + 32
  <2>1. a \in Nat /\ z = a + 8 * c + 16 /\ o = a + 12 * c + 32
    <3>1. 0 <= video.frame_cnt /\ 0 <= MaxIdrPacketCnt + 1
      BY RecordingFacts, MaxIdrFact
    <3> QED BY <1>1, <3>1, RoomLayout
  <2> QED BY <1>1, <2>1, RecordingFacts
<1>3. ASSUME NEW p \in DOMAIN ws, p \in Int, p >= a PROVE p \in DOMAIN w /\ w[p] = ws[p]
  <2>1. w = [q \in {q \in DOMAIN ws : q + 4 <= SpsPps_pos \/ q >= SpsPps_pos + 140} |-> ws[q]]
    BY <1>1 DEF WriteSpsPps
  <2>2. p >= SpsPps_pos + 140
    BY <1>1, <1>2, <1>3
  <2>3. p \in {q \in DOMAIN ws : q + 4 <= SpsPps_pos \/ q >= SpsPps_pos + 140}
    BY <1>3, <2>2, Zenon
  <2> QED BY <2>1, <2>3, Zenon
<1>4. ASSUME NEW k \in 1 .. n
      PROVE  /\ a + 8 * (k - 1) \in DOMAIN w /\ w[a + 8 * (k - 1)] = 1
             /\ a + 8 * (k - 1) + 4 \in DOMAIN w
             /\ w[a + 8 * (k - 1) + 4] = ws[a + 8 * (k - 1) + 4]
             /\ z + 4 * (k - 1) \in DOMAIN w /\ w[z + 4 * (k - 1)] = ws[z + 4 * (k - 1)]
             /\ o + 4 * (k - 1) \in DOMAIN w /\ w[o + 4 * (k - 1)] = ws[o + 4 * (k - 1)]
  <2>1. /\ a + 8 * (k - 1) \in DOMAIN ws /\ ws[a + 8 * (k - 1)] = 1
        /\ a + 8 * (k - 1) + 4 \in DOMAIN ws
        /\ z + 4 * (k - 1) \in DOMAIN ws /\ o + 4 * (k - 1) \in DOMAIN ws
    BY <1>1, Zenon DEF IndexIn
  <2>2. /\ a + 8 * (k - 1) \in Int /\ a + 8 * (k - 1) >= a
        /\ a + 8 * (k - 1) + 4 \in Int /\ a + 8 * (k - 1) + 4 >= a
        /\ z + 4 * (k - 1) \in Int /\ z + 4 * (k - 1) >= a
        /\ o + 4 * (k - 1) \in Int /\ o + 4 * (k - 1) >= a
    BY <1>2
  <2> QED BY <1>3, <2>1, <2>2, Zenon
<1> QED BY <1>1, <1>4, Zenon DEF IndexIn, EntryIn

\* A word that lies at or above the place in the box it goes to is read before it is
\* overwritten, in pieces of any size.
LEMMA ReadBackFinds ==
  ASSUME NEW ws, NEW at \in Int, NEW to \in Int, to <= at, NEW piece \in Nat \ {0}, NEW n \in Nat,
         NEW i \in 1 .. n, at + 4 * (i - 1) \in DOMAIN ws
  PROVE  ReadBack(ws, at, to, piece, n)[i] = ws[at + 4 * (i - 1)]
<1>1. PICK d : d = (i - 1) \div piece
  OBVIOUS
<1>2. d \in Nat /\ piece * d <= i - 1
  BY <1>1
<1>3. 4 * piece * d = 4 * (piece * d)
  BY <1>2
<1>4. at + 4 * (i - 1) >= to + 4 * piece * d
  <2>1. PICK x : x = piece * d
    OBVIOUS
  <2>2. x \in Int /\ x <= i - 1
    BY <1>2, <2>1
  <2> QED BY <1>3, <2>1, <2>2
<1> QED BY <1>1, <1>4 DEF ReadBack

\* So a table is read whole, whatever the pieces.
ReadWhole(ws, at, to, piece, n) ==
  \A i \in 1 .. n :
    at + 4 * (i - 1) \in DOMAIN ws => ReadBack(ws, at, to, piece, n)[i] = ws[at + 4 * (i - 1)]

LEMMA TableReadBack ==
  ASSUME NEW ws, NEW at \in Int, NEW to \in Int, to <= at, NEW piece \in Nat \ {0}, NEW n \in Nat
  PROVE  ReadWhole(ws, at, to, piece, n)
<1>1. ASSUME NEW i \in 1 .. n, at + 4 * (i - 1) \in DOMAIN ws
      PROVE  ReadBack(ws, at, to, piece, n)[i] = ws[at + 4 * (i - 1)]
  BY <1>1, ReadBackFinds
<1> QED BY <1>1, Zenon DEF ReadWhole

-----------------------------------------------------------------------------
(* The inductive invariant. *)

MuxTypes ==
  /\ video \in Proper /\ muxer \in {"frames", "done"}
  /\ frame_no \in 0 .. Len(video.frames)
  /\ VPacketCnt \in 0 .. frame_no /\ IdrPacketCnt \in Nat /\ curPos \in Nat

\* The pictures are the frames from the first IDR frame on.
PicturesStarted ==
  IF VPacketCnt = 0 THEN frame_no <= Leading(video)
                    ELSE frame_no = Leading(video) + VPacketCnt

\* So many of the numbers of the SyncSampleBox are up to the last picture.
IdrCounted ==
  IF VPacketCnt = 0 THEN IdrPacketCnt = 0
  ELSE /\ IdrPacketCnt > 0
       /\ SyncSample(video, IdrPacketCnt) <= VPacketCnt
       /\ VPacketCnt < SyncSample(video, IdrPacketCnt + 1)

\* The SPS and PPS are those of every frame that has some, and clear of the index.
SetsSame ==
  /\ spsPps \in [size : 0 .. 128, skip : Nat]
  /\ spsPps.size # 0 =>
       \A i \in 1 .. Len(video.frames) :
         video.frames[i].sets # <<>> => SetsSize(video.frames[i]) = spsPps.skip
SetsKnown == SetsSame /\ SpsPps_pos \in Nat /\ SpsPps_pos + 140 <= fpos.ctts

Written == VPacketCnt - Len(idx)
EntryAt(k) == IF k <= Written THEN EntryIn(words, k) ELSE idx[k - Written]
EndOf(k) == IF k = 0 THEN MediaData + 8 ELSE EntryAt(k).stco + EntryAt(k).stsz

IndexKept ==
  /\ idx \in Seq(MuxEntry) /\ Len(idx) < IDX_SIZE /\ Written \in Nat
  /\ IndexIn(words, Written)

\* The index tells the pictures, one behind the other, up to where the next one goes.
IndexRight ==
  /\ \A k \in 1 .. VPacketCnt :
       EntryAt(k) = [ctts |-> k, stsz |-> Sample(video.frames[Leading(video) + k]),
                     stco |-> EndOf(k - 1)]
  /\ curPos = EndOf(VPacketCnt)

Muxing == PicturesStarted /\ IdrCounted /\ SetsKnown /\ IndexKept /\ IndexRight
            /\ cur_fpos = PlacesAt(Written)
MuxInv == /\ MuxTypes /\ SetsKnown /\ idx \in Seq(MuxEntry) /\ Len(idx) < IDX_SIZE
          /\ DOMAIN cur_fpos = {"ctts", "stsz", "stco"}
          /\ muxer = "frames" => Muxing
          /\ Mp4FileSound

LEMMA VideoSame ==
  ASSUME video' = video
  PROVE  /\ fpos' = fpos /\ MediaData' = MediaData /\ Leading(video)' = Leading(video)
         /\ \A i : SyncSample(video, i)' = SyncSample(video, i)
         /\ \A n : PlacesAt(n)' = PlacesAt(n)
BY DEF fpos, MediaData, FreeSpaceSize, FileHeader_MAXSIZE, MovieBox_SIZE, VideoTrackBox_SIZE,
       VideoMediaBox_SIZE, VideoMediaInformationBox_SIZE, VideoSampleTableBox_SIZE,
       CompositionTimeToSampleBox_SIZE, EmptyFreeSpaceBox_SIZE, FileTypeBox_SIZE,
       MaxIdrPacketCnt, Leading, LeadBy, SyncSample, PlacesAt

LEMMA MuxInitInv == video \in Proper /\ MuxInit => MuxInv
<1> SUFFICES ASSUME NEW file \in Proper, MuxStart(file, "frames")
             PROVE  MuxInv
  BY Zenon DEF MuxInit, MuxStart
<1>1. /\ muxer = "frames" /\ video = file /\ frame_no = 0
      /\ curPos = MediaData + 8 /\ VPacketCnt = 0 /\ IdrPacketCnt = 0
      /\ spsPps = [size |-> 0, skip |-> 0]
      /\ SpsPps_pos = FileTypeBox_SIZE + MovieBox_SIZE(0, 0, 0) + 8
      /\ idx = <<>> /\ cur_fpos = fpos
  BY DEF MuxStart
<1>2. /\ MediaData \in Nat /\ fpos.ctts \in Nat
      /\ SpsPps_pos \in Nat /\ SpsPps_pos + 140 <= fpos.ctts
  <2>1. 0 <= video.frame_cnt /\ 0 <= MaxIdrPacketCnt + 1
    BY <1>1, RecordingFacts, MaxIdrFact
  <2> QED BY <1>1, <2>1, RoomLayout
<1>3. MuxTypes
  <2>1. 0 \in 0 .. Len(video.frames)
    BY <1>1, RecordingFacts
  <2> QED BY <1>1, <1>2, <2>1 DEF MuxTypes
<1>4. idx \in Seq(MuxEntry) /\ Len(idx) = 0 /\ Len(idx) < IDX_SIZE
  BY <1>1, EmptySeq, MuxAssumption
<1>5. SetsKnown
  BY <1>1, <1>2 DEF SetsKnown, SetsSame
<1>6. fpos.stsz \in Nat /\ fpos.stco \in Nat
  <2>1. 0 <= video.frame_cnt /\ 0 <= MaxIdrPacketCnt + 1
    BY <1>1, RecordingFacts, MaxIdrFact
  <2>2. /\ fpos.stsz = fpos.ctts + 8 * video.frame_cnt + 16
        /\ fpos.stco = fpos.ctts + 12 * video.frame_cnt + 32
    BY <1>1, <2>1, RoomLayout
  <2> QED BY <1>1, <1>2, <2>2, RecordingFacts, SMTT(60)
<1>7. cur_fpos = PlacesAt(0) /\ DOMAIN cur_fpos = {"ctts", "stsz", "stco"}
  <2>1. fpos = [ctts |-> fpos.ctts, stsz |-> fpos.stsz, stco |-> fpos.stco]
    BY DEF fpos
  <2>2. PlacesAt(0) = [ctts |-> fpos.ctts, stsz |-> fpos.stsz, stco |-> fpos.stco]
    BY <1>2, <1>6 DEF PlacesAt
  <2> QED BY <1>1, <2>1, <2>2
<1>8. PicturesStarted /\ IdrCounted
  BY <1>1, LeadingFacts DEF PicturesStarted, IdrCounted
<1>9. Written = 0
  <2>1. VPacketCnt = 0 /\ Len(idx) = 0
    BY <1>1, <1>4, Zenon
  <2> QED BY <2>1 DEF Written
<1>10. IndexKept /\ IndexRight
  <2>1. \A k \in 1 .. 0 : FALSE
    OBVIOUS
  <2>2. IndexKept
    BY <1>4, <1>9, <2>1 DEF IndexKept, IndexIn
  <2>3. IndexRight
    BY <1>1, <2>1, Zenon DEF IndexRight, EndOf
  <2> QED BY <2>2, <2>3
<1> QED
  <2>1. Muxing
    BY <1>5, <1>7, <1>8, <1>9, <1>10, Zenon DEF Muxing
  <2>2. Mp4FileSound
    BY <1>1 DEF Mp4FileSound
  <2> QED BY <1>1, <1>3, <1>4, <1>5, <1>7, <2>1, <2>2, Zenon DEF MuxInv

\* These parts do not depend on how many frames were read.
LEMMA MuxingSame ==
  ASSUME UNCHANGED <<video, curPos, VPacketCnt, IdrPacketCnt, spsPps, SpsPps_pos, idx,
                     cur_fpos, words>>
  PROVE  /\ IdrCounted => IdrCounted'
         /\ SetsKnown => SetsKnown'
         /\ IndexKept => IndexKept'
         /\ IndexRight => IndexRight'
         /\ cur_fpos = PlacesAt(Written) => cur_fpos' = PlacesAt(Written)'
<1>1. /\ video' = video /\ curPos' = curPos /\ VPacketCnt' = VPacketCnt
      /\ IdrPacketCnt' = IdrPacketCnt /\ spsPps' = spsPps /\ SpsPps_pos' = SpsPps_pos
      /\ idx' = idx /\ cur_fpos' = cur_fpos /\ words' = words
  OBVIOUS
<1>2. \A k : EntryIn(words, k)' = EntryIn(words, k)
  BY <1>1, VideoSame, Zenon DEF EntryIn
<1>3. Written' = Written
  BY <1>1, Zenon DEF Written
<1>4. \A k : EntryAt(k)' = EntryAt(k)
  BY <1>1, <1>2, <1>3, Zenon DEF EntryAt
<1>5. \A k : EndOf(k)' = EndOf(k)
  BY <1>1, <1>4, VideoSame, Zenon DEF EndOf
<1>6. IndexRight => IndexRight'
  BY <1>1, <1>4, <1>5, VideoSame, Zenon DEF IndexRight
<1>7. IndexKept => IndexKept'
  BY <1>1, <1>3, VideoSame, Zenon DEF IndexKept, IndexIn
<1>8. (IdrCounted => IdrCounted') /\ (SetsKnown => SetsKnown')
  BY <1>1, VideoSame, Zenon DEF IdrCounted, SetsKnown, SetsSame
<1>9. cur_fpos = PlacesAt(Written) => cur_fpos' = PlacesAt(Written)'
  BY <1>1, <1>3, VideoSame, Zenon DEF PlacesAt
<1> QED BY <1>6, <1>7, <1>8, <1>9

LEMMA SkipKeeps == ASSUME MuxInv, SkipFrame PROVE MuxInv'
<1>1. /\ muxer = "frames" /\ frame_no < Len(video.frames) /\ VPacketCnt = 0
      /\ video.frames[frame_no + 1].pic_type # IDR /\ frame_no' = frame_no + 1
      /\ UNCHANGED <<muxer, video, curPos, VPacketCnt, IdrPacketCnt, spsPps, SpsPps_pos, idx,
                     cur_fpos, words, tables>>
  BY DEF SkipFrame
<1>2. MuxTypes /\ Muxing
  BY <1>1 DEF MuxInv
<1>3. MuxTypes'
  <2>1. frame_no \in Nat /\ Len(video.frames) \in Nat
    BY <1>2, RecordingFacts DEF MuxTypes
  <2>2. frame_no + 1 \in 0 .. Len(video.frames) /\ 0 \in 0 .. frame_no + 1
    BY <1>1, <2>1
  <2> QED BY <1>1, <1>2, <2>2 DEF MuxTypes
<1>4. PicturesStarted'
  <2>1. /\ frame_no <= Leading(video) /\ Leading(video) \in 0 .. Len(video.frames)
        /\ LeadBy(video, Leading(video)) /\ frame_no \in Nat /\ Len(video.frames) \in Nat
    BY <1>1, <1>2, LeadingFacts, RecordingFacts DEF Muxing, MuxTypes, PicturesStarted
  <2>2. frame_no # Leading(video)
    BY <1>1, <2>1 DEF LeadBy
  <2>3. frame_no + 1 <= Leading(video)
    BY <2>1, <2>2
  <2> QED BY <1>1, <2>3, VideoSame DEF PicturesStarted
<1>5. /\ IdrCounted' /\ SetsKnown' /\ IndexKept' /\ IndexRight' /\ cur_fpos' = PlacesAt(Written)'
  BY <1>1, <1>2, MuxingSame DEF Muxing
<1> QED
  BY <1>1, <1>3, <1>4, <1>5 DEF MuxInv, Muxing, Mp4FileSound

\* Two units without their start codes, padded.
LEMMA UnitsFit == \A p, q \in 1 .. 64 : p + q \in 0 .. 128
OBVIOUS

\* GetSpsPps: what it returns is the length of the frame's own SPS and PPS.
LEMMA GetSpsPpsRight ==
  ASSUME video \in Videos, SetsSame, NEW n \in 1 .. Len(video.frames),
         NEW f, f = video.frames[n], NEW sets, sets = GetSpsPps(f)
  PROVE  /\ sets \in [size : 0 .. 128, skip : Nat]
         /\ f.sets # <<>> => sets.skip = SetsSize(f)
         /\ sets.size # 0 =>
              \A i \in 1 .. Len(video.frames) :
                video.frames[i].sets # <<>> => SetsSize(video.frames[i]) = sets.skip
<1>1. f \in MuxFrame
  BY VideoFacts
<1>2. CASE f.sets = <<>> \/ spsPps.size # 0
  <2>1. sets = spsPps
    BY <1>2 DEF GetSpsPps
  <2> QED BY <1>2, <2>1 DEF SetsSame
<1>3. CASE f.sets # <<>> /\ ~ spsPps.size # 0
  <2>1. f.sets[1] \in 5 .. 65 /\ f.sets[2] \in 5 .. 65
    BY <1>1, <1>3 DEF MuxFrame
  <2>2. PICK x, y : x = f.sets[1] /\ y = f.sets[2]
    OBVIOUS
  <2>3. sets = [size |-> Padded(x - 4) + Padded(y - 4), skip |-> x + y]
    BY <1>3, <2>2 DEF GetSpsPps
  <2>4. Padded(x - 4) \in 1 .. 64 /\ Padded(y - 4) \in 1 .. 64 /\ x + y \in Nat
    <3>1. x \in 5 .. 65 /\ y \in 5 .. 65
      BY <2>1, <2>2
    <3>2. ASSUME NEW l \in 5 .. 65 PROVE ((l - 4 + 3) \div 4) * 4 \in 1 .. 64
      OBVIOUS
    <3> QED BY <3>1, <3>2 DEF Padded
  <2>5. sets.size \in 0 .. 128 /\ sets.skip \in Nat /\ sets.skip = x + y
    <3>1. sets.size = Padded(x - 4) + Padded(y - 4) /\ sets.skip = x + y
      BY <2>3
    <3> QED BY <2>4, <3>1, UnitsFit, Zenon
  <2>6. SetsSize(f) = x + y
    BY <1>3, <2>2 DEF SetsSize
  <2>7. ASSUME NEW i \in 1 .. Len(video.frames), video.frames[i].sets # <<>>
        PROVE  SetsSize(video.frames[i]) = x + y
    <3>1. DOMAIN video.frames = 1 .. Len(video.frames)
      BY VideoFacts, LenProperties
    <3>2. <<>> \notin {video.frames[i].sets, video.frames[n].sets}
      BY <1>3, <2>7
    <3>3. video.frames[i].sets = video.frames[n].sets
      BY <3>1, <3>2, MuxAssumption
    <3> QED BY <2>6, <2>7, <3>3 DEF SetsSize
  <2> QED BY <2>3, <2>5, <2>6, <2>7
<1> QED BY <1>2, <1>3

\* A frame is put without its access unit delimiter, SPS and PPS, behind a delimiter of
\* six bytes, and the buffer has all of it.
LEMMA FramePut ==
  ASSUME NEW f \in MuxFrame, NEW len1, len1 = f.au + SetsSize(f),
         NEW size1, size1 = FrameSize(f) - len1 + 6
  PROVE  /\ size1 = Sample(f) /\ Sample(f) = 6 + f.sei + f.slice
         /\ f.sei \in Nat /\ f.slice \in Nat
         /\ PutNal(f, len1 + f.sei, size1 - 6 - f.sei) = f.slice
<1>1. PICK u, t, e, c : u = f.au /\ t = SetsSize(f) /\ e = f.sei /\ c = f.slice
  OBVIOUS
<1>2. u \in Nat /\ e \in Nat /\ c \in Nat /\ c > 4
  BY <1>1 DEF MuxFrame
<1>3. t \in Nat
  <2>1. CASE f.sets = <<>>
    BY <1>1, <2>1 DEF SetsSize
  <2>2. CASE f.sets # <<>>
    <3>1. f.sets[1] \in Nat /\ f.sets[2] \in Nat
      BY <2>2 DEF MuxFrame
    <3> QED BY <1>1, <2>2, <3>1 DEF SetsSize
  <2> QED BY <2>1, <2>2
<1>4. FrameSize(f) = u + t + e + c /\ len1 = u + t /\ Sample(f) = 6 + e + c
  BY <1>1 DEF FrameSize, Sample
<1>5. size1 = 6 + e + c
  BY <1>2, <1>3, <1>4
<1>6. PutNal(f, len1 + f.sei, size1 - 6 - f.sei) = c
  <2>1. size1 - 6 - f.sei = c /\ FrameSize(f) - ((len1 + f.sei) + 4) = c - 4
    BY <1>1, <1>2, <1>3, <1>4, <1>5
  <2>2. PutNal(f, len1 + f.sei, c) = 4 + (IF c - 4 <= 0 THEN 0 ELSE IF c - 4 <= c - 4 THEN c - 4 ELSE c - 4)
    BY <2>1, Zenon DEF PutNal
  <2>3. PutNal(f, len1 + f.sei, c) = c
    BY <1>2, <2>2
  <2> QED BY <2>1, <2>3
<1> QED BY <1>1, <1>2, <1>4, <1>5, <1>6

\* A picture more: the entries of the index are those there were and one behind them.
LEMMA PictureKept ==
  ASSUME MuxInv, ProcessVideoData
  PROVE  /\ frame_no + 1 \in 1 .. Len(video.frames)
         /\ VPacketCnt > 0 \/ video.frames[frame_no + 1].pic_type = IDR
         /\ curPos' = curPos + Sample(video.frames[frame_no + 1])
         /\ Sample(video.frames[frame_no + 1]) \in Nat
         /\ \A k \in 1 .. VPacketCnt : EntryAt(k)' = EntryAt(k)
         /\ \A k : k = VPacketCnt + 1 =>
              EntryAt(k)' = [ctts |-> k, stsz |-> Sample(video.frames[frame_no + 1]),
                             stco |-> curPos]
         /\ IndexKept' /\ cur_fpos' = PlacesAt(Written)' /\ SetsKnown'
<1>1. /\ muxer = "frames" /\ frame_no < Len(video.frames) /\ video' = video
      /\ VPacketCnt' = VPacketCnt + 1
  BY DEF ProcessVideoData
<1>2. MuxTypes /\ Muxing /\ video \in Proper
  BY <1>1 DEF MuxInv, MuxTypes
<1>3. PICK n, f : n = frame_no + 1 /\ f = video.frames[n]
  OBVIOUS
<1>4. /\ n \in 1 .. Len(video.frames) /\ f \in MuxFrame /\ Len(video.frames) \in Nat
      /\ Len(video.frames) <= video.frame_cnt /\ video.frame_cnt \in Nat
  <2>1. frame_no \in Nat /\ Len(video.frames) \in Nat
    BY <1>2, RecordingFacts DEF MuxTypes
  <2>2. n \in 1 .. Len(video.frames)
    BY <1>1, <1>3, <2>1
  <2> QED BY <1>2, <1>3, <2>2, RecordingFacts
<1>5. PICK sets : sets = GetSpsPps(f)
  OBVIOUS
<1>6. PICK len1, size1 : /\ len1 = f.au + (IF f.sets = <<>> THEN 0 ELSE sets.skip)
                         /\ size1 = FrameSize(f) - len1 + 6
  OBVIOUS
<1>7. PICK e, list, found :
        /\ e = [ctts |-> VPacketCnt + 1, stsz |-> size1, stco |-> curPos]
        /\ list = Append(idx, e)
        /\ found = IF sets = spsPps THEN words ELSE WriteSpsPps(words)
  OBVIOUS
<1>8. /\ VPacketCnt > 0 \/ f.pic_type = IDR
      /\ spsPps' = sets /\ SpsPps_pos' = (IF sets = spsPps THEN SpsPps_pos ELSE 0)
      /\ curPos' = curPos + 6 + f.sei + PutNal(f, len1 + f.sei, size1 - 6 - f.sei)
      /\ \/ /\ Len(list) >= IDX_SIZE
            /\ words' = WriteIdx(found, list) /\ cur_fpos' = Advance(Len(list)) /\ idx' = <<>>
         \/ /\ ~ Len(list) >= IDX_SIZE
            /\ words' = found /\ idx' = list /\ cur_fpos' = cur_fpos
  BY <1>3, <1>5, <1>6, <1>7 DEF ProcessVideoData
<1>9. /\ sets \in [size : 0 .. 128, skip : Nat]
      /\ f.sets # <<>> => sets.skip = SetsSize(f)
      /\ sets.size # 0 =>
           \A i \in 1 .. Len(video.frames) :
             video.frames[i].sets # <<>> => SetsSize(video.frames[i]) = sets.skip
  BY <1>2, <1>3, <1>4, <1>5, GetSpsPpsRight DEF Muxing, SetsKnown, Proper
<1>10. len1 = f.au + SetsSize(f)
  BY <1>6, <1>9 DEF SetsSize
<1>11. /\ size1 = Sample(f) /\ Sample(f) = 6 + f.sei + f.slice
       /\ f.sei \in Nat /\ f.slice \in Nat
       /\ PutNal(f, len1 + f.sei, size1 - 6 - f.sei) = f.slice
  BY <1>4, <1>6, <1>10, FramePut
<1>12. curPos' = curPos + Sample(f) /\ Sample(f) \in Nat
  <2>1. curPos \in Nat
    BY <1>2 DEF MuxTypes
  <2>2. curPos' = curPos + 6 + f.sei + f.slice
    BY <1>8, <1>11, Zenon
  <2> QED BY <1>11, <2>1, <2>2
<1>13. SpsPps_pos \in Nat /\ SpsPps_pos + 140 <= fpos.ctts
  BY <1>2 DEF Muxing, SetsKnown
<1>14. SetsKnown'
  <2>1. fpos.ctts \in Nat /\ 0 + 140 <= fpos.ctts
    <3>1. 0 <= video.frame_cnt /\ 0 <= MaxIdrPacketCnt + 1
      BY <1>2, RecordingFacts, MaxIdrFact
    <3>2. fpos.ctts \in Nat
      BY <1>2, <3>1, RoomLayout
    <3> QED BY <1>13, <3>2
  <2>2. SpsPps_pos' \in Nat /\ SpsPps_pos' + 140 <= fpos.ctts
    BY <1>8, <1>13, <2>1
  <2>3. fpos' = fpos
    BY <1>1, VideoSame, Zenon
  <2>4. \A g : SetsSize(g)' = SetsSize(g)
    BY DEF SetsSize
  <2> QED BY <1>1, <1>8, <1>9, <2>2, <2>3, <2>4 DEF SetsKnown, SetsSame
<1>15. PICK w, v, m : w = Written /\ v = VPacketCnt /\ m = Len(idx)
  OBVIOUS
<1>16. /\ idx \in Seq(MuxEntry) /\ m \in Nat /\ m < IDX_SIZE /\ w \in Nat /\ v \in Nat
       /\ w = v - m /\ IndexIn(words, w) /\ cur_fpos = PlacesAt(w) /\ v + 1 <= video.frame_cnt
  <2>1. /\ idx \in Seq(MuxEntry) /\ m < IDX_SIZE /\ w \in Nat /\ IndexIn(words, w)
        /\ cur_fpos = PlacesAt(w) /\ w = v - m
    BY <1>2, <1>15, Zenon DEF Muxing, IndexKept, Written
  <2>2. m \in Nat
    BY <1>15, <2>1, LenProperties
  <2>3. v \in Nat /\ v <= frame_no /\ frame_no \in Nat
    BY <1>2, <1>4, <1>15 DEF MuxTypes
  <2> QED BY <1>3, <1>4, <2>1, <2>2, <2>3
<1>17. IndexIn(found, w) /\ \A k \in 1 .. w : EntryIn(found, k) = EntryIn(words, k)
  <2>1. CASE sets = spsPps
    BY <1>7, <1>16, <2>1, Zenon
  <2>2. CASE sets # spsPps
    BY <1>2, <1>7, <1>13, <1>16, <2>2, WriteSpsPpsPlaces
  <2> QED BY <2>1, <2>2
<1>18. /\ e \in MuxEntry /\ list \in Seq(MuxEntry) /\ Len(list) = m + 1
       /\ list[m + 1] = e /\ \A i \in 1 .. m : list[i] = idx[i]
  <2>1. curPos \in Nat
    BY <1>2 DEF MuxTypes
  <2>2. e \in MuxEntry
    BY <1>7, <1>11, <1>12, <1>15, <1>16, <2>1 DEF MuxEntry
  <2> QED BY <1>7, <1>15, <1>16, <2>2, AppendProperties
<1>19. fpos' = fpos /\ (\A ws : PlacesAt(ws)' = PlacesAt(ws)) /\ VPacketCnt' = v + 1
  BY <1>1, <1>15, VideoSame, Zenon
<1>20. \A k : EntryAt(k) = IF k <= w THEN EntryIn(words, k) ELSE idx[k - w]
  BY <1>15, Zenon DEF EntryAt
<1>21. /\ \A k : EntryIn(words, k)' = EntryIn(words', k)
       /\ \A k : IndexIn(words, k)' = IndexIn(words', k)
  BY <1>19, Zenon DEF EntryIn, IndexIn
<1>22. /\ frame_no + 1 \in 1 .. Len(video.frames)
       /\ VPacketCnt > 0 \/ video.frames[frame_no + 1].pic_type = IDR
       /\ curPos' = curPos + Sample(video.frames[frame_no + 1])
       /\ Sample(video.frames[frame_no + 1]) \in Nat
       /\ e = [ctts |-> VPacketCnt + 1, stsz |-> Sample(video.frames[frame_no + 1]),
              stco |-> curPos]
  BY <1>3, <1>4, <1>7, <1>8, <1>11, <1>12, Zenon
<1>23. CASE Len(list) >= IDX_SIZE
  <2>1. words' = WriteIdx(found, list) /\ cur_fpos' = Advance(Len(list)) /\ idx' = <<>>
    BY <1>8, <1>23
  <2>2. /\ IndexIn(words', w + (m + 1))
        /\ \A k \in 1 .. w : EntryIn(words', k) = EntryIn(found, k)
        /\ \A k \in 1 .. m + 1 : EntryIn(words', w + k) = list[k]
    <3>1. w + Len(list) <= video.frame_cnt
      BY <1>16, <1>18
    <3>2. /\ IndexIn(WriteIdx(found, list), w + Len(list))
          /\ \A k \in 1 .. w : EntryIn(WriteIdx(found, list), k) = EntryIn(found, k)
          /\ \A k \in 1 .. Len(list) : EntryIn(WriteIdx(found, list), w + k) = list[k]
      BY <1>2, <1>16, <1>17, <1>18, <3>1, WriteIdxPlaces, Zenon
    <3> QED BY <1>18, <2>1, <3>2, Zenon
  <2>3. Len(idx') = 0 /\ idx' \in Seq(MuxEntry)
    BY <2>1, EmptySeq
  <2>4. Written' = v + 1 /\ w + (m + 1) = v + 1
    <3>1. Written' = VPacketCnt' - Len(idx')
      BY Zenon DEF Written
    <3>2. (v + 1) - 0 = v + 1 /\ w + (m + 1) = v + 1
      BY <1>16
    <3> QED BY <1>19, <2>3, <3>1, <3>2, Zenon
  <2>5. IndexKept'
    <3>1. v + 1 \in Nat /\ 0 < IDX_SIZE
      BY <1>16, MuxAssumption
    <3> QED BY <1>21, <2>2, <2>3, <2>4, <3>1, Zenon DEF IndexKept
  <2>6. cur_fpos' = PlacesAt(v + 1)
    <3>1. PICK a, b, c : a = fpos.ctts /\ b = fpos.stsz /\ c = fpos.stco
      OBVIOUS
    <3>2. a \in Int /\ b \in Int /\ c \in Int
      <4>1. 0 <= video.frame_cnt /\ 0 <= MaxIdrPacketCnt + 1
        BY <1>2, RecordingFacts, MaxIdrFact
      <4>2. /\ a \in Nat /\ b = a + 8 * video.frame_cnt + 16
            /\ c = a + 12 * video.frame_cnt + 32
        BY <1>2, <3>1, <4>1, RoomLayout
      <4> QED BY <1>4, <4>2, SMTT(60)
    <3>3. cur_fpos.ctts = a + 8 * w /\ cur_fpos.stsz = b + 4 * w /\ cur_fpos.stco = c + 4 * w
      BY <1>16, <3>1 DEF PlacesAt
    <3>4. cur_fpos' = [ctts |-> (a + 8 * w) + 8 * (m + 1), stsz |-> (b + 4 * w) + 4 * (m + 1),
                       stco |-> (c + 4 * w) + 4 * (m + 1)]
      BY <1>18, <2>1, <3>3, Zenon DEF Advance
    <3>5. /\ (a + 8 * w) + 8 * (m + 1) = a + 8 * (v + 1)
          /\ (b + 4 * w) + 4 * (m + 1) = b + 4 * (v + 1)
          /\ (c + 4 * w) + 4 * (m + 1) = c + 4 * (v + 1)
      BY <1>16, <3>2
    <3> QED BY <3>1, <3>4, <3>5, Zenon DEF PlacesAt
  <2>7. \A k : k <= v + 1 => EntryAt(k)' = EntryIn(words', k)
    BY <1>21, <2>4, Zenon DEF EntryAt
  <2>8. ASSUME NEW k \in 1 .. v PROVE EntryAt(k)' = EntryAt(k)
    <3>1. CASE k <= w
      <4>1. k \in 1 .. w /\ k <= v + 1
        BY <1>16, <3>1
      <4> QED BY <1>17, <1>20, <2>2, <2>7, <3>1, <4>1, Zenon
    <3>2. CASE ~ k <= w
      <4>1. k - w \in 1 .. m /\ k - w \in 1 .. m + 1 /\ w + (k - w) = k /\ k <= v + 1
        BY <1>16, <3>2
      <4> QED BY <1>18, <1>20, <2>2, <2>7, <3>2, <4>1, Zenon
    <3> QED BY <3>1, <3>2
  <2>9. EntryAt(v + 1)' = e
    <3>1. m + 1 \in 1 .. m + 1 /\ w + (m + 1) = v + 1 /\ v + 1 <= v + 1
      BY <1>16
    <3> QED BY <1>18, <2>2, <2>7, <3>1, Zenon
  <2>10. cur_fpos' = PlacesAt(Written)'
    BY <1>19, <2>4, <2>6, Zenon DEF PlacesAt
  <2> QED
    BY <1>14, <1>15, <1>22, <2>5, <2>8, <2>9, <2>10, Zenon
<1>24. CASE ~ Len(list) >= IDX_SIZE
  <2>1. words' = found /\ idx' = list /\ cur_fpos' = cur_fpos
    BY <1>8, <1>24
  <2>2. Written' = w
    <3>1. Written' = VPacketCnt' - Len(idx')
      BY Zenon DEF Written
    <3>2. (v + 1) - (m + 1) = w
      BY <1>16
    <3> QED BY <1>18, <1>19, <2>1, <3>1, <3>2, Zenon
  <2>3. IndexKept'
    <3>1. Len(list) < IDX_SIZE
      BY <1>16, <1>18, <1>24, MuxAssumption
    <3> QED BY <1>16, <1>17, <1>18, <1>21, <2>1, <2>2, <3>1, Zenon DEF IndexKept
  <2>4. \A k : EntryAt(k)' = IF k <= w THEN EntryIn(found, k) ELSE list[k - w]
    BY <1>21, <2>1, <2>2, Zenon DEF EntryAt
  <2>5. ASSUME NEW k \in 1 .. v PROVE EntryAt(k)' = EntryAt(k)
    <3>1. CASE k <= w
      <4>1. k \in 1 .. w
        BY <1>16, <3>1
      <4> QED BY <1>17, <1>20, <2>4, <3>1, <4>1, Zenon
    <3>2. CASE ~ k <= w
      <4>1. k - w \in 1 .. m
        BY <1>16, <3>2
      <4> QED BY <1>18, <1>20, <2>4, <3>2, <4>1, Zenon
    <3> QED BY <3>1, <3>2
  <2>6. EntryAt(v + 1)' = e
    <3>1. ~ v + 1 <= w /\ (v + 1) - w = m + 1
      BY <1>16
    <3> QED BY <1>18, <2>4, <3>1, Zenon
  <2>7. cur_fpos' = PlacesAt(Written)'
    BY <1>16, <1>19, <2>1, <2>2, Zenon DEF PlacesAt
  <2> QED
    BY <1>14, <1>15, <1>22, <2>3, <2>5, <2>6, <2>7, Zenon
<1> QED BY <1>23, <1>24

LEMMA EntriesSame ==
  ASSUME video' = video, NEW v \in Nat, \A k \in 1 .. v : EntryAt(k)' = EntryAt(k)
  PROVE  \A k \in 0 .. v : EndOf(k)' = EndOf(k)
<1> SUFFICES ASSUME NEW k \in 0 .. v PROVE EndOf(k)' = EndOf(k)
  OBVIOUS
<1>1. CASE k = 0
  BY <1>1, VideoSame, Zenon DEF EndOf
<1>2. CASE k # 0
  <2>1. k \in 1 .. v
    BY <1>2
  <2> QED BY <1>2, <2>1, Zenon DEF EndOf
<1> QED BY <1>1, <1>2

LEMMA ProcessKeeps == ASSUME MuxInv, ProcessVideoData PROVE MuxInv'
<1>1. /\ muxer = "frames" /\ muxer' = "frames" /\ video' = video
      /\ VPacketCnt' = VPacketCnt + 1 /\ frame_no' = frame_no + 1
      /\ IdrPacketCnt' = IdrPacketCnt + (IF video.frames[frame_no + 1].pic_type = IDR THEN 1 ELSE 0)
  BY DEF ProcessVideoData
<1>2. MuxTypes /\ Muxing /\ video \in Proper
  BY <1>1 DEF MuxInv, MuxTypes
<1>3. PICK n, v, d, l, len : /\ n = frame_no + 1 /\ v = VPacketCnt /\ d = IdrPacketCnt
                             /\ l = Leading(video) /\ len = Len(video.frames)
  OBVIOUS
<1>4. /\ n \in 1 .. len
      /\ v > 0 \/ video.frames[n].pic_type = IDR
      /\ Sample(video.frames[n]) \in Nat /\ curPos' = curPos + Sample(video.frames[n])
      /\ \A k \in 1 .. v : EntryAt(k)' = EntryAt(k)
      /\ \A k : k = v + 1 =>
           EntryAt(k)' = [ctts |-> k, stsz |-> Sample(video.frames[n]), stco |-> curPos]
      /\ IndexKept' /\ cur_fpos' = PlacesAt(Written)' /\ SetsKnown'
  BY <1>3, PictureKept, Zenon
<1>5. /\ frame_no = n - 1 /\ len \in Nat /\ v \in Nat /\ d \in Nat /\ curPos \in Nat
      /\ v <= n - 1 /\ l \in 0 .. len
  BY <1>2, <1>3, <1>4, RecordingFacts, LeadingFacts DEF MuxTypes
<1>6. MuxTypes'
  <2>1. n \in 0 .. len /\ v + 1 \in 0 .. n /\ curPos + Sample(video.frames[n]) \in Nat
    BY <1>4, <1>5
  <2>2. d + (IF video.frames[n].pic_type = IDR THEN 1 ELSE 0) \in Nat
    BY <1>5
  <2> QED BY <1>1, <1>2, <1>3, <1>4, <2>1, <2>2, Zenon DEF MuxTypes
<1>7. n = l + (v + 1)
  <2>1. CASE v = 0
    <3>1. n - 1 <= l
      BY <1>2, <1>3, <1>5, <2>1 DEF Muxing, PicturesStarted
    <3>2. ~ n \in 1 .. l
      BY <1>2, <1>3, <1>4, <2>1, LeadingFacts DEF LeadBy
    <3> QED BY <1>4, <1>5, <2>1, <3>1, <3>2
  <2>2. CASE v # 0
    <3>1. n - 1 = l + v
      BY <1>2, <1>3, <1>5, <2>2 DEF Muxing, PicturesStarted
    <3> QED BY <1>4, <1>5, <3>1
  <2> QED BY <2>1, <2>2
<1>8. PicturesStarted'
  <2>1. VPacketCnt' = v + 1 /\ v + 1 # 0 /\ Leading(video)' = l /\ frame_no' = n
    BY <1>1, <1>3, <1>5, VideoSame
  <2> QED BY <1>7, <2>1, Zenon DEF PicturesStarted
<1>9. IndexRight'
  <2>1. \A k \in 0 .. v : EndOf(k)' = EndOf(k)
    BY <1>1, <1>4, <1>5, EntriesSame
  <2>2. /\ \A k \in 1 .. v :
             EntryAt(k) = [ctts |-> k, stsz |-> Sample(video.frames[l + k]), stco |-> EndOf(k - 1)]
        /\ curPos = EndOf(v)
    BY <1>2, <1>3, Zenon DEF Muxing, IndexRight
  <2>3. ASSUME NEW k \in 1 .. v + 1
        PROVE  EntryAt(k)' =
                 [ctts |-> k, stsz |-> Sample(video.frames[l + k]), stco |-> EndOf(k - 1)']
    <3>1. k - 1 \in 0 .. v
      BY <1>5
    <3>2. CASE k \in 1 .. v
      BY <1>4, <2>1, <2>2, <3>1, <3>2, Zenon
    <3>3. CASE k = v + 1
      <4>1. k - 1 = v
        BY <1>5, <3>3
      <4> QED BY <1>4, <1>7, <2>1, <2>2, <3>1, <3>3, <4>1, Zenon
    <3> QED BY <1>5, <3>2, <3>3
  <2>4. curPos' = EndOf(v + 1)'
    <3>1. \A k : k = v + 1 => EntryAt(k)' =
            [ctts |-> k, stsz |-> Sample(video.frames[n]), stco |-> curPos]
      BY <1>4
    <3>2. \A k : k = v + 1 => EntryAt(k)'.stco = curPos /\ EntryAt(k)'.stsz = Sample(video.frames[n])
      BY <3>1
    <3>3. v + 1 # 0
      BY <1>5
    <3> QED BY <1>4, <3>2, <3>3, Zenon DEF EndOf
  <2>5. VPacketCnt' = v + 1 /\ Leading(video)' = l
    BY <1>1, <1>3, VideoSame, Zenon
  <2>6. \A f : Sample(f)' = Sample(f)
    BY DEF Sample
  <2> QED BY <1>1, <2>3, <2>4, <2>5, <2>6, Zenon DEF IndexRight
<1>10. IdrCounted'
  <2>1. /\ VPacketCnt' = v + 1 /\ v + 1 # 0
        /\ \A i : SyncSample(video, i)' = SyncSample(video, i)
        /\ IdrPacketCnt' = d + (IF video.frames[n].pic_type = IDR THEN 1 ELSE 0)
    BY <1>1, <1>3, <1>5, VideoSame
  <2> SUFFICES \E e \in Nat \ {0} :
                 /\ IdrPacketCnt' = e
                 /\ SyncSample(video, e) <= v + 1 /\ v + 1 < SyncSample(video, e + 1)
    BY <2>1 DEF IdrCounted
  <2>2. video.frames[n].pic_type = IDR <=> \E i \in 1 .. v + 1 : v + 1 = SyncSample(video, i)
    <3>1. v + 1 \in 1 .. len - l
      BY <1>4, <1>5, <1>7
    <3> QED BY <1>2, <1>3, <1>7, <3>1, LeadingFacts
  <2>3. CASE v = 0
    <3>1. video.frames[n].pic_type = IDR /\ d = 0
      BY <1>2, <1>3, <1>4, <2>3 DEF Muxing, IdrCounted
    <3>2. SyncSample(video, 1) = 1 /\ 1 < SyncSample(video, 1 + 1)
      BY <1>2, SyncSampleNext DEF SyncSample
    <3> QED BY <2>1, <2>3, <3>1, <3>2
  <2>4. CASE v # 0
    <3>1. d \in Nat \ {0} /\ SyncSample(video, d) <= v /\ v < SyncSample(video, d + 1)
      BY <1>2, <1>3, <1>5, <2>4 DEF Muxing, IdrCounted
    <3>2. /\ SyncSample(video, d) \in Nat /\ SyncSample(video, d + 1) \in Nat
          /\ SyncSample(video, d + 1) < SyncSample(video, (d + 1) + 1)
          /\ d + 1 <= SyncSample(video, d + 1)
      <4>1. d + 1 \in Nat \ {0}
        BY <3>1
      <4> QED BY <1>2, <3>1, <4>1, SyncSampleNext
    <3>3. CASE video.frames[n].pic_type = IDR
      <4>1. PICK i \in 1 .. v + 1 : v + 1 = SyncSample(video, i)
        BY <2>2, <3>3
      <4>2. i \in Nat \ {0}
        BY <1>5
      <4>3. ~ i < d
        <5>1. SUFFICES ASSUME i < d PROVE FALSE
          OBVIOUS
        <5>2. SyncSample(video, i + 1) <= SyncSample(video, d)
          BY <1>2, <3>1, <4>2, <5>1, SyncSampleGap
        <5>3. SyncSample(video, i) < SyncSample(video, i + 1) /\ SyncSample(video, i + 1) \in Nat
          <6>1. i + 1 \in Nat \ {0}
            BY <4>2
          <6> QED BY <1>2, <4>2, <6>1, SyncSampleNext
        <5> QED BY <1>5, <3>1, <3>2, <4>1, <5>2, <5>3
      <4>4. i # d
        BY <1>5, <3>1, <4>1
      <4>5. SyncSample(video, d + 1) <= v + 1
        <5>1. d < i
          BY <3>1, <4>2, <4>3, <4>4
        <5> QED BY <1>2, <3>1, <4>1, <4>2, <5>1, SyncSampleGap
      <4>6. SyncSample(video, d + 1) = v + 1
        BY <1>5, <3>1, <3>2, <4>5
      <4>7. d + 1 \in Nat \ {0} /\ v + 1 <= v + 1
        BY <1>5, <3>1
      <4> QED BY <2>1, <3>2, <3>3, <4>6, <4>7
    <3>4. CASE video.frames[n].pic_type # IDR
      <4>1. SyncSample(video, d + 1) # v + 1
        <5>1. SUFFICES ASSUME SyncSample(video, d + 1) = v + 1 PROVE FALSE
          OBVIOUS
        <5>2. d + 1 \in 1 .. v + 1
          BY <1>5, <3>1, <3>2, <5>1
        <5> QED BY <2>2, <3>4, <5>1, <5>2
      <4>2. SyncSample(video, d) <= v + 1 /\ v + 1 < SyncSample(video, d + 1) /\ d + 0 = d
        BY <1>5, <3>1, <3>2, <4>1
      <4> QED BY <2>1, <3>1, <3>4, <4>2
    <3> QED BY <3>3, <3>4
  <2> QED BY <2>3, <2>4
<1>11. DOMAIN cur_fpos' = {"ctts", "stsz", "stco"}
  BY <1>4 DEF PlacesAt
<1>12. Mp4FileSound'
  BY <1>1 DEF Mp4FileSound
<1>13. Muxing'
  BY <1>4, <1>8, <1>9, <1>10, Zenon DEF Muxing
<1> QED BY <1>4, <1>6, <1>11, <1>12, <1>13, Zenon DEF MuxInv, IndexKept

\* What the functions put is as long as the _SIZE macros say.
LEMMA PutIsSize ==
  ASSUME NEW v \in Nat, NEW idr \in Nat, NEW s \in Nat
  PROVE  /\ PutMovieBox(v, idr, s) = MovieBox_SIZE(v, idr, s)
         /\ MovieBox_SIZE(v, idr, s) \in Nat
<1>1. SampleDependencies(v) = v
  BY DEF SampleDependencies
<1>2. Len(SyncSamples(idr)) = idr
  <2>1. PICK T : T = {SyncSample(video, i) : i \in 1 .. idr}
    OBVIOUS
  <2>2. SyncSamples(idr) \in [1 .. idr -> T]
    BY <2>1 DEF SyncSamples
  <2>3. SyncSamples(idr) \in Seq(T)
    BY <2>2, IsASeq
  <2>4. Len(SyncSamples(idr)) \in Nat /\ 1 .. Len(SyncSamples(idr)) = 1 .. idr
    BY <2>2, <2>3, LenProperties
  <2> QED BY <2>4
<1>3. PICK n : n = Len(SyncSamples(idr))
  OBVIOUS
<1> QED
  BY <1>1, <1>2
  DEF PutMovieBox, PutVideoTrackBox, PutVideoMediaBox, PutVideoMediaInformationBox, Puts,
      MovieBox_SIZE, VideoTrackBox_SIZE, VideoMediaBox_SIZE, VideoMediaInformationBox_SIZE,
      VideoSampleTableBox_SIZE, CompositionTimeToSampleBox_SIZE

LEMMA StopKeeps == ASSUME MuxInv, Stop PROVE MuxInv'
<1>1. /\ muxer = "frames" /\ frame_no = Len(video.frames) /\ muxer' = "done"
      /\ words' = WriteIdx(words, idx) /\ cur_fpos' = Advance(Len(idx))
      /\ video' = video /\ frame_no' = frame_no /\ curPos' = curPos
      /\ VPacketCnt' = VPacketCnt /\ IdrPacketCnt' = IdrPacketCnt /\ spsPps' = spsPps
      /\ SpsPps_pos' = SpsPps_pos /\ idx' = idx
  BY DEF Stop
<1>2. MuxTypes /\ Muxing /\ video \in Proper
  BY <1>1 DEF MuxInv, MuxTypes
<1>3. PICK v, d, l, s, m, c : /\ v = VPacketCnt /\ d = IdrPacketCnt /\ l = Leading(video)
                              /\ s = spsPps.size /\ m = Len(idx) /\ c = video.frame_cnt
  OBVIOUS
<1>4. /\ v \in Nat /\ d \in Nat /\ s \in 0 .. 128 /\ m \in Nat /\ c \in Nat /\ v <= c
      /\ Len(video.frames) \in Nat /\ curPos \in Nat
  <2>1. s \in 0 .. 128 /\ idx \in Seq(MuxEntry)
    BY <1>2, <1>3 DEF Muxing, SetsKnown, SetsSame, IndexKept
  <2>2. frame_no \in Nat /\ v \in 0 .. frame_no /\ d \in Nat /\ curPos \in Nat
    BY <1>2, <1>3, RecordingFacts DEF MuxTypes
  <2>3. c \in Nat /\ Len(video.frames) \in Nat /\ Len(video.frames) <= c /\ m \in Nat
    BY <1>2, <1>3, <2>1, RecordingFacts, LenProperties
  <2> QED BY <1>1, <2>1, <2>2, <2>3
<1>5. d <= MaxIdrPacketCnt + 1
  <2>1. CASE v = 0
    <3>1. d = 0
      BY <1>2, <1>3, <2>1 DEF Muxing, IdrCounted
    <3> QED BY <1>2, <3>1, MaxIdrFact
  <2>2. CASE v # 0
    <3>1. d \in Nat \ {0} /\ SyncSample(video, d) <= v
      BY <1>2, <1>3, <1>4, <2>2 DEF Muxing, IdrCounted
    <3>2. SyncSample(video, d) <= video.frame_cnt
      <4>1. SyncSample(video, d) \in Nat
        BY <1>2, <3>1, SyncSampleNext
      <4> QED BY <1>3, <1>4, <3>1, <4>1
    <3> QED BY <1>2, <3>1, <3>2, SyncSampleBound
  <2> QED BY <2>1, <2>2
<1>6. PICK a, z, o, b : /\ a = fpos.ctts /\ z = fpos.stsz /\ o = fpos.stco
                        /\ b = MovieBox_SIZE(v, d, s)
  OBVIOUS
<1>7. /\ a \in Nat /\ z = a + 8 * c + 16 /\ o = a + 12 * c + 32 /\ b \in Nat
      /\ FileTypeBox_SIZE + b <= a + 17 * v + 4 * d
      /\ FreeSpaceSize - b >= 8 /\ FreeSpaceSize = MediaData - FileTypeBox_SIZE
      /\ MediaData \in Nat
  <2>1. s \in Nat /\ s <= 128 /\ v <= video.frame_cnt
    <3>1. s \in 0 .. 128
      BY <1>4
    <3>2. v <= video.frame_cnt
      BY <1>3, <1>4, Zenon
    <3> QED BY <3>1, <3>2
  <2>2. b \in Nat
    BY <1>4, <1>6, <2>1, PutIsSize
  <2> QED BY <1>2, <1>3, <1>4, <1>5, <1>6, <2>1, <2>2, RoomLayout
<1>8. PICK stco, stsz, ctts : /\ stco = FileTypeBox_SIZE + b - (12 + v) - (16 + 4 * d) - 4 * v
                              /\ stsz = stco - 16 - 4 * v /\ ctts = stsz - 20 - 28 - 8 * v
  OBVIOUS
<1>9. /\ stco \in Int /\ stsz \in Int /\ ctts \in Int
      /\ stco <= o /\ stsz <= z /\ ctts <= a
  BY <1>4, <1>7, <1>8 DEF FileTypeBox_SIZE
<1>10. tables' = [ctts |-> ReadBack(words', a, ctts, 2 * IDX_SIZE, 2 * v),
                  stsz |-> ReadBack(words', z, stsz, IDX_SIZE, v),
                  stco |-> ReadBack(words', o, stco, IDX_SIZE, v),
                  stss |-> SyncSamples(d), free |-> FreeSpaceSize - b,
                  mdat |-> [at |-> FileTypeBox_SIZE + b + (FreeSpaceSize - b),
                            size |-> curPos - (FileTypeBox_SIZE + b + (FreeSpaceSize - b))]]
  <2>1. s \in Nat
    BY <1>4
  <2>2. PutMovieBox(v, d, s) = b
    BY <1>4, <1>6, <2>1, PutIsSize
  <2> QED BY <1>3, <1>6, <1>8, <2>2, ZenonT(60) DEF Stop
<1>11. /\ IndexIn(words', v) /\ \A k \in 1 .. v : EntryIn(words', k) = EntryAt(k)
  <2>1. /\ idx \in Seq(MuxEntry) /\ Written \in Nat /\ IndexIn(words, Written)
        /\ cur_fpos = PlacesAt(Written)
    BY <1>2, Zenon DEF Muxing, IndexKept
  <2>2. PICK w : w = Written
    OBVIOUS
  <2>3. w \in Nat /\ w + m = v /\ w + Len(idx) <= video.frame_cnt
    <3>1. w = v - m
      BY <1>3, <2>2, Zenon DEF Written
    <3> QED BY <1>3, <1>4, <2>1, <2>2, <3>1
  <2>4. /\ IndexIn(WriteIdx(words, idx), w + Len(idx))
        /\ \A k \in 1 .. w : EntryIn(WriteIdx(words, idx), k) = EntryIn(words, k)
        /\ \A k \in 1 .. Len(idx) : EntryIn(WriteIdx(words, idx), w + k) = idx[k]
    BY <1>2, <2>1, <2>2, <2>3, WriteIdxPlaces, Zenon
  <2>5. ASSUME NEW k \in 1 .. v PROVE EntryIn(words', k) = EntryAt(k)
    <3>1. CASE k <= w
      <4>1. k \in 1 .. w
        BY <2>3, <3>1
      <4> QED BY <1>1, <2>2, <2>4, <3>1, <4>1, Zenon DEF EntryAt
    <3>2. CASE ~ k <= w
      <4>1. k - w \in 1 .. m /\ w + (k - w) = k
        BY <1>4, <2>3, <3>2
      <4> QED BY <1>1, <1>3, <2>2, <2>4, <3>2, <4>1, Zenon DEF EntryAt
    <3> QED BY <3>1, <3>2
  <2> QED BY <1>1, <1>3, <2>3, <2>4, <2>5, Zenon
<1>12. ASSUME NEW k \in 1 .. v
       PROVE  /\ tables'.stsz[k] = EntryAt(k).stsz /\ tables'.stco[k] = EntryAt(k).stco
              /\ tables'.ctts[2 * k - 1] = 1 /\ tables'.ctts[2 * k] = EntryAt(k).ctts
  <2>1. /\ a + 8 * (k - 1) \in DOMAIN words' /\ words'[a + 8 * (k - 1)] = 1
        /\ a + 8 * (k - 1) + 4 \in DOMAIN words'
        /\ z + 4 * (k - 1) \in DOMAIN words' /\ o + 4 * (k - 1) \in DOMAIN words'
    BY <1>6, <1>11, Zenon DEF IndexIn
  <2>2. EntryAt(k) = [ctts |-> words'[a + 8 * (k - 1) + 4], stsz |-> words'[z + 4 * (k - 1)],
                      stco |-> words'[o + 4 * (k - 1)]]
    BY <1>6, <1>11, Zenon DEF EntryIn
  <2>3. /\ IDX_SIZE \in Nat \ {0} /\ 2 * IDX_SIZE \in Nat \ {0} /\ 2 * v \in Nat
        /\ z \in Int /\ o \in Int /\ a \in Int
    BY <1>4, <1>7, MuxAssumption
  <2>4. ReadBack(words', z, stsz, IDX_SIZE, v)[k] = words'[z + 4 * (k - 1)]
    <3>1. ReadWhole(words', z, stsz, IDX_SIZE, v)
      BY <1>4, <1>9, <2>3, TableReadBack, Zenon
    <3> QED BY <2>1, <3>1, Zenon DEF ReadWhole
  <2>5. ReadBack(words', o, stco, IDX_SIZE, v)[k] = words'[o + 4 * (k - 1)]
    <3>1. ReadWhole(words', o, stco, IDX_SIZE, v)
      BY <1>4, <1>9, <2>3, TableReadBack, Zenon
    <3> QED BY <2>1, <3>1, Zenon DEF ReadWhole
  <2>6. ReadWhole(words', a, ctts, 2 * IDX_SIZE, 2 * v)
    BY <1>9, <2>3, TableReadBack, Zenon
  <2>7. ReadBack(words', a, ctts, 2 * IDX_SIZE, 2 * v)[2 * k - 1] = words'[a + 8 * (k - 1)]
    <3>1. 2 * k - 1 \in 1 .. 2 * v /\ a + 4 * ((2 * k - 1) - 1) = a + 8 * (k - 1)
      BY <1>4, <1>7
    <3>2. a + 4 * ((2 * k - 1) - 1) \in DOMAIN words'
      BY <2>1, <3>1, Zenon
    <3>3. ReadBack(words', a, ctts, 2 * IDX_SIZE, 2 * v)[2 * k - 1]
            = words'[a + 4 * ((2 * k - 1) - 1)]
      BY <2>6, <3>1, <3>2, Zenon DEF ReadWhole
    <3> QED BY <3>1, <3>3, Zenon
  <2>8. ReadBack(words', a, ctts, 2 * IDX_SIZE, 2 * v)[2 * k] = words'[a + 8 * (k - 1) + 4]
    <3>1. 2 * k \in 1 .. 2 * v /\ a + 4 * (2 * k - 1) = a + 8 * (k - 1) + 4
      BY <1>4, <1>7
    <3>2. a + 4 * (2 * k - 1) \in DOMAIN words'
      BY <2>1, <3>1, Zenon
    <3>3. ReadBack(words', a, ctts, 2 * IDX_SIZE, 2 * v)[2 * k] = words'[a + 4 * (2 * k - 1)]
      BY <2>6, <3>1, <3>2, Zenon DEF ReadWhole
    <3> QED BY <3>1, <3>3, Zenon
  <2>9. /\ tables'.stsz = ReadBack(words', z, stsz, IDX_SIZE, v)
        /\ tables'.stco = ReadBack(words', o, stco, IDX_SIZE, v)
        /\ tables'.ctts = ReadBack(words', a, ctts, 2 * IDX_SIZE, 2 * v)
    BY <1>10
  <2>10. /\ EntryAt(k).ctts = words'[a + 8 * (k - 1) + 4]
        /\ EntryAt(k).stsz = words'[z + 4 * (k - 1)] /\ EntryAt(k).stco = words'[o + 4 * (k - 1)]
    BY <2>2
  <2> QED BY <2>1, <2>4, <2>5, <2>7, <2>8, <2>9, <2>10, Zenon
<1>13. Len(video.frames) - l = v /\ l \in Nat
  <2>1. l \in 0 .. Len(video.frames)
    BY <1>2, <1>3, LeadingFacts
  <2>2. CASE v = 0
    <3>1. Len(video.frames) <= l
      BY <1>1, <1>2, <1>3, <2>2 DEF Muxing, PicturesStarted
    <3> QED BY <1>4, <2>1, <2>2, <3>1
  <2>3. CASE v # 0
    <3>1. Len(video.frames) = l + v
      BY <1>1, <1>2, <1>3, <2>3 DEF Muxing, PicturesStarted
    <3> QED BY <1>4, <2>1, <3>1
  <2> QED BY <2>2, <2>3
<1>14. /\ \A k \in 1 .. v :
            EntryAt(k) = [ctts |-> k, stsz |-> Sample(video.frames[l + k]), stco |-> EndOf(k - 1)]
       /\ curPos = EndOf(v)
  BY <1>2, <1>3, Zenon DEF Muxing, IndexRight
<1>15. \A k \in 0 .. v :
         EndOf(k) = IF k = 0 THEN MediaData + 8
                    ELSE tables'.stco[k] + Sample(video.frames[l + k])
  <2> SUFFICES ASSUME NEW k \in 0 .. v, k # 0
               PROVE  EndOf(k) = tables'.stco[k] + Sample(video.frames[l + k])
    BY DEF EndOf
  <2>1. k \in 1 .. v
    OBVIOUS
  <2>2. EntryAt(k).stsz = Sample(video.frames[l + k])
    <3>1. EntryAt(k) =
            [ctts |-> k, stsz |-> Sample(video.frames[l + k]), stco |-> EndOf(k - 1)]
      BY <1>14, <2>1
    <3> QED BY <3>1
  <2> QED BY <1>12, <2>1, <2>2, Zenon DEF EndOf
<1>16. PICK t : t = tables'
  OBVIOUS
<1>17. /\ DOMAIN t.stsz = 1 .. v /\ DOMAIN t.stco = 1 .. v /\ t.stss = SyncSamples(d)
       /\ t.free = FreeSpaceSize - b
       /\ t.mdat = [at |-> FileTypeBox_SIZE + b + (FreeSpaceSize - b),
                    size |-> curPos - (FileTypeBox_SIZE + b + (FreeSpaceSize - b))]
  BY <1>10, <1>16 DEF ReadBack
<1>18. DOMAIN t.stss = 1 .. d /\ \A i \in 1 .. d : t.stss[i] = SyncSample(video, i)
  BY <1>17 DEF SyncSamples
<1>19. ASSUME NEW k \in 1 .. v
       PROVE  video.frames[l + k].pic_type = IDR <=> \E i \in 1 .. d : t.stss[i] = k
  <2>1. v # 0 /\ d \in Nat \ {0} /\ SyncSample(video, d) <= v /\ v < SyncSample(video, d + 1)
    <3>1. v # 0
      BY <1>4
    <3> QED BY <1>2, <1>3, <1>4, <3>1 DEF Muxing, IdrCounted
  <2>2. video.frames[l + k].pic_type = IDR <=> \E i \in 1 .. k : k = SyncSample(video, i)
    BY <1>2, <1>3, <1>13, LeadingFacts
  <2>3. ASSUME NEW i \in 1 .. k, k = SyncSample(video, i) PROVE i \in 1 .. d
    <3>1. i \in Nat \ {0} /\ k \in Nat /\ k <= v
      BY <1>4
    <3>2. ~ d < i
      <4>1. SUFFICES ASSUME d < i PROVE FALSE
        OBVIOUS
      <4>2. SyncSample(video, d + 1) <= SyncSample(video, i)
        BY <1>2, <2>1, <3>1, <4>1, SyncSampleGap
      <4>3. SyncSample(video, d + 1) \in Nat
        <5>1. d + 1 \in Nat \ {0}
          BY <2>1
        <5> QED BY <1>2, <5>1, SyncSampleNext
      <4> QED BY <1>4, <2>1, <2>3, <3>1, <4>2, <4>3
    <3> QED BY <2>1, <3>1, <3>2
  <2>4. ASSUME NEW i \in 1 .. d, k = SyncSample(video, i) PROVE i \in 1 .. k
    <3>1. i \in Nat \ {0}
      BY <2>1
    <3>2. i <= SyncSample(video, i)
      BY <1>2, <3>1, SyncSampleNext
    <3> QED BY <1>4, <2>4, <3>1, <3>2
  <2> QED BY <1>18, <2>2, <2>3, <2>4, Zenon
<1>20. ASSUME NEW i \in 1 .. d PROVE t.stss[i] \in 1 .. v
  <2>1. v # 0 /\ d \in Nat \ {0} /\ SyncSample(video, d) <= v
    <3>1. v # 0
      BY <1>2, <1>3, <1>4 DEF Muxing, IdrCounted
    <3> QED BY <1>2, <1>3, <1>4, <3>1 DEF Muxing, IdrCounted
  <2>2. i \in Nat \ {0} /\ SyncSample(video, i) \in Nat \ {0}
    <3>1. i \in Nat \ {0}
      BY <2>1
    <3> QED BY <1>2, <3>1, SyncSampleNext
  <2>3. SyncSample(video, i) <= v
    <3>1. CASE i = d
      BY <2>1, <3>1
    <3>2. CASE i < d
      <4>1. SyncSample(video, i + 1) <= SyncSample(video, d)
        BY <1>2, <2>1, <2>2, <3>2, SyncSampleGap
      <4>2. SyncSample(video, i) < SyncSample(video, i + 1)
        BY <1>2, <2>2, SyncSampleNext
      <4>3. SyncSample(video, i + 1) \in Nat /\ SyncSample(video, d) \in Nat
        <5>1. i + 1 \in Nat \ {0}
          BY <2>2
        <5> QED BY <1>2, <2>1, <5>1, SyncSampleNext
      <4> QED BY <1>4, <2>1, <2>2, <4>1, <4>2, <4>3
    <3> QED BY <2>1, <3>1, <3>2
  <2> QED BY <1>4, <1>18, <2>2, <2>3
<1>21. PICK pictures : pictures = Pictures
  OBVIOUS
<1>22. DOMAIN pictures = 1 .. v /\ \A k \in 1 .. v : pictures[k] = video.frames[l + k]
  BY <1>3, <1>13, <1>21 DEF Pictures
<1>23. /\ video' = video /\ Leading(video)' = l /\ MediaData' = MediaData /\ tables' = t
       /\ curPos' = curPos /\ \A f : Sample(f)' = Sample(f)
       /\ Leading(video') = l
  BY <1>1, <1>3, <1>16, VideoSame DEF Sample
<1>24. /\ \A k \in 1 .. v :
            /\ t.stsz[k] = Sample(pictures[k])
            /\ t.stco[k] = (IF k - 1 = 0 THEN MediaData + 8
                            ELSE t.stco[k - 1] + Sample(pictures[k - 1]))
            /\ t.ctts[2 * k - 1] = 1 /\ t.ctts[2 * k] = k
            /\ pictures[k].pic_type = IDR <=> \E i \in DOMAIN t.stss : t.stss[i] = k
       /\ \A i \in DOMAIN t.stss : t.stss[i] \in 1 .. v
       /\ curPos = IF v = 0 THEN MediaData + 8 ELSE t.stco[v] + Sample(pictures[v])
  <2>1. ASSUME NEW k \in 0 .. v
        PROVE  EndOf(k) = IF k = 0 THEN MediaData + 8 ELSE t.stco[k] + Sample(pictures[k])
    <3>1. CASE k = 0
      BY <1>15, <3>1
    <3>2. CASE k # 0
      <4>1. k \in 1 .. v
        BY <3>2
      <4> QED BY <1>15, <1>16, <1>22, <3>2, <4>1, Zenon
    <3> QED BY <3>1, <3>2
  <2>2. ASSUME NEW k \in 1 .. v
        PROVE  /\ t.stsz[k] = Sample(pictures[k]) /\ t.stco[k] = EndOf(k - 1)
               /\ t.ctts[2 * k - 1] = 1 /\ t.ctts[2 * k] = k
    <3>1. /\ EntryAt(k).ctts = k /\ EntryAt(k).stsz = Sample(video.frames[l + k])
          /\ EntryAt(k).stco = EndOf(k - 1)
      <4>1. EntryAt(k) =
              [ctts |-> k, stsz |-> Sample(video.frames[l + k]), stco |-> EndOf(k - 1)]
        BY <1>14
      <4> QED BY <4>1
    <3> QED BY <1>12, <1>16, <1>22, <3>1, Zenon
  <2>3. \A k \in 1 .. v : k - 1 \in 0 .. v
    BY <1>4
  <2>4. v \in 0 .. v
    BY <1>4
  <2>5. curPos = IF v = 0 THEN MediaData + 8 ELSE t.stco[v] + Sample(pictures[v])
    BY <1>14, <2>1, <2>4, Zenon
  <2>6. ASSUME NEW k \in 1 .. v
        PROVE  /\ t.stsz[k] = Sample(pictures[k])
               /\ t.stco[k] = (IF k - 1 = 0 THEN MediaData + 8
                               ELSE t.stco[k - 1] + Sample(pictures[k - 1]))
               /\ t.ctts[2 * k - 1] = 1 /\ t.ctts[2 * k] = k
    BY <2>1, <2>2, <2>3, Zenon
  <2>7. ASSUME NEW k \in 1 .. v
        PROVE  pictures[k].pic_type = IDR <=> \E i \in DOMAIN t.stss : t.stss[i] = k
    BY <1>18, <1>19, <1>22, Zenon
  <2>8. \A i \in DOMAIN t.stss : t.stss[i] \in 1 .. v
    BY <1>18, <1>20, Zenon
  <2> QED BY <2>5, <2>6, <2>7, <2>8, Zenon
<1>25. SamplesFound'
  <2>1. Pictures' = pictures
    BY <1>1, <1>21, VideoSame, Zenon DEF Pictures
  <2>2. \A k : PictureEnds(k)' = IF k = 0 THEN MediaData + 8 ELSE t.stco[k] + Sample(pictures[k])
    BY <1>23, <2>1, Zenon DEF PictureEnds
  <2>3. (Len(video.frames) - Leading(video))' = v
    BY <1>13, <1>23, Zenon
  <2>4. PictureEnds(v)' = curPos
    BY <1>24, <2>2, Zenon
  <2>5. PictureEnds(Len(video.frames) - Leading(video))' = curPos
    BY <2>3, <2>4, Zenon
  <2>6. \A k \in 1 .. v : t.stco[k] = PictureEnds(k - 1)'
    BY <1>24, <2>2, Zenon
  <2>7. (\A k \in DOMAIN Pictures : tables.stco[k] = PictureEnds(k - 1))'
    BY <1>22, <1>23, <2>1, <2>6, Zenon
  <2>8. /\ (DOMAIN tables.stsz = DOMAIN Pictures /\ DOMAIN tables.stco = DOMAIN Pictures)'
        /\ (\A i \in DOMAIN tables.stss : tables.stss[i] \in DOMAIN Pictures)'
        /\ (\A k \in DOMAIN Pictures : /\ tables.stsz[k] = Sample(Pictures[k])
                                       /\ tables.ctts[2 * k - 1] = 1 /\ tables.ctts[2 * k] = k)'
    BY <1>17, <1>22, <1>23, <1>24, <2>1, Zenon
  <2>9. (\A k \in DOMAIN Pictures :
           Pictures[k].pic_type = IDR <=> \E i \in DOMAIN tables.stss : tables.stss[i] = k)'
    BY <1>17, <1>22, <1>23, <1>24, <2>1, Zenon
  <2> QED BY <1>23, <2>5, <2>7, <2>8, <2>9, Zenon DEF SamplesFound
<1>26. BoxesTile'
  <2>1. /\ PutMovieBox(VPacketCnt, IdrPacketCnt, spsPps.size)'
             = MovieBox_SIZE(VPacketCnt, IdrPacketCnt, spsPps.size)'
    <3>1. s \in Nat
      BY <1>4
    <3>2. PutMovieBox(v, d, s) = MovieBox_SIZE(v, d, s)
      BY <1>4, <3>1, PutIsSize
    <3>3. \A n : Len(SyncSamples(n))' = Len(SyncSamples(n))
      BY <1>1, VideoSame, Zenon DEF SyncSamples
    <3>4. PutMovieBox(v, d, s)' = MovieBox_SIZE(v, d, s)'
      BY <3>2, <3>3
      DEF PutMovieBox, PutVideoTrackBox, PutVideoMediaBox, PutVideoMediaInformationBox, Puts,
          MovieBox_SIZE, VideoTrackBox_SIZE, VideoMediaBox_SIZE, VideoMediaInformationBox_SIZE,
          VideoSampleTableBox_SIZE, CompositionTimeToSampleBox_SIZE, SampleDependencies
    <3>5. VPacketCnt' = v /\ IdrPacketCnt' = d /\ spsPps'.size = s
      BY <1>1, <1>3
    <3> QED BY <3>4, <3>5, Zenon
  <2>2. t.free >= 8
    BY <1>7, <1>17
  <2>3. FileTypeBox_SIZE + b + (FreeSpaceSize - b) = MediaData
    BY <1>7 DEF FileTypeBox_SIZE
  <2>4. t.mdat = [at |-> MediaData, size |-> curPos - MediaData]
    BY <1>17, <2>3, Zenon
  <2> QED BY <1>23, <2>1, <2>2, <2>4, Zenon DEF BoxesTile
<1>27. MuxTypes' /\ SetsKnown'
  <2>1. fpos' = fpos /\ \A f : SetsSize(f)' = SetsSize(f)
    BY <1>1, VideoSame DEF SetsSize
  <2>2. SetsKnown
    BY <1>2 DEF Muxing
  <2>3. MuxTypes'
    BY <1>1, <1>2, Zenon DEF MuxTypes
  <2>4. SetsKnown'
    BY <1>1, <2>1, <2>2, VideoSame, Zenon DEF SetsKnown, SetsSame
  <2> QED BY <2>3, <2>4
<1>28. /\ idx' \in Seq(MuxEntry) /\ Len(idx') < IDX_SIZE
       /\ DOMAIN cur_fpos' = {"ctts", "stsz", "stco"} /\ ~ muxer' = "frames"
  BY <1>1, <1>2 DEF Muxing, IndexKept, Advance
<1> QED BY <1>25, <1>26, <1>27, <1>28, Zenon DEF MuxInv, Mp4FileSound

LEMMA MuxInvInductive == MuxInv /\ [MuxNext]_muxVars => MuxInv'
<1>1. ASSUME MuxInv, UNCHANGED muxVars PROVE MuxInv'
  <2>1. /\ muxer' = muxer /\ video' = video /\ frame_no' = frame_no /\ curPos' = curPos
        /\ VPacketCnt' = VPacketCnt /\ IdrPacketCnt' = IdrPacketCnt /\ spsPps' = spsPps
        /\ SpsPps_pos' = SpsPps_pos /\ idx' = idx /\ cur_fpos' = cur_fpos /\ words' = words
        /\ tables' = tables
    BY <1>1 DEF muxVars
  <2>2. MuxTypes' /\ (muxer' = "frames" => PicturesStarted')
    BY <1>1, <2>1, VideoSame, Zenon DEF MuxInv, MuxTypes, Muxing, PicturesStarted
  <2>3. SetsKnown' /\ idx' \in Seq(MuxEntry) /\ Len(idx') < IDX_SIZE
    BY <1>1, <2>1, MuxingSame DEF MuxInv
  <2>4. muxer' = "frames" => Muxing'
    BY <1>1, <2>1, <2>2, MuxingSame DEF MuxInv, Muxing
  <2>5. Mp4FileSound'
    <3>1. SamplesFound => SamplesFound'
      <4>1. Pictures' = Pictures /\ (\A f : Sample(f)' = Sample(f)) /\ MediaData' = MediaData
        BY <2>1, VideoSame, Zenon DEF Pictures, Sample
      <4>2. \A k : PictureEnds(k)' = PictureEnds(k)
        BY <2>1, <4>1, Zenon DEF PictureEnds
      <4> QED BY <2>1, <4>1, <4>2, VideoSame, Zenon DEF SamplesFound
    <3>2. BoxesTile => BoxesTile'
      <4>1. \A n : Len(SyncSamples(n))' = Len(SyncSamples(n))
        BY <2>1, VideoSame, Zenon DEF SyncSamples
      <4>2. /\ PutMovieBox(VPacketCnt, IdrPacketCnt, spsPps.size)'
                 = PutMovieBox(VPacketCnt, IdrPacketCnt, spsPps.size)
            /\ MovieBox_SIZE(VPacketCnt, IdrPacketCnt, spsPps.size)'
                 = MovieBox_SIZE(VPacketCnt, IdrPacketCnt, spsPps.size)
        BY <2>1, <4>1, Zenon
        DEF PutMovieBox, PutVideoTrackBox, PutVideoMediaBox, PutVideoMediaInformationBox, Puts,
            MovieBox_SIZE, VideoTrackBox_SIZE, VideoMediaBox_SIZE, VideoMediaInformationBox_SIZE,
            VideoSampleTableBox_SIZE, CompositionTimeToSampleBox_SIZE, SampleDependencies
      <4> QED BY <2>1, <4>2, VideoSame, Zenon DEF BoxesTile
    <3> QED BY <1>1, <2>1, <3>1, <3>2, Zenon DEF MuxInv, Mp4FileSound
  <2> QED BY <1>1, <2>1, <2>2, <2>3, <2>4, <2>5, Zenon DEF MuxInv
<1> QED BY <1>1, SkipKeeps, ProcessKeeps, StopKeeps DEF MuxNext

-----------------------------------------------------------------------------
(* Any header *)

MuxShape ==
  /\ video \in Videos /\ muxer \in {"frames", "done"} /\ frame_no \in 0 .. Len(video.frames)
  /\ curPos \in Nat /\ VPacketCnt \in Nat /\ IdrPacketCnt \in Nat /\ SpsPps_pos \in Nat
  /\ SetsSame /\ idx \in Seq(MuxEntry) /\ Len(idx) < IDX_SIZE
  /\ DOMAIN cur_fpos = {"ctts", "stsz", "stco"}

MuxKept == MuxShape /\ (HeaderRight(video) => MuxInv)

LEMMA ShapeInit == MuxInit => MuxShape
<1> SUFFICES ASSUME NEW file \in Videos, MuxStart(file, "frames")
             PROVE  MuxShape
  BY Zenon DEF MuxInit
<1>1. /\ muxer = "frames" /\ video = file /\ frame_no = 0
      /\ curPos = MediaData + 8 /\ VPacketCnt = 0 /\ IdrPacketCnt = 0
      /\ spsPps = [size |-> 0, skip |-> 0]
      /\ SpsPps_pos = FileTypeBox_SIZE + MovieBox_SIZE(0, 0, 0) + 8
      /\ idx = <<>> /\ cur_fpos = fpos
  BY DEF MuxStart
<1> USE DEF MovieBox_SIZE, VideoTrackBox_SIZE, VideoMediaBox_SIZE, VideoMediaInformationBox_SIZE,
            VideoSampleTableBox_SIZE, CompositionTimeToSampleBox_SIZE
<1>2. PICK n \in Nat, q \in Nat : n = video.frame_cnt /\ q = MaxIdrPacketCnt
  <2>1. PICK n \in Nat, p \in Nat \ {0} : n = video.frame_cnt /\ p = video.idr_interval * video.N
    BY <1>1, VideoFacts
  <2>2. MaxIdrPacketCnt = 1 + n \div p
    BY <2>1 DEF MaxIdrPacketCnt
  <2> QED BY <2>1, <2>2
<1>3. MediaData \in Nat /\ SpsPps_pos \in Nat
  <2>1. PICK m \in Nat : m = MovieBox_SIZE(n, q, 0)
    OBVIOUS
  <2>2. FileHeader_MAXSIZE = 24 + m + 144
    BY <1>2, <2>1 DEF FileHeader_MAXSIZE, FileTypeBox_SIZE, EmptyFreeSpaceBox_SIZE
  <2>3. MediaData \in Nat
    BY <2>1, <2>2 DEF MediaData, FreeSpaceSize, FileTypeBox_SIZE
  <2> QED BY <1>1, <2>3 DEF FileTypeBox_SIZE
<1>4. idx \in Seq(MuxEntry) /\ Len(idx) < IDX_SIZE
  BY <1>1, EmptySeq, MuxAssumption
<1>5. frame_no \in 0 .. Len(video.frames)
  BY <1>1, VideoFacts
<1>6. SetsSame
  BY <1>1 DEF SetsSame
<1>7. DOMAIN cur_fpos = {"ctts", "stsz", "stco"}
  BY <1>1 DEF fpos
<1>8. curPos \in Nat /\ VPacketCnt \in Nat /\ IdrPacketCnt \in Nat
  BY <1>1, <1>3
<1> QED BY <1>1, <1>3, <1>4, <1>5, <1>6, <1>7, <1>8, Zenon DEF MuxShape

LEMMA ShapeKept == MuxShape /\ [MuxNext]_muxVars => MuxShape'
<1> SUFFICES ASSUME MuxShape, [MuxNext]_muxVars PROVE MuxShape'
  OBVIOUS
<1>1. /\ video \in Videos /\ frame_no \in 0 .. Len(video.frames) /\ Len(video.frames) \in Nat
      /\ \A g : SetsSize(g)' = SetsSize(g)
  BY VideoFacts DEF MuxShape, SetsSize
<1>2. CASE UNCHANGED muxVars
  BY <1>1, <1>2, Zenon DEF MuxShape, SetsSame, muxVars
<1>3. CASE SkipFrame
  <2>1. frame_no + 1 \in 0 .. Len(video.frames)
    BY <1>1, <1>3 DEF SkipFrame
  <2> QED BY <1>1, <1>3, <2>1, Zenon DEF MuxShape, SetsSame, SkipFrame
<1>4. CASE Stop
  <2>1. /\ muxer' = "done" /\ cur_fpos' = Advance(Len(idx))
        /\ UNCHANGED <<video, frame_no, curPos, VPacketCnt, IdrPacketCnt, spsPps, SpsPps_pos, idx>>
    BY <1>4, Zenon DEF Stop
  <2>2. DOMAIN cur_fpos' = {"ctts", "stsz", "stco"}
    BY <2>1 DEF Advance
  <2> QED BY <1>1, <2>1, <2>2, Zenon DEF MuxShape, SetsSame
<1>5. CASE ProcessVideoData
  <2>1. PICK n, f, sets : n = frame_no + 1 /\ f = video.frames[n] /\ sets = GetSpsPps(f)
    OBVIOUS
  <2>2. PICK len1, size1 : /\ len1 = f.au + (IF f.sets = <<>> THEN 0 ELSE sets.skip)
                           /\ size1 = FrameSize(f) - len1 + 6
    OBVIOUS
  <2>3. PICK e, list : /\ e = [ctts |-> VPacketCnt + 1, stsz |-> size1, stco |-> curPos]
                       /\ list = Append(idx, e)
    OBVIOUS
  <2>4. /\ muxer = "frames" /\ muxer' = muxer /\ video' = video /\ frame_no < Len(video.frames)
        /\ frame_no' = frame_no + 1 /\ VPacketCnt' = VPacketCnt + 1
        /\ IdrPacketCnt' = IdrPacketCnt + (IF f.pic_type = IDR THEN 1 ELSE 0)
        /\ spsPps' = sets /\ SpsPps_pos' = (IF sets = spsPps THEN SpsPps_pos ELSE 0)
        /\ curPos' = curPos + 6 + f.sei + PutNal(f, len1 + f.sei, size1 - 6 - f.sei)
        /\ \/ cur_fpos' = Advance(Len(list)) /\ idx' = <<>>
           \/ ~ Len(list) >= IDX_SIZE /\ idx' = list /\ cur_fpos' = cur_fpos
    BY <1>5, <2>1, <2>2, <2>3 DEF ProcessVideoData
  <2>5. n \in 1 .. Len(video.frames) /\ f \in MuxFrame /\ frame_no' \in 0 .. Len(video.frames)
    <3>1. n \in 1 .. Len(video.frames) /\ n \in 0 .. Len(video.frames)
      BY <1>1, <2>1, <2>4
    <3> QED BY <1>1, <2>1, <2>4, <3>1, VideoFacts, Zenon
  <2>6. /\ sets \in [size : 0 .. 128, skip : Nat]
        /\ f.sets # <<>> => sets.skip = SetsSize(f)
        /\ sets.size # 0 =>
             \A i \in 1 .. Len(video.frames) :
               video.frames[i].sets # <<>> => SetsSize(video.frames[i]) = sets.skip
    BY <1>1, <2>1, <2>5, GetSpsPpsRight DEF MuxShape
  <2>7. SetsSame'
    BY <1>1, <2>4, <2>6 DEF SetsSame
  <2>8. len1 = f.au + SetsSize(f)
    BY <2>2, <2>6 DEF SetsSize
  <2>9. /\ size1 = 6 + f.sei + f.slice /\ f.sei \in Nat /\ f.slice \in Nat
        /\ PutNal(f, len1 + f.sei, size1 - 6 - f.sei) = f.slice
    BY <2>2, <2>5, <2>8, FramePut
  <2>10. PICK at \in Nat, v \in Nat, r \in Nat, d \in Nat, l \in Nat :
           /\ at = curPos /\ v = VPacketCnt /\ r = IdrPacketCnt /\ d = f.sei /\ l = f.slice
    BY <2>9 DEF MuxShape
  <2>11. curPos' \in Nat /\ VPacketCnt' \in Nat /\ IdrPacketCnt' \in Nat /\ SpsPps_pos' \in Nat
    <3>1. curPos' = at + 6 + d + l
      BY <2>4, <2>9, <2>10, Zenon
    <3>2. SpsPps_pos' \in Nat
      BY <2>4 DEF MuxShape
    <3> QED BY <2>4, <2>10, <3>1, <3>2
  <2>12. idx' \in Seq(MuxEntry) /\ Len(idx') < IDX_SIZE
    <3>1. e \in MuxEntry
      <4>1. VPacketCnt + 1 \in Nat /\ size1 \in Nat /\ curPos \in Nat
        <5>1. size1 = 6 + d + l
          BY <2>9, <2>10, Zenon
        <5> QED BY <2>10, <5>1
      <4> QED BY <2>3, <4>1 DEF MuxEntry
    <3>2. list \in Seq(MuxEntry) /\ Len(list) \in Nat
      BY <2>3, <3>1, AppendProperties, LenProperties DEF MuxShape
    <3>3. <<>> \in Seq(MuxEntry) /\ Len(<<>>) = 0
      BY EmptySeq
    <3>4. IDX_SIZE \in Nat \ {0}
      BY MuxAssumption
    <3>5. CASE idx' = <<>>
      <4>1. 0 < IDX_SIZE
        BY <3>4
      <4> QED BY <3>3, <3>5, <4>1, Zenon
    <3>6. CASE ~ Len(list) >= IDX_SIZE /\ idx' = list
      <4>1. Len(list) < IDX_SIZE
        BY <3>2, <3>4, <3>6
      <4> QED BY <3>2, <3>6, <4>1, Zenon
    <3> QED BY <2>4, <3>5, <3>6, Zenon
  <2>13. DOMAIN cur_fpos' = {"ctts", "stsz", "stco"}
    BY <2>4 DEF Advance, MuxShape
  <2> QED BY <1>1, <2>4, <2>5, <2>7, <2>11, <2>12, <2>13, Zenon DEF MuxShape
<1> QED BY <1>2, <1>3, <1>4, <1>5, Zenon DEF MuxNext

LEMMA MuxKeptInit == MuxInit => MuxKept
<1> SUFFICES ASSUME MuxInit PROVE MuxKept
  OBVIOUS
<1>1. video \in Videos
  BY ShapeInit DEF MuxShape
<1> QED BY <1>1, ShapeInit, MuxInitInv, Zenon DEF MuxKept, Proper

LEMMA MuxKeptInductive == MuxKept /\ [MuxNext]_muxVars => MuxKept'
<1> SUFFICES ASSUME MuxKept, [MuxNext]_muxVars PROVE MuxKept'
  OBVIOUS
<1>1. MuxShape'
  BY ShapeKept DEF MuxKept
<1>2. video' = video
  BY Zenon DEF MuxNext, SkipFrame, ProcessVideoData, Stop, muxVars
<1>3. HeaderRight(video)' => MuxInv'
  BY <1>2, MuxInvInductive, Zenon DEF MuxKept
<1> QED BY <1>1, <1>3, Zenon DEF MuxKept

LEMMA MuxKeptSound == MuxKept => Mp4FileSound /\ MuxTypeOK
<1> SUFFICES ASSUME MuxKept PROVE Mp4FileSound /\ MuxTypeOK
  OBVIOUS
<1>1. Mp4FileSound
  BY Zenon DEF MuxKept, MuxInv, Mp4FileSound
<1>2. spsPps.size \in Nat /\ spsPps.skip \in Nat
  <2>1. spsPps \in [size : 0 .. 128, skip : Nat]
    BY Zenon DEF MuxKept, MuxShape, SetsSame
  <2> QED BY <2>1
<1>3. /\ muxer \in {"off", "frames", "done"} /\ frame_no \in 0 .. Len(video.frames)
      /\ curPos \in Nat /\ VPacketCnt \in Nat /\ IdrPacketCnt \in Nat /\ SpsPps_pos \in Nat
      /\ Len(idx) < IDX_SIZE /\ DOMAIN cur_fpos = {"ctts", "stsz", "stco"}
  BY DEF MuxKept, MuxShape
<1>4. {curPos, VPacketCnt, IdrPacketCnt, SpsPps_pos, spsPps.size, spsPps.skip} \subseteq Nat
  BY <1>2, <1>3
<1> QED BY <1>1, <1>3, <1>4, Zenon DEF MuxTypeOK

\* test_mp4mux.c: whatever the pictures and however many entries the index keeps in memory,
\* the file that Stop leaves leads to each picture and its boxes follow each other without
\* a gap, although the index is read from the room that is being written over, if the
\* header of the .info file is right.
THEOREM MuxedFileSound == MuxSpec => []Mp4FileSound
BY MuxKeptSound, MuxKeptInit, MuxKeptInductive, PTL DEF MuxSpec

\* Every variable of the muxer has its type, whatever the header.
LEMMA MuxTypesKept == MuxSpec => []MuxTypeOK
BY MuxKeptSound, MuxKeptInit, MuxKeptInductive, PTL DEF MuxSpec

-----------------------------------------------------------------------------

VsyncSpec == VsyncInit /\ [][VsyncNext]_vsyncVars

\* An interrupt that is taken has room in its semaphore, and what main does agrees with
\* what it holds.
VsyncInv ==
  /\ VsyncTypeOK
  /\ vsync \in {"off", "create", "loop", "both", "diff", "compare", "alone", "drain",
                "unlock", "print", "exited"}
  /\ \A l \in Lines : line[l] \in {"stamp", "post"} => sem[l] < MaxPosts

LEMMA VsyncBounds == MaxUsec \in Nat \ {0} /\ MaxPosts \in Nat \ {0}
BY VsyncAssumption

\* Main holds base_sync in these states.
SyncHeld == base_sync = (vsync \in {"diff", "alone", "drain", "unlock"}) \/ vsync = "exited"

LEMMA VsyncInitInv == VsyncInit \/ VsyncOff => VsyncInv
<1> SUFFICES ASSUME VsyncInit \/ VsyncOff PROVE VsyncInv
  OBVIOUS
<1>1. 0 \in 0 .. MaxUsec /\ 0 \in 0 .. MaxPosts /\ 0 \in -MaxUsec .. MaxUsec
  BY VsyncBounds
<1>2. /\ line = [l \in Lines |-> "start"] /\ time = [l \in Lines |-> 0] /\ usec = 0
      /\ sem = [l \in Lines |-> 0] \/ sem \in [Lines -> 0 .. MaxPosts]
      /\ base_sync = FALSE /\ vsync \in {"off", "create"}
  BY Zenon DEF VsyncInit, VsyncOff
<1>3. SyncHeld
  <2>1. vsync \notin {"diff", "alone", "drain", "unlock"}
    BY <1>2
  <2>2. (vsync \in {"diff", "alone", "drain", "unlock"}) = FALSE
    BY <2>1, SMT
  <2>3. base_sync = (vsync \in {"diff", "alone", "drain", "unlock"})
    BY <1>2, <2>2, Zenon
  <2> QED BY <2>3, Zenon DEF SyncHeld
<1>4. /\ line \in [Lines -> {"start", "read", "stamp", "post", "sync"}]
      /\ sem \in [Lines -> 0 .. MaxPosts] /\ time \in [Lines -> 0 .. MaxUsec]
      /\ usec \in -MaxUsec .. MaxUsec
      /\ \A l \in Lines : line[l] \notin {"stamp", "post"}
  BY <1>1, <1>2
<1>5. vsync \in {"off", "create", "loop", "both", "diff", "compare", "alone", "drain",
                "unlock", "print", "exited"}
  BY <1>2
<1> QED BY <1>3, <1>4, <1>5, Zenon DEF VsyncInv, VsyncTypeOK, SyncHeld

LEMMA LineKeeps == ASSUME VsyncInv, NEW l \in Lines, LineStep(l) PROVE VsyncInv'
<1> USE DEF VsyncInv, VsyncTypeOK
<1>1. CASE Begin(l) \/ Irq(l) \/ Sync(l)
  BY <1>1 DEF Begin, Irq, Sync, LineGoes
<1>2. CASE Stamp(l)
  BY <1>2 DEF Stamp, LineGoes
<1>3. CASE Post(l)
  <2>1. /\ line[l] = "post" /\ line' = [line EXCEPT ![l] = "sync"]
        /\ sem' = [sem EXCEPT ![l] = @ + 1]
        /\ UNCHANGED <<vsync, time, base_sync, usec>>
    BY <1>3 DEF Post, LineGoes
  <2>2. sem[l] \in 0 .. MaxPosts /\ sem[l] < MaxPosts
    BY <2>1
  <2>3. sem[l] + 1 \in 0 .. MaxPosts
    BY <2>2, VsyncBounds
  <2> QED BY <2>1, <2>3
<1> QED BY <1>1, <1>2, <1>3 DEF LineStep

LEMMA SemWaitKeeps ==
  ASSUME VsyncInv, NEW l \in Lines, SemWait(l)
  PROVE  /\ sem' \in [Lines -> 0 .. MaxPosts]
         /\ \A k \in Lines : sem'[k] <= sem[k]
<1>1. sem \in [Lines -> 0 .. MaxPosts] /\ sem[l] > 0 /\ sem' = [sem EXCEPT ![l] = @ - 1]
  BY DEF SemWait, VsyncInv, VsyncTypeOK
<1>2. sem[l] - 1 \in 0 .. MaxPosts /\ sem[l] - 1 <= sem[l]
  BY <1>1, VsyncBounds
<1>3. \A k \in Lines : sem[k] <= sem[k]
  BY <1>1
<1> QED BY <1>1, <1>2, <1>3

LEMMA MainKeeps == ASSUME VsyncInv, VsyncMain PROVE VsyncInv'
<1> USE DEF Goes
<1>1. CASE CreateThreads \/ PrintDiff
  BY <1>1 DEF CreateThreads, PrintDiff, VsyncInv, VsyncTypeOK
<1>7. CASE LockBase
  <2>1. vsync' = "diff" /\ base_sync' = TRUE /\ UNCHANGED <<line, sem, time, usec>>
    BY <1>7, Zenon DEF LockBase
  <2>2. SyncHeld'
    <3>1. vsync' \in {"diff", "alone", "drain", "unlock"}
      BY <2>1
    <3> QED BY <2>1, <3>1, Zenon DEF SyncHeld
  <2>3. vsync' \in {"off", "create", "loop", "both", "diff", "compare", "alone", "drain",
                   "unlock", "print", "exited"}
    BY <2>1
  <2> QED BY <2>1, <2>2, <2>3, Zenon DEF VsyncInv, VsyncTypeOK, SyncHeld
<1>2. ASSUME NEW l \in Lines, SemWait(l), UNCHANGED line
      PROVE  \A k \in Lines : line'[k] \in {"stamp", "post"} => sem'[k] < MaxPosts
  <2>1. SUFFICES ASSUME NEW k \in Lines, line[k] \in {"stamp", "post"}
                 PROVE  sem'[k] < MaxPosts
    BY <1>2
  <2>2. sem'[k] <= sem[k] /\ sem[k] < MaxPosts /\ sem'[k] \in 0 .. MaxPosts
        /\ sem[k] \in 0 .. MaxPosts
    BY <1>2, <2>1, SemWaitKeeps DEF VsyncInv, VsyncTypeOK
  <2> QED BY <2>2, VsyncBounds
<1>3. CASE WaitBase
  <2>1. SemWait("base") /\ "base" \in Lines /\ UNCHANGED line
    BY <1>3 DEF WaitBase, Lines
  <2> QED BY <1>2, <1>3, <2>1, SemWaitKeeps DEF WaitBase, VsyncInv, VsyncTypeOK
<1>4. CASE WaitDiff
  <2>1. SemWait("diff") /\ "diff" \in Lines /\ UNCHANGED line
    BY <1>4 DEF WaitDiff, Lines
  <2> QED BY <1>2, <1>4, <2>1, SemWaitKeeps DEF WaitDiff, VsyncInv, VsyncTypeOK
<1>5. CASE Compare
  <2>1. time["diff"] \in 0 .. MaxUsec /\ time["base"] \in 0 .. MaxUsec
    BY DEF VsyncInv, VsyncTypeOK, Lines
  <2>2. time["diff"] - time["base"] \in -MaxUsec .. MaxUsec
    BY <2>1, VsyncBounds
  <2> QED BY <1>5, <2>2 DEF Compare, VsyncInv, VsyncTypeOK
<1>6. CASE Drain
  <2>1. 0 \in 0 .. MaxPosts /\ 0 < MaxPosts
    BY VsyncBounds
  <2> QED BY <1>6, <2>1 DEF Drain, VsyncInv, VsyncTypeOK
<1> QED BY <1>1, <1>3, <1>4, <1>5, <1>6, <1>7 DEF VsyncMain

LEMMA VsyncInvInductive == VsyncInv /\ [VsyncNext]_vsyncVars => VsyncInv'
<1> SUFFICES ASSUME VsyncInv, [VsyncNext]_vsyncVars PROVE VsyncInv'
  OBVIOUS
<1>1. CASE Sigstop
  BY <1>1 DEF Sigstop, VsyncInv, VsyncTypeOK
<1>2. CASE UNCHANGED vsyncVars
  BY <1>2 DEF vsyncVars, VsyncInv, VsyncTypeOK
<1> QED BY <1>1, <1>2, LineKeeps, MainKeeps DEF VsyncNext

LEMMA VsyncTypesKept == VsyncSpec => []VsyncTypeOK
<1>1. VsyncInv => VsyncTypeOK
  BY DEF VsyncInv
<1> QED BY VsyncInitInv, VsyncInvInductive, <1>1, PTL DEF VsyncSpec

-----------------------------------------------------------------------------

NetSpec == NetInit /\ [][NetNext]_netVars

\* Positions of a client's stream: so much of it has been read.
ReadOf(c) == client[c].sent - client[c].unread

UnreadSent == \A c \in Clients : client[c].unread <= client[c].sent

\* The file is not ahead of the reads.
FileBehind ==
  \A c \in Clients : \A j \in DOMAIN data_recv :
    data_recv[j][1] = c => data_recv[j][2] <= ReadOf(c)

\* The piece to be written continues the client's stream after position f.
PieceAfter(f) ==
  /\ \A i \in 1 .. nread : buf_recv[got + i] = <<fd_socket_clnt, f + i>>
  /\ f + nread <= ReadOf(fd_socket_clnt)
  /\ Served.state # "reset" => f + nread = ReadOf(fd_socket_clnt)
  /\ \A j \in DOMAIN data_recv : data_recv[j][1] = fd_socket_clnt => data_recv[j][2] <= f
PieceInHand ==
  net = "write" => nread >= 1 /\ got + nread <= window /\ \E f \in Nat : PieceAfter(f)

NetInv == NetTypeOK /\ UnreadSent /\ FileBehind /\ PieceInHand /\ StreamsKept

LEMMA NetSizes == window \in Nat \ {0} /\ SocketSize \in Nat \ {0} /\ MaxSent \in Nat \ {0}
BY NetAssumption

NetStates == {"new", "connected", "stopped", "reset"}

LEMMA ClientTyped ==
  ASSUME NetTypeOK, NEW c \in Clients
  PROVE  /\ client[c].state \in NetStates
         /\ client[c].sent \in 0 .. MaxSent /\ client[c].unread \in 0 .. SocketSize
         /\ client[c].sent \in Nat /\ client[c].unread \in Nat /\ ReadOf(c) \in Int
BY NetSizes DEF NetTypeOK, NetStates, ReadOf

LEMMA FileTyped ==
  ASSUME NetTypeOK
  PROVE  /\ \A j \in DOMAIN data_recv : 
             /\ data_recv[j] = <<data_recv[j][1], data_recv[j][2]>>
             /\ data_recv[j][1] \in Clients /\ data_recv[j][2] \in 1 .. MaxSent
             /\ data_recv[j][2] \in Nat
         /\ DOMAIN data_recv = 1 .. Len(data_recv) /\ Len(data_recv) \in Nat
<1>1. data_recv \in Seq(Bytes)
  BY DEF NetTypeOK
<1>2. /\ DOMAIN data_recv = 1 .. Len(data_recv) /\ Len(data_recv) \in Nat
      /\ \A j \in DOMAIN data_recv : data_recv[j] \in Bytes
  BY <1>1
<1>3. \A b \in Bytes : /\ b = <<b[1], b[2]>> /\ b[1] \in Clients /\ b[2] \in 1 .. MaxSent
                       /\ b[2] \in Nat
  BY NetSizes DEF Bytes
<1> QED BY <1>2, <1>3

LEMMA NetInitInv == NetInit \/ NetOff => NetInv
<1> SUFFICES ASSUME NetInit \/ NetOff PROVE NetInv
  OBVIOUS
<1>1. net \in {"accept", "off"} /\ NetStart
  BY DEF NetInit, NetOff
<1>6. \A c \in Clients :
         client[c] = [state |-> "new", sent |-> 0, unread |-> 0]
  BY <1>1 DEF NetStart
<1>7. \A c \in Clients : client[c].sent = 0 /\ client[c].unread = 0
  <2>1. \A r : r = [state |-> "new", sent |-> 0, unread |-> 0] => r.sent = 0 /\ r.unread = 0
    OBVIOUS
  <2> QED BY <1>6, <2>1, Zenon
<1>2. NetTypeOK
  <2>1. 0 \in 0 .. window - 1 /\ 0 \in 0 .. window /\ 0 \in 0 .. MaxSent /\ 0 \in 0 .. SocketSize
    BY NetSizes
  <2>2. fd_socket_clnt \in Clients /\ buf_recv \in [1 .. window -> Bytes \cup {<<>>}]
    BY <1>1, Zenon DEF NetStart
  <2>3. got = 0 /\ nread = 0 /\ backlog = <<>> /\ data_recv = <<>> /\ write_failed = FALSE
    BY <1>1, Zenon DEF NetStart
  <2>4. client \in [Clients -> [state : {"new", "connected", "stopped", "reset"},
                               sent : 0 .. MaxSent, unread : 0 .. SocketSize]]
    <3>1. [state |-> "new", sent |-> 0, unread |-> 0]
            \in [state : {"new", "connected", "stopped", "reset"},
                 sent : 0 .. MaxSent, unread : 0 .. SocketSize]
      BY <2>1
    <3>2. client = [c \in Clients |-> [state |-> "new", sent |-> 0, unread |-> 0]]
      BY <1>1, Zenon DEF NetStart
    <3> QED BY <3>1, <3>2, Zenon
  <2>5. backlog \in Seq(Clients) /\ data_recv \in Seq(Bytes)
    BY <2>3
  <2>6. net \in {"off", "accept", "read", "write", "exited"} /\ write_failed \in BOOLEAN
        /\ got \in 0 .. window - 1 /\ nread \in 0 .. window
    BY <1>1, <2>1, <2>3
  <2> QED BY <2>2, <2>4, <2>5, <2>6, Zenon DEF NetTypeOK
<1>3. UnreadSent
  <2>1. 0 <= 0
    OBVIOUS
  <2> QED BY <1>7, <2>1, Zenon DEF UnreadSent
<1>4. data_recv = <<>> /\ DOMAIN data_recv = {}
  BY <1>1 DEF NetStart
<1>5. AllReadKept
  <2>1. \A c \in Clients : client[c].sent - client[c].unread = 0 - 0
    BY <1>7, Zenon
  <2>3. 1 .. 0 - 0 = {}
    OBVIOUS
  <2>2. \A c \in Clients : 1 .. client[c].sent - client[c].unread = {}
    BY <2>1, <2>3, Zenon
  <2> QED BY <2>2 DEF AllReadKept
<1> QED BY <1>1, <1>2, <1>3, <1>4, <1>5
        DEF NetInv, FileBehind, PieceInHand, StreamsKept, InOrder

-----------------------------------------------------------------------------
(* The clients' steps leave the server and what it has read alone. *)

\* What a client's step does: the others stay, and of this one no more is taken than was
\* not read yet.
ClientMoves(c) ==
  /\ client' = [client EXCEPT ![c] = client'[c]]
  /\ client'[c] \in [state : NetStates, sent : 0 .. MaxSent, unread : 0 .. SocketSize]
  /\ client'[c].unread <= client'[c].sent
  /\ ReadOf(c) <= client'[c].sent - client'[c].unread
  /\ client'[c].state = "reset" \/ ReadOf(c) = client'[c].sent - client'[c].unread
  /\ client[c].state # "reset"
  /\ ServerUnchanged

LEMMA ClientMovesKeeps ==
  ASSUME NetInv, NEW c \in Clients, ClientMoves(c), backlog' \in Seq(Clients)
  PROVE  NetInv'
<1>1. UNCHANGED <<net, fd_socket_clnt, buf_recv, got, nread, data_recv, write_failed>>
  BY DEF ClientMoves, ServerUnchanged
<1>2. NetTypeOK /\ UnreadSent /\ FileBehind /\ PieceInHand /\ StreamsKept
  BY DEF NetInv
<1>3. client \in [Clients -> [state : NetStates, sent : 0 .. MaxSent, unread : 0 .. SocketSize]]
  BY <1>2 DEF NetTypeOK, NetStates
<1>4. client' \in [Clients -> [state : NetStates, sent : 0 .. MaxSent, unread : 0 .. SocketSize]]
  BY <1>3 DEF ClientMoves
<1>5. NetTypeOK'
  BY <1>1, <1>2, <1>4 DEF NetTypeOK, NetStates, Bytes
<1>6. \A d \in Clients : d # c => client'[d] = client[d]
  BY <1>3 DEF ClientMoves
<1>7. UnreadSent'
  BY <1>2, <1>6 DEF UnreadSent, ClientMoves
<1>8. /\ \A d \in Clients : ReadOf(d) \in Int /\ ReadOf(d)' \in Int
      /\ \A d \in Clients : ReadOf(d) <= ReadOf(d)'
      /\ \A d \in Clients : client'[d].state # "reset" =>
           ReadOf(d)' = ReadOf(d) /\ client[d].state # "reset"
  <2>1. \A d \in Clients : ReadOf(d) \in Int /\ ReadOf(d)' \in Int
    BY <1>2, <1>5, ClientTyped, <1>4, NetSizes DEF ReadOf
  <2>2. \A d \in Clients : d # c => ReadOf(d)' = ReadOf(d)
    BY <1>6 DEF ReadOf
  <2>3. ReadOf(c)' = client'[c].sent - client'[c].unread
    BY DEF ReadOf
  <2>4. ReadOf(c) <= ReadOf(c)' /\ (client'[c].state # "reset" => ReadOf(c)' = ReadOf(c))
        /\ client[c].state # "reset"
    BY <2>3, Zenon DEF ClientMoves
  <2>5. \A d \in Clients : ReadOf(d) <= ReadOf(d)'
    BY <2>1, <2>2, <2>4
  <2> QED BY <2>1, <2>2, <2>4, <2>5, <1>6
<1>9. FileBehind'
  <2>1. SUFFICES ASSUME NEW d \in Clients, NEW j \in DOMAIN data_recv, data_recv[j][1] = d
                 PROVE  data_recv[j][2] <= ReadOf(d)'
    BY <1>1 DEF FileBehind
  <2>2. data_recv[j][2] <= ReadOf(d) /\ data_recv[j][2] \in Nat
    BY <1>2, <2>1, FileTyped DEF FileBehind
  <2>3. ReadOf(d) <= ReadOf(d)' /\ ReadOf(d) \in Int /\ ReadOf(d)' \in Int
    BY <1>8
  <2> QED BY <2>2, <2>3
<1>10. PieceInHand'
  <2>1. SUFFICES ASSUME net = "write" 
                 PROVE  nread >= 1 /\ got + nread <= window /\ \E f \in Nat : PieceAfter(f)'
    BY <1>1 DEF PieceInHand
  <2>2. PICK f \in Nat : PieceAfter(f)
    BY <1>2, <2>1 DEF PieceInHand
  <2>3. fd_socket_clnt \in Clients /\ nread \in Nat
    BY <1>2, NetSizes DEF NetTypeOK
  <2>4. PICK d \in Clients : d = fd_socket_clnt /\ fd_socket_clnt' = d
    BY <2>3, <1>1
  <2>5. /\ f + nread <= ReadOf(d)
        /\ client[d].state # "reset" => f + nread = ReadOf(d)
    BY <2>2, <2>4 DEF PieceAfter, Served
  <2>6. f + nread <= ReadOf(d)' /\ (client'[d].state # "reset" => f + nread = ReadOf(d)')
    BY <2>3, <2>5, <1>8
  <2>7. PieceAfter(f)'
    BY <1>1, <2>2, <2>4, <2>6 DEF PieceAfter, Served
  <2> QED BY <1>2, <2>1, <2>7 DEF PieceInHand
<1>11. StreamsKept'
  <2>1. InOrder'
    BY <1>1, <1>2 DEF StreamsKept, InOrder
  <2>2. ASSUME AllReadKept PROVE AllReadKept'
    <3>1. SUFFICES ASSUME NEW d \in Clients,
                          NEW k \in 1 .. (client'[d].sent - client'[d].unread),
                          client'[d].state # "reset"
                   PROVE  BeingWritten(d, k)' \/ \E i \in DOMAIN data_recv : data_recv[i] = <<d, k>>
      BY <1>1 DEF AllReadKept
    <3>2. client[d].state # "reset" 
          /\ client'[d].sent - client'[d].unread = client[d].sent - client[d].unread
      BY <3>1, <1>8 DEF ReadOf
    <3>3. BeingWritten(d, k) => BeingWritten(d, k)'
      BY <3>2, <1>1 DEF BeingWritten
    <3> QED BY <2>2, <3>1, <3>2, <3>3 DEF AllReadKept
  <2> QED BY <1>1, <1>2, <2>1, <2>2 DEF StreamsKept
<1> QED BY <1>5, <1>7, <1>9, <1>10, <1>11 DEF NetInv

LEMMA ClientKeeps ==
  ASSUME NetInv, NEW c \in Clients,
         ConnectTo(c) \/ SendByte(c) \/ StopClient(c) \/ ResetConnection(c)
  PROVE  NetInv'
<1>1. /\ client \in [Clients -> [state : NetStates, sent : 0 .. MaxSent, unread : 0 .. SocketSize]]
      /\ client[c] \in [state : NetStates, sent : 0 .. MaxSent, unread : 0 .. SocketSize]
      /\ backlog \in Seq(Clients)
  BY DEF NetInv, NetTypeOK, NetStates
<1>2. client[c].unread <= client[c].sent
  BY DEF NetInv, UnreadSent
<1>3. backlog' \in Seq(Clients)
  <2>1. backlog' = Append(backlog, c) \/ backlog' = backlog
    BY Zenon DEF ConnectTo, SendByte, StopClient, ResetConnection
  <2>2. backlog \in Seq(Clients) /\ Append(backlog, c) \in Seq(Clients)
    BY <1>1
  <2> QED BY <2>1, <2>2, Zenon
<1>4. PICK s, u : s = client[c].sent /\ u = client[c].unread
  OBVIOUS
<1>5. s \in 0 .. MaxSent /\ u \in 0 .. SocketSize /\ u <= s /\ s \in Nat /\ u \in Nat
      /\ 0 \in 0 .. SocketSize /\ ReadOf(c) = s - u
  BY <1>1, <1>2, <1>4, NetSizes DEF ReadOf
<1>6. CASE ConnectTo(c) \/ StopClient(c)
  <2>1. PICK st \in {"connected", "stopped"} : client' = [client EXCEPT ![c].state = st]
    BY <1>6 DEF ConnectTo, StopClient
  <2>2. client[c].state # "reset" /\ ServerUnchanged
    BY <1>6 DEF ConnectTo, StopClient
  <2>3. client'[c] = [client[c] EXCEPT !.state = st] /\ client' = [client EXCEPT ![c] = client'[c]]
    BY <1>1, <2>1
  <2>4. client'[c].state = st /\ client'[c].sent = s /\ client'[c].unread = u
        /\ client'[c] \in [state : NetStates, sent : 0 .. MaxSent, unread : 0 .. SocketSize]
    BY <1>1, <1>4, <2>3 DEF NetStates
  <2>5. s - u <= s - u /\ u <= s
    BY <1>5
  <2>6. ClientMoves(c)
    BY <2>2, <2>3, <2>4, <2>5, <1>5 DEF ClientMoves
  <2> QED BY <1>3, <2>6, ClientMovesKeeps
<1>7. CASE SendByte(c)
  <2>1. client' = [client EXCEPT ![c].sent = @ + 1, ![c].unread = @ + 1] /\ s < MaxSent
        /\ u < SocketSize /\ client[c].state = "connected" /\ ServerUnchanged
    BY <1>4, <1>7 DEF SendByte
  <2>2. client'[c] = [client[c] EXCEPT !.sent = s + 1, !.unread = u + 1]
        /\ client' = [client EXCEPT ![c] = client'[c]]
    BY <1>1, <1>4, <2>1
  <2>3. s + 1 \in 0 .. MaxSent /\ u + 1 \in 0 .. SocketSize /\ u + 1 <= s + 1
        /\ s - u = (s + 1) - (u + 1) /\ s - u <= (s + 1) - (u + 1)
    BY <1>5, <2>1, NetSizes
  <2>4. client'[c].sent = s + 1 /\ client'[c].unread = u + 1
        /\ client'[c] \in [state : NetStates, sent : 0 .. MaxSent, unread : 0 .. SocketSize]
    BY <1>1, <2>2, <2>3
  <2>5. ClientMoves(c)
    BY <2>1, <2>2, <2>3, <2>4, <1>5 DEF ClientMoves
  <2> QED BY <1>3, <2>5, ClientMovesKeeps
<1>8. CASE ResetConnection(c)
  <2>1. client' = [client EXCEPT ![c].state = "reset", ![c].unread = 0] 
        /\ client[c].state = "connected" /\ ServerUnchanged
    BY <1>8 DEF ResetConnection
  <2>2. client'[c] = [client[c] EXCEPT !.state = "reset", !.unread = 0]
        /\ client' = [client EXCEPT ![c] = client'[c]]
    BY <1>1, <2>1
  <2>3. s - u <= s - 0 /\ 0 <= s
    BY <1>5
  <2>4. client'[c].sent = s /\ client'[c].unread = 0 /\ client'[c].state = "reset"
        /\ client'[c] \in [state : NetStates, sent : 0 .. MaxSent, unread : 0 .. SocketSize]
    BY <1>1, <1>4, <1>5, <2>2 DEF NetStates
  <2>5. ClientMoves(c)
    BY <2>1, <2>2, <2>3, <2>4, <1>5 DEF ClientMoves
  <2> QED BY <1>3, <2>5, ClientMovesKeeps
<1> QED BY <1>6, <1>7, <1>8
-----------------------------------------------------------------------------
(* The thread's steps *)

\* Steps that leave the file, the reads and the piece in hand as they are, out of or into
\* another state than "write".
LEMMA ThreadTurns ==
  ASSUME NetInv, net' \in {"accept", "read", "exited"}, net \notin {"write", "exited"} \/ net' = "exited",
         fd_socket_clnt' \in Clients, got' = got \/ got' = 0,
         UNCHANGED <<buf_recv, nread, client, data_recv, write_failed>>,
         backlog' \in Seq(Clients)
  PROVE  NetInv'
<1>1. NetTypeOK /\ UnreadSent /\ FileBehind /\ StreamsKept
  BY DEF NetInv
<1>2. 0 \in 0 .. window - 1
  BY NetSizes
<1>3. NetTypeOK'
  BY <1>1, <1>2 DEF NetTypeOK, Bytes
<1>4. UnreadSent' /\ FileBehind' /\ InOrder' /\ PieceInHand'
  BY <1>1 DEF UnreadSent, FileBehind, ReadOf, StreamsKept, InOrder, PieceInHand
<1>5. ASSUME net # "write", AllReadKept PROVE AllReadKept'
  BY <1>5 DEF AllReadKept, BeingWritten
<1> QED BY <1>1, <1>3, <1>4, <1>5 DEF NetInv, StreamsKept

LEMMA AcceptKeeps == ASSUME NetInv, AcceptClient PROVE NetInv'
<1>1. backlog \in Seq(Clients) /\ backlog # <<>>
  BY DEF AcceptClient, NetInv, NetTypeOK
<1>2. Head(backlog) \in Clients /\ Tail(backlog) \in Seq(Clients)
  BY <1>1
<1>3. /\ net' = "read" /\ net = "accept" /\ got' = got
      /\ fd_socket_clnt' = Head(backlog) /\ backlog' = Tail(backlog)
      /\ UNCHANGED <<buf_recv, nread, client, data_recv, write_failed>>
  BY Zenon DEF AcceptClient
<1> QED BY <1>2, <1>3, ThreadTurns

LEMMA EndKeeps == ASSUME NetInv, EndOfClient PROVE NetInv'
<1>1. /\ net = "read" /\ net' \in {"read", "accept"} /\ got' = 0
      /\ UNCHANGED <<fd_socket_clnt, buf_recv, nread, client, backlog, data_recv, write_failed>>
  BY DEF EndOfClient, ReadnReturns
<1>2. fd_socket_clnt \in Clients /\ backlog \in Seq(Clients)
  BY DEF NetInv, NetTypeOK
<1> QED BY <1>1, <1>2, ThreadTurns

LEMMA StopServerKeeps == ASSUME NetInv, StopServer PROVE NetInv'
<1>1. /\ net' = "exited" /\ got' = got
      /\ UNCHANGED <<fd_socket_clnt, buf_recv, nread, client, backlog, data_recv, write_failed>>
  BY DEF StopServer
<1>2. fd_socket_clnt \in Clients /\ backlog \in Seq(Clients)
  BY DEF NetInv, NetTypeOK
<1> QED BY <1>1, <1>2, ThreadTurns

LEMMA WriteErrorKeeps == ASSUME NetInv, WriteError PROVE NetInv'
<1>1. /\ net = "write" /\ net' \in {"read", "accept"} /\ got' = 0 /\ write_failed' = TRUE
      /\ UNCHANGED <<fd_socket_clnt, buf_recv, nread, client, backlog, data_recv>>
  BY DEF WriteError, ReadnReturns
<1>2. NetTypeOK /\ UnreadSent /\ FileBehind /\ StreamsKept
  BY DEF NetInv
<1>3. 0 \in 0 .. window - 1
  BY NetSizes
<1>4. NetTypeOK'
  BY <1>1, <1>2, <1>3 DEF NetTypeOK, Bytes
<1>5. UnreadSent' /\ FileBehind' /\ StreamsKept' /\ PieceInHand'
  BY <1>1, <1>2 DEF UnreadSent, FileBehind, ReadOf, StreamsKept, InOrder, PieceInHand
<1> QED BY <1>4, <1>5 DEF NetInv

LEMMA ReadKeepsStreams == ASSUME NetInv, ReadSocket PROVE NetInv'
<1>1. NetTypeOK /\ UnreadSent /\ FileBehind /\ StreamsKept
  BY DEF NetInv
<1>2. PICK c \in Clients : c = fd_socket_clnt
  BY <1>1 DEF NetTypeOK
<1>3. PICK n \in 1 .. window - got :
        /\ n <= client[c].unread
        /\ nread' = n
        /\ buf_recv' = [i \in 1 .. window |->
             IF i \in got + 1 .. got + n
             THEN <<c, client[c].sent - client[c].unread + i - got>> ELSE buf_recv[i]]
        /\ client' = [client EXCEPT ![c].unread = @ - n]
  BY <1>2, Zenon DEF ReadSocket, Served
<1>4. /\ net = "read" /\ net' = "write"
      /\ UNCHANGED <<fd_socket_clnt, got, backlog, data_recv, write_failed>>
  BY Zenon DEF ReadSocket
<1>5. PICK s, u, g : s = client[c].sent /\ u = client[c].unread /\ g = got
  OBVIOUS
<1>6. /\ client \in [Clients -> [state : NetStates, sent : 0 .. MaxSent, unread : 0 .. SocketSize]]
      /\ client[c] \in [state : NetStates, sent : 0 .. MaxSent, unread : 0 .. SocketSize]
      /\ buf_recv \in [1 .. window -> Bytes \cup {<<>>}] /\ got \in 0 .. window - 1
  BY <1>1 DEF NetTypeOK, NetStates
<1>7. /\ s \in Nat /\ u \in Nat /\ g \in Nat /\ n \in Nat /\ n >= 1 /\ u <= s /\ n <= u
      /\ g + n <= window /\ s <= MaxSent /\ u <= SocketSize /\ MaxSent \in Nat
      /\ window \in Nat /\ SocketSize \in Nat
  <2>1. u <= s
    BY <1>1, <1>5 DEF UnreadSent
  <2>2. s \in 0 .. MaxSent /\ u \in 0 .. SocketSize /\ g \in 0 .. window - 1
    BY <1>5, <1>6
  <2>3. n <= u /\ n \in 1 .. window - g
    BY <1>3, <1>5
  <2> QED BY <2>1, <2>2, <2>3, NetSizes
<1>8. client'[c] = [client[c] EXCEPT !.unread = u - n] /\ client' = [client EXCEPT ![c] = client'[c]]
  BY <1>3, <1>5, <1>6
<1>9. client'[c].sent = s /\ client'[c].unread = u - n /\ client'[c].state = client[c].state
  BY <1>5, <1>6, <1>8
<1>10. \A d \in Clients : d # c => client'[d] = client[d]
  BY <1>6, <1>8
<1>11. NetTypeOK'
  <2>1. client' \in [Clients -> [state : NetStates, sent : 0 .. MaxSent, unread : 0 .. SocketSize]]
    <3>1. u - n \in 0 .. SocketSize
      BY <1>7
    <3>2. client'[c] \in [state : NetStates, sent : 0 .. MaxSent, unread : 0 .. SocketSize]
      BY <1>6, <1>8, <3>1
    <3> QED BY <1>6, <1>8, <3>2
  <2>2. buf_recv' \in [1 .. window -> Bytes \cup {<<>>}]
    <3>1. ASSUME NEW i \in 1 .. window, i \in g + 1 .. g + n
          PROVE  <<c, s - u + i - g>> \in Bytes
      <4>1. s - u + i - g \in 1 .. MaxSent
        BY <1>7, <3>1
      <4> QED BY <4>1 DEF Bytes
    <3>2. \A i \in 1 .. window : buf_recv[i] \in Bytes \cup {<<>>}
      BY <1>6
    <3>3. buf_recv' = [i \in 1 .. window |->
             IF i \in g + 1 .. g + n THEN <<c, s - u + i - g>> ELSE buf_recv[i]]
      BY <1>3, <1>5, Zenon
    <3> QED BY <3>1, <3>2, <3>3, Zenon
  <2>3. nread' \in 0 .. window
    BY <1>3, <1>7
  <2> QED BY <1>1, <1>4, <2>1, <2>2, <2>3 DEF NetTypeOK, NetStates, Bytes
<1>12. UnreadSent'
  <2>1. u - n <= s
    BY <1>7
  <2> QED BY <1>1, <1>9, <1>10, <2>1 DEF UnreadSent
<1>13. /\ ReadOf(c) = s - u /\ ReadOf(c)' = s - u + n
       /\ \A d \in Clients : d # c => ReadOf(d)' = ReadOf(d)
  <2>1. ReadOf(c)' = s - (u - n)
    BY <1>9 DEF ReadOf
  <2> QED BY <1>5, <1>7, <1>10, <2>1 DEF ReadOf
<1>14. \A j \in DOMAIN data_recv : data_recv[j][1] = c => data_recv[j][2] <= s - u
  BY <1>1, <1>13 DEF FileBehind
<1>15. FileBehind'
  <2>1. SUFFICES ASSUME NEW d \in Clients, NEW j \in DOMAIN data_recv, data_recv[j][1] = d
                 PROVE  data_recv[j][2] <= ReadOf(d)'
    BY <1>4 DEF FileBehind
  <2>2. data_recv[j][2] \in Nat
    BY <1>1, FileTyped
  <2>3. CASE d = c
    <3>1. data_recv[j][2] <= s - u
      BY <1>14, <2>1, <2>3
    <3>2. data_recv[j][2] <= s - u + n
      BY <1>7, <2>2, <3>1
    <3> QED BY <1>13, <2>3, <3>2
  <2>4. CASE d # c
    <3>1. data_recv[j][2] <= ReadOf(d)
      BY <1>1, <2>1 DEF FileBehind
    <3> QED BY <1>13, <2>4, <3>1
  <2> QED BY <2>3, <2>4
<1>16. PieceInHand'
  <2>1. \A i \in 1 .. n : buf_recv'[g + i] = <<c, s - u + i>>
    <3>1. SUFFICES ASSUME NEW i \in 1 .. n PROVE buf_recv'[g + i] = <<c, s - u + i>>
      OBVIOUS
    <3>2. g + i \in 1 .. window /\ g + i \in g + 1 .. g + n /\ s - u + (g + i) - g = s - u + i
      BY <1>7
    <3>3. buf_recv' = [k \in 1 .. window |->
             IF k \in g + 1 .. g + n THEN <<c, s - u + k - g>> ELSE buf_recv[k]]
      BY <1>3, <1>5, Zenon
    <3>4. buf_recv'[g + i] = <<c, s - u + (g + i) - g>>
      BY <3>2, <3>3, Zenon
    <3> QED BY <3>2, <3>4
  <2>2. s - u \in Nat
    BY <1>7
  <2>3. PieceAfter(s - u)'
    <3>1. fd_socket_clnt' = c /\ nread' = n /\ got' = g /\ data_recv' = data_recv
      BY <1>2, <1>3, <1>4, <1>5
    <3>2. (s - u) + n <= s - u + n /\ (s - u) + n = s - u + n
      BY <1>7
    <3> QED BY <1>13, <1>14, <2>1, <3>1, <3>2 DEF PieceAfter, Served
  <2>4. nread' >= 1 /\ got' + nread' <= window
    BY <1>3, <1>4, <1>5, <1>7
  <2> QED BY <2>2, <2>3, <2>4 DEF PieceInHand
<1>17. StreamsKept'
  <2>1. InOrder' /\ write_failed' = write_failed
    BY <1>1, <1>4 DEF StreamsKept, InOrder
  <2>2. ASSUME AllReadKept PROVE AllReadKept'
    <3>1. SUFFICES ASSUME NEW d \in Clients, NEW k \in 1 .. ReadOf(d)',
                          client'[d].state # "reset"
                   PROVE  BeingWritten(d, k)' \/ \E i \in DOMAIN data_recv : data_recv[i] = <<d, k>>
      BY <1>4 DEF AllReadKept, ReadOf
    <3>2. ASSUME k \in 1 .. ReadOf(d), client[d].state # "reset"
          PROVE  \E i \in DOMAIN data_recv : data_recv[i] = <<d, k>>
      <4>1. ~ BeingWritten(d, k)
        BY <1>4 DEF BeingWritten
      <4> QED BY <2>2, <3>2, <4>1 DEF AllReadKept, ReadOf
    <3>3. CASE d # c
      BY <1>10, <1>13, <3>1, <3>2, <3>3
    <3>4. CASE d = c /\ k \in 1 .. s - u
      BY <1>9, <1>13, <3>1, <3>2, <3>4
    <3>5. CASE d = c /\ k \notin 1 .. s - u
      <4>1. k \in 1 .. s - u + n
        BY <1>13, <3>1, <3>5
      <4>2. s - u < k /\ s - u + n - n < k
        BY <1>7, <3>5, <4>1
      <4>3. s - (u - n) - n < k
        BY <1>7, <3>5, <4>1
      <4>6. nread' = n
        BY <1>3, Zenon
      <4>4. client'[c].sent - client'[c].unread - nread' < k
        BY <1>9, <4>3, <4>6, Zenon
      <4>5. BeingWritten(c, k)'
        BY <1>2, <1>4, <4>4 DEF BeingWritten
      <4> QED BY <3>5, <4>5
    <3> QED BY <3>3, <3>4, <3>5
  <2> QED BY <1>1, <1>4, <2>1, <2>2 DEF StreamsKept
<1> QED BY <1>11, <1>12, <1>15, <1>16, <1>17 DEF NetInv
LEMMA FileGrows ==
  ASSUME NEW S, NEW a \in Seq(S), NEW b \in Seq(S)
  PROVE  /\ a \o b \in Seq(S) /\ DOMAIN (a \o b) = 1 .. Len(a) + Len(b)
         /\ \A j \in 1 .. Len(a) : (a \o b)[j] = a[j]
         /\ \A i \in 1 .. Len(b) : (a \o b)[Len(a) + i] = b[i]
<1>6. Len(a) \in Nat /\ Len(b) \in Nat
  OBVIOUS
<1>1. PICK m, n : m = Len(a) /\ n = Len(b) /\ m \in Nat /\ n \in Nat
  BY <1>6, Zenon
<1>2. /\ a \o b \in Seq(S) /\ Len(a \o b) = m + n
      /\ \A i \in 1 .. m + n : (a \o b)[i] = IF i <= m THEN a[i] ELSE b[i - m]
  BY <1>1, ConcatProperties
<1>3. DOMAIN (a \o b) = 1 .. m + n
  BY <1>2
<1>4. \A j \in 1 .. m : j \in 1 .. m + n /\ j <= m
  BY <1>1
<1>5. \A i \in 1 .. n : m + i \in 1 .. m + n /\ ~ (m + i <= m) /\ (m + i) - m = i
  BY <1>1
<1> QED BY <1>1, <1>2, <1>3, <1>4, <1>5

LEMMA WriteKeeps == ASSUME NetInv, NEW n \in 1 .. window, n <= nread, WriteToFile(n) PROVE NetInv'
<1>1. NetTypeOK /\ UnreadSent /\ FileBehind /\ StreamsKept
  BY DEF NetInv
<1>2. PICK c \in Clients : c = fd_socket_clnt
  BY <1>1 DEF NetTypeOK
<1>3. /\ net = "write" /\ data_recv' = data_recv \o PieceRead(n)
      /\ write_failed' = (write_failed \/ n < nread)
      /\ UNCHANGED <<fd_socket_clnt, buf_recv, nread, client, backlog>>
  BY Zenon DEF WriteToFile
<1>4. net' \in {"read", "accept"} /\ got' \in 0 .. window - 1
  <2>1. CASE got + nread < window /\ got' = got + nread /\ net' = "read"
    <3>1. got \in Nat /\ nread \in Nat
      BY <1>1, NetSizes DEF NetTypeOK
    <3> QED BY <2>1, <3>1, NetSizes
  <2>2. CASE got + nread = window /\ ReadnReturns(window)
    BY <2>2, NetSizes DEF ReadnReturns
  <2> QED BY <2>1, <2>2, Zenon DEF WriteToFile
<1>5. PICK f \in Nat : PieceAfter(f)
  BY <1>3 DEF NetInv, PieceInHand
<1>6. PICK g, r : g = got /\ r = nread /\ g \in Nat /\ r \in Nat /\ g + r <= window /\ n \in Nat
                  /\ n <= r /\ 1 <= n /\ window \in Nat
  <2>1. got \in 0 .. window - 1 /\ nread \in 0 .. window /\ got + nread <= window
    BY <1>1, <1>3 DEF NetInv, NetTypeOK, PieceInHand
  <2> QED BY <2>1, NetSizes
<1>7. /\ \A i \in 1 .. r : buf_recv[g + i] = <<c, f + i>>
      /\ f + r <= ReadOf(c)
      /\ client[c].state # "reset" => f + r = ReadOf(c)
      /\ \A j \in DOMAIN data_recv : data_recv[j][1] = c => data_recv[j][2] <= f
  BY <1>2, <1>5, <1>6 DEF PieceAfter, Served
<1>8. PICK m : m = Len(data_recv)
  OBVIOUS
<1>9. data_recv \in Seq(Bytes) /\ m \in Nat /\ DOMAIN data_recv = 1 .. m
      /\ buf_recv \in [1 .. window -> Bytes \cup {<<>>}]
  BY <1>1, <1>8, FileTyped DEF NetTypeOK
\* The piece that comes to the file.
<1>10. /\ PieceRead(n) \in Seq(Bytes) /\ Len(PieceRead(n)) = n
       /\ \A i \in 1 .. n : PieceRead(n)[i] = <<c, f + i>>
  <2>1. \A i \in 1 .. n : g + i \in 1 .. window /\ i \in 1 .. r
    BY <1>6
  <2>2. \A i \in 1 .. n : buf_recv[g + i] \in Bytes
    <3>1. SUFFICES ASSUME NEW i \in 1 .. n PROVE buf_recv[g + i] \in Bytes
      OBVIOUS
    <3>2. buf_recv[g + i] \in Bytes \cup {<<>>} /\ buf_recv[g + i] = <<c, f + i>>
      BY <1>7, <1>9, <2>1
    <3>3. <<c, f + i>> # <<>>
      OBVIOUS
    <3> QED BY <3>2, <3>3
  <2>3. PieceRead(n) = [i \in 1 .. n |-> buf_recv[g + i]]
    <3>1. PieceRead(n) = SubSeq(buf_recv, g + 1, g + n)
      BY <1>6, Zenon DEF PieceRead
    <3>2. SubSeq(buf_recv, g + 1, g + n) = [i \in 1 .. (g + n) - (g + 1) + 1 |-> buf_recv[i + (g + 1) - 1]]
      BY <1>6
    <3>3. (g + n) - (g + 1) + 1 = n /\ \A i \in 1 .. n : i + (g + 1) - 1 = g + i
      BY <1>6
    <3> QED BY <3>1, <3>2, <3>3
  <2> HIDE DEF PieceRead
  <2>4. \A i \in 1 .. n : PieceRead(n)[i] = buf_recv[g + i]
    BY <2>3
  <2>5. PieceRead(n) \in Seq(Bytes) /\ Len(PieceRead(n)) = n
    BY <1>6, <2>2, <2>3
  <2> QED BY <1>7, <2>1, <2>4, <2>5
<1>11. PICK piece \in Seq(Bytes) : piece = PieceRead(n)
  BY <1>10
<1>12. /\ data_recv' = data_recv \o piece /\ data_recv' \in Seq(Bytes)
       /\ DOMAIN data_recv' = 1 .. m + n
       /\ \A j \in 1 .. m : data_recv'[j] = data_recv[j]
       /\ \A i \in 1 .. n : data_recv'[m + i] = <<c, f + i>>
  <2>1. Len(piece) = n /\ \A i \in 1 .. n : piece[i] = <<c, f + i>>
    BY <1>10, <1>11
  <2>2. data_recv' = data_recv \o piece
    BY <1>3, <1>11
  <2>3. /\ data_recv \o piece \in Seq(Bytes) /\ DOMAIN (data_recv \o piece) = 1 .. m + n
        /\ \A j \in 1 .. m : (data_recv \o piece)[j] = data_recv[j]
        /\ \A i \in 1 .. n : (data_recv \o piece)[m + i] = piece[i]
    <3>1. data_recv \in Seq(Bytes) /\ Len(data_recv) = m /\ Len(piece) = n
      BY <1>8, <1>9, <2>1
    <3>2. piece \in Seq(Bytes)
      OBVIOUS
    <3>3. /\ data_recv \o piece \in Seq(Bytes)
          /\ DOMAIN (data_recv \o piece) = 1 .. Len(data_recv) + Len(piece)
          /\ \A j \in 1 .. Len(data_recv) : (data_recv \o piece)[j] = data_recv[j]
          /\ \A i \in 1 .. Len(piece) : (data_recv \o piece)[Len(data_recv) + i] = piece[i]
      <4>1. data_recv \in Seq(Bytes)
        BY <3>1
      <4> QED BY <3>2, <4>1, FileGrows, SMTT(30)
    <3> QED BY <3>1, <3>3, Zenon
  <2> QED BY <2>1, <2>2, <2>3
\* A place in the file is an old one or one of the piece.
<1>13. \A j \in DOMAIN data_recv' :
         j \in 1 .. m \/ \E i \in 1 .. n : j = m + i
  <2>1. SUFFICES ASSUME NEW j \in 1 .. m + n, j \notin 1 .. m PROVE \E i \in 1 .. n : j = m + i
    BY <1>12
  <2>2. j - m \in 1 .. n /\ j = m + (j - m)
    BY <1>6, <1>9, <2>1
  <2> QED BY <2>2
<1>14. \A i \in 1 .. n : <<c, f + i>>[1] = c /\ <<c, f + i>>[2] = f + i
  OBVIOUS
<1>15. NetTypeOK'
  BY <1>1, <1>3, <1>4, <1>12 DEF NetTypeOK, Bytes
<1>16. UnreadSent' /\ PieceInHand'
  BY <1>1, <1>3, <1>4 DEF UnreadSent, PieceInHand
<1>17. \A d \in Clients : ReadOf(d)' = ReadOf(d) /\ ReadOf(d) \in Int
  BY <1>1, <1>3, ClientTyped DEF ReadOf
<1>18. FileBehind'
  <2>1. SUFFICES ASSUME NEW d \in Clients, NEW j \in DOMAIN data_recv', data_recv'[j][1] = d
                 PROVE  data_recv'[j][2] <= ReadOf(d)
    BY <1>17 DEF FileBehind
  <2>2. CASE j \in 1 .. m
    <3>1. data_recv'[j] = data_recv[j] /\ j \in DOMAIN data_recv
      BY <1>9, <1>12, <2>2
    <3> QED BY <1>1, <2>1, <3>1 DEF FileBehind
  <2>3. ASSUME NEW i \in 1 .. n, j = m + i PROVE data_recv'[j][2] <= ReadOf(d)
    <3>1. data_recv'[j][1] = c /\ data_recv'[j][2] = f + i
      BY <1>12, <1>14, <2>3
    <3>2. f + i <= ReadOf(c)
      BY <1>6, <1>7, <1>17
    <3> QED BY <2>1, <3>1, <3>2
  <2> QED BY <1>13, <2>2, <2>3
<1>19. InOrder'
  <2>1. SUFFICES ASSUME NEW i \in DOMAIN data_recv', NEW j \in DOMAIN data_recv',
                        i < j, data_recv'[i][1] = data_recv'[j][1]
                 PROVE  data_recv'[i][2] < data_recv'[j][2]
    BY DEF InOrder
  <2>2. CASE i \in 1 .. m /\ j \in 1 .. m
    <3>1. data_recv'[i] = data_recv[i] /\ data_recv'[j] = data_recv[j]
      BY <1>12, <2>2
    <3> QED BY <1>1, <1>9, <2>1, <2>2, <3>1 DEF StreamsKept, InOrder
  <2>3. ASSUME i \in 1 .. m, NEW k \in 1 .. n, j = m + k PROVE data_recv'[i][2] < data_recv'[j][2]
    <3>1. data_recv'[i] = data_recv[i] /\ data_recv'[j][1] = c /\ data_recv'[j][2] = f + k
      BY <1>12, <1>14, <2>3
    <3>2. data_recv[i][2] <= f /\ data_recv[i][2] \in Nat
      BY <1>1, <1>7, <1>9, <2>1, <2>3, <3>1, FileTyped
    <3>3. data_recv[i][2] < f + k
      BY <3>2
    <3> QED BY <3>1, <3>3
  <2>4. ASSUME NEW h \in 1 .. n, i = m + h, NEW k \in 1 .. n, j = m + k
        PROVE  data_recv'[i][2] < data_recv'[j][2]
    <3>1. data_recv'[i][2] = f + h /\ data_recv'[j][2] = f + k
      BY <1>12, <1>14, <2>4
    <3>2. f + h < f + k
      BY <1>9, <2>1, <2>4
    <3> QED BY <3>1, <3>2
  <2>5. ASSUME NEW h \in 1 .. n, i = m + h, j \in 1 .. m PROVE FALSE
    BY <1>9, <2>1, <2>5
  <2> QED BY <1>13, <2>2, <2>3, <2>4, <2>5
<1>20. ASSUME AllReadKept, ~ write_failed' PROVE AllReadKept'
  <2>3. ~ (n < nread)
    BY <1>3, <1>20, Zenon
  <2>1. n = r
    BY <1>6, <2>3
  <2>2. SUFFICES ASSUME NEW d \in Clients, NEW k \in 1 .. ReadOf(d), client[d].state # "reset"
                 PROVE  \E i \in DOMAIN data_recv' : data_recv'[i] = <<d, k>>
    BY <1>3, <1>17 DEF AllReadKept, ReadOf
  <2>5. CASE \E i \in DOMAIN data_recv : data_recv[i] = <<d, k>>
    <3>1. PICK i \in 1 .. m : data_recv[i] = <<d, k>>
      BY <1>9, <2>5
    <3>2. i \in 1 .. m + n
      BY <1>6, <1>9
    <3> QED BY <1>12, <3>1, <3>2
  <2>4. CASE BeingWritten(d, k)
    <3>1. d = c /\ ReadOf(c) - r < k /\ f + r = ReadOf(c)
      BY <1>2, <1>6, <1>7, <2>2, <2>4 DEF BeingWritten, ReadOf
    <3>2. k \in 1 .. ReadOf(c)
      BY <2>2, <3>1
    <3>3. k - f \in 1 .. n /\ k = f + (k - f)
      BY <1>6, <1>17, <2>1, <3>1, <3>2
    <3>4. m + (k - f) \in 1 .. m + n
      BY <1>6, <1>9, <3>3
    <3>5. data_recv'[m + (k - f)] = <<c, k>>
      BY <1>12, <3>3
    <3> QED BY <1>12, <3>1, <3>4, <3>5
  <2> QED BY <1>20, <2>2, <2>5, <2>4 DEF AllReadKept, ReadOf
<1>21. StreamsKept'
  BY <1>1, <1>3, <1>19, <1>20 DEF StreamsKept
<1> QED BY <1>15, <1>16, <1>18, <1>21 DEF NetInv

LEMMA NetInvInductive == NetInv /\ [NetNext]_netVars => NetInv'
<1> SUFFICES ASSUME NetInv, [NetNext]_netVars PROVE NetInv'
  OBVIOUS
<1>1. CASE UNCHANGED netVars
  BY <1>1 DEF netVars, NetInv, NetTypeOK, UnreadSent, FileBehind, ReadOf, PieceInHand, PieceAfter,
              Served, StreamsKept, InOrder, AllReadKept, BeingWritten
<1>2. CASE ReceiveThread
  BY <1>2, AcceptKeeps, ReadKeepsStreams, EndKeeps, WriteErrorKeeps, WriteKeeps, Zenon
  DEF ReceiveThread
<1>3. CASE StopServer
  BY <1>3, StopServerKeeps
<1>4. CASE \E c \in Clients : ConnectTo(c) \/ SendByte(c) \/ StopClient(c) \/ ResetConnection(c)
  BY <1>4, ClientKeeps, Zenon
<1> QED BY <1>1, <1>2, <1>3, <1>4, Zenon DEF NetNext

\* net_srv: the bytes of every client are in the file in the order they were sent, and of those
\* read by the server none is missing but the piece being written, wherever the windows, the
\* reads and the client's end cut the stream.
THEOREM StreamsRecorded == NetSpec => []StreamsKept
<1>1. NetInv => StreamsKept
  BY DEF NetInv
<1> QED BY NetInitInv, NetInvInductive, <1>1, PTL DEF NetSpec

\* Every variable of the server and its clients keeps its type.
LEMMA NetTypesKept == NetSpec => []NetTypeOK
<1>1. NetInv => NetTypeOK
  BY DEF NetInv
<1> QED BY NetInitInv, NetInvInductive, <1>1, PTL DEF NetSpec

-----------------------------------------------------------------------------
(* All of them: one program runs, the others stay off. *)

\* A step of the composition is a step or a stutter of each program.
LEMMA BenchSteps ==
  ASSUME [Next]_vars
  PROVE  /\ [CondtestNext]_condtestVars /\ [ReaderNext]_readerVars
         /\ [WriterNext]_writerVars /\ [FifoNext]_fifoVars
         /\ [PlaybackNext]_playbackVars /\ [MuxNext]_muxVars
         /\ [VsyncNext]_vsyncVars /\ [NetNext]_netVars
BY Zenon DEF Next, vars

\* Each program starts or is off.
LEMMA BenchStarts ==
  ASSUME Init
  PROVE  /\ CondtestInit \/ CondtestOff
         /\ ReaderInit \/ ReaderOff
         /\ WriterInit \/ WriterOff
         /\ FifoInit \/ FifoOff
         /\ PlaybackInit \/ PlaybackOff
         /\ MuxInit \/ MuxOff
         /\ VsyncInit \/ VsyncOff
         /\ NetInit \/ NetOff
BY Zenon DEF Init

\* A program that is off does nothing.
LEMMA WriterStaysOff == WriterOff /\ [WriterNext]_writerVars => WriterOff'
<1> SUFFICES ASSUME WriterOff, [WriterNext]_writerVars PROVE WriterOff'
  OBVIOUS
<1>1. ~ WriterNext
  BY DEF WriterOff, WriterNext, WriteBits, WriteByte
<1>2. UNCHANGED writerVars
  BY <1>1, Zenon
<1> QED BY <1>2, Zenon DEF WriterOff, writerVars

LEMMA FifoStaysOff == FifoOff /\ [FifoNext]_fifoVars => FifoOff'
<1> SUFFICES ASSUME FifoOff, [FifoNext]_fifoVars PROVE FifoOff'
  OBVIOUS
<1>1. feeder = "off" /\ frames = <<>>
  BY Zenon DEF FifoOff, FifoStart
<1>2. ~ FifoNext
  BY <1>1 DEF FifoNext, NextFrame, RequestBitsFifo, RequestFails, CopyToBsb, UdecDecode,
              UdecDecodeFails, FeedAgain, Consume
<1>3. UNCHANGED fifoVars
  BY <1>2, Zenon
<1> QED BY <1>3, Zenon DEF FifoOff, FifoStart, fifoVars

LEMMA PlaybackStaysOff == PlaybackOff /\ [PlaybackNext]_playbackVars => PlaybackOff'
<1> SUFFICES ASSUME PlaybackOff, [PlaybackNext]_playbackVars PROVE PlaybackOff'
  OBVIOUS
<1>1. menu = "off" /\ task = "none" /\ unread = <<>>
  BY Zenon DEF PlaybackOff, PlaybackStart
<1>2. ~ PlaybackNext
  BY <1>1 DEF PlaybackNext, Start, PauseOrResume, DestroyDecodeTask, FinishDestroy, Joined,
              TaskStep, WaitBsb, WaitFails, CopyFrame, FillEos, EndTask, DecoderReads
<1>3. UNCHANGED playbackVars
  BY <1>2, Zenon
<1> QED BY <1>3, Zenon DEF PlaybackOff, PlaybackStart, playbackVars

\* What the muxer is when it is off.
MuxIsOff ==
  /\ muxer = "off" /\ frame_no = 0 /\ video.frames = <<>>
  /\ {curPos, VPacketCnt, IdrPacketCnt, SpsPps_pos, spsPps.size, spsPps.skip} \subseteq Nat
  /\ idx = <<>> /\ DOMAIN cur_fpos = {"ctts", "stsz", "stco"}

LEMMA MuxStaysOff == MuxIsOff /\ [MuxNext]_muxVars => MuxIsOff'
<1> SUFFICES ASSUME MuxIsOff, [MuxNext]_muxVars PROVE MuxIsOff'
  OBVIOUS
<1>1. ~ MuxNext
  BY DEF MuxIsOff, MuxNext, SkipFrame, ProcessVideoData, Stop
<1>2. UNCHANGED muxVars
  BY <1>1, Zenon
<1> QED BY <1>2, Zenon DEF MuxIsOff, muxVars

LEMMA MuxOffTyped == MuxOff => MuxIsOff
<1> SUFFICES ASSUME MuxOff PROVE MuxIsOff
  OBVIOUS
<1>1. /\ muxer = "off" /\ frame_no = 0
      /\ video = [M |-> 1, N |-> 1, idr_interval |-> 1, frame_cnt |-> 0, frames |-> <<>>]
      /\ curPos = MediaData + 8 /\ VPacketCnt = 0 /\ IdrPacketCnt = 0
      /\ spsPps = [size |-> 0, skip |-> 0]
      /\ SpsPps_pos = FileTypeBox_SIZE + MovieBox_SIZE(0, 0, 0) + 8
      /\ idx = <<>> /\ cur_fpos = fpos
  BY Zenon DEF MuxOff, MuxStart
<1>2. MaxIdrPacketCnt = 1
  BY <1>1 DEF MaxIdrPacketCnt
<1>3. video.frame_cnt = 0 /\ video.frames = <<>>
  BY <1>1
<1>4. MediaData \in Nat /\ SpsPps_pos \in Nat
  <2>1. PICK m \in Nat : m = MovieBox_SIZE(0, 1, 0)
    BY DEF MovieBox_SIZE, VideoTrackBox_SIZE, VideoMediaBox_SIZE, VideoMediaInformationBox_SIZE,
           VideoSampleTableBox_SIZE, CompositionTimeToSampleBox_SIZE
  <2>2. FileHeader_MAXSIZE = 24 + m + 144
    BY <1>2, <1>3, <2>1 DEF FileHeader_MAXSIZE, FileTypeBox_SIZE, EmptyFreeSpaceBox_SIZE
  <2>3. MediaData \in Nat
    BY <2>1, <2>2 DEF MediaData, FreeSpaceSize, FileTypeBox_SIZE
  <2>4. MovieBox_SIZE(0, 0, 0) \in Nat
    BY DEF MovieBox_SIZE, VideoTrackBox_SIZE, VideoMediaBox_SIZE, VideoMediaInformationBox_SIZE,
           VideoSampleTableBox_SIZE, CompositionTimeToSampleBox_SIZE
  <2> QED BY <1>1, <2>3, <2>4 DEF FileTypeBox_SIZE
<1>5. DOMAIN cur_fpos = {"ctts", "stsz", "stco"}
  BY <1>1 DEF fpos
<1> QED BY <1>1, <1>3, <1>4, <1>5 DEF MuxIsOff

\* Each program keeps its invariant, or is off and stays off.
BenchInv ==
  /\ LatchInv /\ ReaderKept
  /\ WriterInv \/ WriterOff
  /\ FedInv \/ FifoOff
  /\ PlaybackInv \/ PlaybackOff
  /\ MuxKept \/ MuxIsOff
  /\ VsyncInv /\ NetInv

LEMMA BenchInitInv == Init => BenchInv
<1> SUFFICES ASSUME Init PROVE BenchInv
  OBVIOUS
<1>1. CondtestOff => LatchInv
  BY CountValues, Zenon
  DEF CondtestOff, LatchInv, CondtestTypeOK, NoSignalLost, SignalKept, CountTellsWaiter
<1>2. CondtestInit => LatchInv
  BY LatchInitInv
<1>3. NetOff \/ NetInit => NetInv
  BY NetInitInv
<1> QED BY <1>1, <1>2, <1>3, BenchStarts, ReaderKeptInit, WriterInitInv, FedInvInit,
           PlaybackInitInv, MuxKeptInit, MuxOffTyped, VsyncInitInv, Zenon DEF BenchInv

LEMMA BenchInvInductive ==
  bsb_size <= Numbers /\ BenchInv /\ [Next]_vars => BenchInv'
<1> SUFFICES ASSUME bsb_size <= Numbers, BenchInv, [Next]_vars PROVE BenchInv'
  OBVIOUS
<1>1. (LatchInv /\ ReaderKept)'
  BY BenchSteps, LatchInvInductive, ReaderKeptInductive, Zenon DEF BenchInv
<1>2. (WriterInv \/ WriterOff)'
  BY BenchSteps, WriterInvInductive, WriterStaysOff, Zenon DEF BenchInv
<1>3. (FedInv \/ FifoOff)'
  BY BenchSteps, FedInvInductive, FifoStaysOff, Zenon DEF BenchInv
<1>4. (PlaybackInv \/ PlaybackOff)'
  BY BenchSteps, PlaybackInvInductive, PlaybackStaysOff, Zenon DEF BenchInv
<1>5. (MuxKept \/ MuxIsOff)'
  BY BenchSteps, MuxKeptInductive, MuxStaysOff, Zenon DEF BenchInv
<1>6. (VsyncInv /\ NetInv)'
  BY BenchSteps, VsyncInvInductive, NetInvInductive, Zenon DEF BenchInv
<1> QED BY <1>1, <1>2, <1>3, <1>4, <1>5, <1>6, Zenon DEF BenchInv

\* What a program that is off has to do with the properties of the others.
LEMMA OffIsSafe ==
  /\ WriterOff => WriterTypeOK /\ HeadersWritten
  /\ FifoOff => FifoTypeOK /\ FramesIntact
  /\ PlaybackOff => PlaybackTypeOK /\ BsbNotOverrun
  /\ MuxIsOff => MuxTypeOK /\ Mp4FileSound
<1>1. WriterOff => WriterTypeOK /\ HeadersWritten
  <2> SUFFICES ASSUME WriterOff PROVE WriterTypeOK /\ HeadersWritten
    OBVIOUS
  <2>1. /\ header = "off" /\ bits = 0 /\ left_bits = 8 /\ left_bytes = 0 /\ full = FALSE
        /\ buffer = <<>>
    BY Zenon DEF WriterOff
  <2>2. DOMAIN buffer = {}
    BY <2>1
  <2>3. WriterTypeOK
    <3>1. 0 \in 0 .. 32 /\ 8 \in 0 .. 8 /\ 0 \in 0 .. 24
      OBVIOUS
    <3> QED BY <2>1, <3>1, Zenon DEF WriterTypeOK
  <2>4. BitsInPlace
    BY <2>2, Zenon DEF BitsInPlace
  <2>5. HeaderFilled
    BY <2>1, Zenon DEF HeaderFilled
  <2>6. NumbersWhole
    BY <2>1, Zenon DEF NumbersWhole
  <2> QED BY <2>3, <2>4, <2>5, <2>6, Zenon DEF HeadersWritten
<1>2. FifoOff => FifoTypeOK /\ FramesIntact
  <2> SUFFICES ASSUME FifoOff PROVE FifoTypeOK /\ FramesIntact
    OBVIOUS
  <2>1. /\ p_bsb_cur = 0 /\ feeder = "off" /\ written = 0 /\ frames = <<>>
    BY Zenon DEF FifoOff, FifoStart
  <2>2. 0 \in 0 .. bsb_size
    BY BitsFifoAssumption
  <2>3. DOMAIN frames = {}
    BY <2>1
  <2> QED BY <2>1, <2>2, <2>3, Zenon DEF FifoTypeOK, FramesIntact
<1>3. PlaybackOff => PlaybackTypeOK /\ BsbNotOverrun
  <2> SUFFICES ASSUME PlaybackOff PROVE PlaybackTypeOK /\ BsbNotOverrun
    OBVIOUS
  <2>1. /\ recording = <<>> /\ menu = "off" /\ decode_task_exit_flag = FALSE /\ task = "none"
        /\ frame_index = 0 /\ repeat = 0 /\ unread = <<>> /\ paused = FALSE
    BY Zenon DEF PlaybackOff, PlaybackStart
  <2>2. BsbUsed = 0
    BY <2>1, Zenon DEF BsbUsed
  <2>3. BsbNotOverrun
    BY <2>2, RingSizes DEF BsbNotOverrun
  <2>4. 0 \in 0 .. Len(recording) /\ 0 \in 0 .. 2
    BY <2>1
  <2> QED BY <2>1, <2>3, <2>4, Zenon DEF PlaybackTypeOK
<1>4. MuxIsOff => MuxTypeOK /\ Mp4FileSound
  <2> SUFFICES ASSUME MuxIsOff PROVE MuxTypeOK /\ Mp4FileSound
    OBVIOUS
  <2>1. Len(idx) = 0 /\ 0 < IDX_SIZE /\ Len(video.frames) = 0
    BY MuxAssumption DEF MuxIsOff
  <2> QED BY <2>1 DEF MuxIsOff, MuxTypeOK, Mp4FileSound
<1> QED BY <1>1, <1>2, <1>3, <1>4

LEMMA BenchInvMeans ==
  BenchInv => /\ TypeOK /\ NoSignalLost /\ WholeFramesFed /\ HeadersWritten
              /\ FramesIntact /\ BsbNotOverrun /\ Mp4FileSound
<1> SUFFICES ASSUME BenchInv
             PROVE  /\ TypeOK /\ NoSignalLost /\ WholeFramesFed /\ HeadersWritten
                    /\ FramesIntact /\ BsbNotOverrun /\ Mp4FileSound
  OBVIOUS
<1>1. CondtestTypeOK /\ NoSignalLost
  BY DEF BenchInv, LatchInv
<1>2. ReaderTypeOK /\ WholeFramesFed
  BY ReaderTyped, ReaderInvMeans, Zenon DEF BenchInv
<1>3. WriterTypeOK /\ HeadersWritten
  BY OffIsSafe, WriterInvTyped, PlacedBits, FilledHeader, WholeNumbers, Zenon
  DEF BenchInv, HeadersWritten
<1>4. FifoTypeOK /\ FramesIntact
  <2>1. FedInv => FifoTypeOK
    BY Zenon DEF FedInv, FifoTypes
  <2>2. FedInv => FramesIntact
    BY InvIntact, Zenon DEF FedInv, FramesIntact
  <2> QED BY <2>1, <2>2, OffIsSafe, Zenon DEF BenchInv
<1>5. PlaybackTypeOK /\ BsbNotOverrun
  BY OffIsSafe, Zenon DEF BenchInv, PlaybackInv, RoomLeft, BsbNotOverrun
<1>6. MuxTypeOK /\ Mp4FileSound
  BY OffIsSafe, MuxKeptSound, Zenon DEF BenchInv
<1>7. VsyncTypeOK /\ NetTypeOK
  BY Zenon DEF BenchInv, VsyncInv, NetInv
<1> QED BY <1>1, <1>2, <1>3, <1>4, <1>5, <1>6, <1>7, Zenon DEF TypeOK

\* The composition of the small programs, for all values of their constants: whichever of
\* them runs, every variable has its type, condtest loses no signal, mudec's reader feeds
\* whole frames, its headers hold every bit, its ring keeps what the decoder has not read,
\* test_playback's does not overrun and the file of test_mp4mux is sound.
THEOREM BenchSafe ==
  ASSUME bsb_size <= Numbers
  PROVE  Spec => [](/\ TypeOK /\ NoSignalLost /\ WholeFramesFed /\ HeadersWritten
                    /\ FramesIntact /\ BsbNotOverrun /\ Mp4FileSound)
<1>1. BenchInv /\ [Next]_vars => BenchInv'
  BY BenchInvInductive
<1> QED BY <1>1, BenchInitInv, BenchInvMeans, PTL DEF Spec
=============================================================================
