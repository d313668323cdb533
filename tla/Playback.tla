------------------------------- MODULE Playback -------------------------------
(***************************************************************************)
(* test_playback.c: the menu of do_decode_h264 starts, restarts, pauses    *)
(* and ends a thread decode_h264 that copies the frames of a file into the *)
(* decoder's ring of bytes (BSB).  The thread looks at                     *)
(* decode_task_exit_flag only when it has copied a frame and when it is    *)
(* done, and destroy_decode_task stops the decoder only after the join.    *)
(* SIGINT, SIGQUIT and SIGTERM run destroy_decode_task in the main thread, *)
(* inside the destroy_decode_task of the menu too.  /dev/iav is opened for *)
(* blocking calls: EAGAIN, which the code takes for room, does not occur.  *)
(***************************************************************************)
EXTENDS Integers, Sequences, SequencesExt

CONSTANTS
  bsb_mem_size,
  GOP_HEADER_SIZE, EosSize,
  Recordings            \* the files: sequences of [size |-> bytes, idr |-> BOOLEAN]

\* The end code, copied without asking for room, is shorter than a GOP header.
ASSUME PlaybackAssumption ==
  /\ {bsb_mem_size, GOP_HEADER_SIZE, EosSize} \subseteq Nat
  /\ EosSize <= GOP_HEADER_SIZE
  /\ Recordings \subseteq Seq([size : Nat, idr : BOOLEAN]) \ {<<>>}

VARIABLES
  recording, repeat_times,
  menu,         \* main: "off", "keys", "R" and "q" in a join, "sigstop" in the handler's, "ended"
  decode_task_exit_flag,
  task,         \* the thread: "none", "wait", "copy", "eos", "error_exit", "ended"
  frame_index, repeat,
  unread,       \* what the decoder was given and has not read yet: where each frame and
                \* end code ends, counted from the first byte that is not read
  paused        \* IAV_IOC_DECODE_PAUSE

playbackVars == <<recording, repeat_times, menu, decode_task_exit_flag, task,
                  frame_index, repeat, unread, paused>>

PlaybackStart(file, times, main) ==
  /\ recording = file /\ repeat_times = times /\ menu = main
  /\ decode_task_exit_flag = FALSE /\ task = "none"
  /\ frame_index = 0 /\ repeat = 0 /\ unread = <<>> /\ paused = FALSE

PlaybackOff == PlaybackStart(<<>>, 0, "off")
PlaybackInit == \E file \in Recordings, times \in 0 .. 2 : PlaybackStart(file, times, "keys")

\* create_decode_task: a thread whose id is not cleared yet is not started again.
CreateAlways(old) == "wait"                                              \* mutant
CreateDecodeTask(old) == IF old = "none" THEN "wait" ELSE old

Start ==
  /\ menu = "keys"
  /\ decode_task_exit_flag' = FALSE
  /\ task' = CreateDecodeTask(task)
  /\ IF task = "none" THEN frame_index' = 0 /\ repeat' = repeat_times
                      ELSE UNCHANGED <<frame_index, repeat>>
  /\ UNCHANGED <<recording, repeat_times, menu, unread, paused>>

\* The ioctl of p or r: when it fails main returns and the thread dies with it.
PauseOrResume ==
  /\ menu = "keys"
  /\ \/ \E p \in BOOLEAN : paused' = p /\ UNCHANGED <<menu, task>>
     \/ menu' = "ended" /\ task' = "none" /\ UNCHANGED paused
  /\ UNCHANGED <<recording, repeat_times, decode_task_exit_flag, frame_index, repeat, unread>>

\* destroy_decode_task up to the join, for R, q and the three signals.
DestroyDecodeTask ==
  /\ \/ menu = "keys" /\ menu' \in {"R", "q", "sigstop"}
     \/ menu \in {"R", "q"} /\ menu' = "sigstop"
  /\ decode_task_exit_flag' = TRUE
  /\ UNCHANGED <<recording, repeat_times, task, frame_index, repeat, unread, paused>>

\* From the return of pthread_join on: IAV_IOC_STOP_DECODE, and for R the new thread.
Joined == menu \in {"R", "q", "sigstop"} /\ task \in {"none", "ended"}

FinishDestroy ==
  /\ Joined
  /\ unread' = <<>> /\ paused' = FALSE
  /\ decode_task_exit_flag' = FALSE
  /\ IF menu = "R"
       THEN menu' = "keys" /\ task' = "wait" /\ frame_index' = 0 /\ repeat' = repeat_times
       ELSE menu' = "ended" /\ task' = "none" /\ UNCHANGED <<frame_index, repeat>>
  /\ UNCHANGED <<recording, repeat_times>>

\* read_file of the frame's size, and IAV_IOC_WAIT_DECODER
Frame == recording[frame_index + 1]
RequestFrame(frame) == frame.size                                        \* mutant
Request(frame) == frame.size + GOP_HEADER_SIZE

BsbUsed == IF unread = <<>> THEN 0 ELSE Last(unread)
BsbHasRoom == BsbUsed + Request(Frame) <= bsb_mem_size

WaitBsb ==
  /\ task = "wait" /\ BsbHasRoom
  /\ task' = "copy"
  /\ UNCHANGED <<recording, repeat_times, menu, decode_task_exit_flag, frame_index,
                 repeat, unread, paused>>

WaitFails ==
  /\ task = "wait"
  /\ task' = "error_exit"
  /\ UNCHANGED <<recording, repeat_times, menu, decode_task_exit_flag, frame_index,
                 repeat, unread, paused>>

NeverTold == TRUE                                                        \* mutant
MayDecode == ~ decode_task_exit_flag

\* fill_gop_header, the frame, decode_frame
CopyFrame ==
  /\ task = "copy"
  /\ \/ /\ MayDecode
        /\ unread' = Append(unread, BsbUsed + Frame.size + (IF Frame.idr THEN GOP_HEADER_SIZE ELSE 0))
        /\ frame_index' = frame_index + 1
        /\ task' = IF frame_index' = Len(recording) THEN "eos" ELSE "wait"
     \/ task' = "error_exit" /\ UNCHANGED <<unread, frame_index>>
  /\ UNCHANGED <<recording, repeat_times, menu, decode_task_exit_flag, repeat, paused>>

\* fill_eos and decode_frame, then the next round; repeat = 0 means for ever.
FillEos ==
  /\ task = "eos"
  /\ \/ /\ unread' = Append(unread, BsbUsed + EosSize)
        /\ repeat' = IF repeat > 0 THEN repeat - 1 ELSE 0
        /\ task' = IF repeat = 1 THEN "error_exit" ELSE "wait"
     \/ task' = "error_exit" /\ UNCHANGED <<unread, repeat>>
  /\ frame_index' = 0
  /\ UNCHANGED <<recording, repeat_times, menu, decode_task_exit_flag, paused>>

\* The thread ends only when it is told to.
EndTask ==
  /\ task = "error_exit" /\ decode_task_exit_flag
  /\ task' = "ended"
  /\ UNCHANGED <<recording, repeat_times, menu, decode_task_exit_flag, frame_index,
                 repeat, unread, paused>>

\* The decoder, outside src/.
DecoderReads ==
  /\ unread # <<>> /\ ~ paused /\ menu # "ended"
  /\ unread' = [i \in 1 .. Len(unread) - 1 |-> unread[i + 1] - unread[1]]
  /\ UNCHANGED <<recording, repeat_times, menu, decode_task_exit_flag, task,
                 frame_index, repeat, paused>>

TaskStep == WaitBsb \/ WaitFails \/ CopyFrame \/ FillEos \/ EndTask

PlaybackNext == Start \/ PauseOrResume \/ DestroyDecodeTask \/ FinishDestroy
                \/ TaskStep \/ DecoderReads

PlaybackFairness ==
  /\ WF_playbackVars(WaitBsb \/ CopyFrame \/ FillEos \/ EndTask)
  /\ WF_playbackVars(FinishDestroy)
  /\ WF_playbackVars(DecoderReads)

-----------------------------------------------------------------------------

\* Every variable has its type.
PlaybackTypeOK ==
  /\ menu \in {"off", "keys", "R", "q", "sigstop", "ended"}
  /\ task \in {"none", "wait", "copy", "eos", "error_exit", "ended"}
  /\ frame_index \in 0 .. Len(recording) /\ repeat \in 0 .. 2
  /\ decode_task_exit_flag \in BOOLEAN /\ paused \in BOOLEAN

\* A frame, its GOP header and the end code never run over bytes of the ring that the
\* decoder has not read, whatever the sizes, the order of IDR frames and the repeats.  Only
\* the end code of a file that ends with an IDR frame may: the GOP header took the room
\* that was asked for it.  The next frame waits until the ring holds it all again.
BsbNotOverrun ==
  \/ BsbUsed <= bsb_mem_size
  \/ Last(recording).idr /\ frame_index = 0 /\ BsbUsed <= bsb_mem_size + EosSize

\* A thread begins at the start of the ring, so it is started only when the decoder
\* holds nothing of an earlier one and that one is joined.
RingFreshForTask ==
  [][task' = "wait" /\ task \in {"none", "ended", "error_exit"} =>
       unread' = <<>> /\ task # "error_exit"]_playbackVars

\* q and the signals end the program, unless the decoder is paused with its ring too
\* full for the next frame, or the frame is larger than the ring: then the thread may
\* never leave its wait.
NeverRoom == paused \/ Request(Frame) > bsb_mem_size
PlaybackEnds ==
  menu \in {"q", "sigstop"} ~> menu = "ended" \/ (task = "wait" /\ ~ BsbHasRoom /\ NeverRoom)
=============================================================================
