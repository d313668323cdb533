-------------------------------- MODULE Mudec --------------------------------
(***************************************************************************)
(* mudec.c: one main thread that executes the operator's commands and one  *)
(* udec_instance thread per stream that feeds a file to a decoder of the   *)
(* DSP.  Streams 0 .. sds-1 are the small windows, sds .. sds+hds-1 the    *)
(* full-screen ones.                                                       *)
(*                                                                         *)
(* Main talks to the threads through their cmd_queue, a bounded FIFO       *)
(* (module MsgQueue shows that msg_queue_t is one), and to the decoders    *)
(* through ioctls.  A command is a fixed list of queue puts, ioctls and    *)
(* assignments to main's own variables, made one after the other while the *)
(* threads and the DSP run: todo is what is left of that list.             *)
(***************************************************************************)
EXTENDS Integers, Sequences, FiniteSets, SequencesExt

CONSTANTS
  sds, hds,               \* how many small and how many full-screen streams
  MAX_MSGS,               \* capacity of a cmd_queue
  FifoFrames,             \* frames that fit in a decoder's bits fifo
  FileFrames,             \* frames in a file; 0 is an empty file
  mdec_loop,              \* --loop: start the file again at its end
  first_show_hd_stream,
  test_feed_background,   \* all streams are fed all the time
  Commands,               \* what the operator types
  MaxCmds,                \* bound on how many commands are typed
  Signals,                \* SIGINT, SIGQUIT or SIGTERM may arrive
  IoctlsMayFail           \* creating a decoder, IAV_IOC_UDEC_DECODE, a stream switch
                          \* and the wait for one may fail

total_num == sds + hds
Udecs == 0 .. total_num - 1
Sd == 0 .. sds - 1
Hd == sds .. total_num - 1
Renders == 0 .. total_num - 1
NoUdec == -1              \* an index that is not one of a stream

ASSUME MudecAssumption ==
  /\ sds \in Nat \ {0} /\ hds \in Nat
  /\ first_show_hd_stream => hds > 0     \* else it shows a stream that does not exist
  /\ MAX_MSGS \in Nat \ {0} /\ FifoFrames \in Nat \ {0} /\ FileFrames \in Nat
  /\ {mdec_loop, first_show_hd_stream, test_feed_background, Signals, IoctlsMayFail}
       \subseteq BOOLEAN
  /\ Commands \subseteq {"q", "s", " ", "z", "cs", "csa", "cw", "crsd", "crhd", "cr"}
  /\ MaxCmds \in Nat

VARIABLES
  \* the main thread
  main,             \* where it is: "loop", "kill", "join", "done"
  todo,             \* what is left of the command it executes
  mdec_running,
  typed,            \* the commands typed so far (at most MaxCmds)
  renders,          \* renders[r]: the udec_id main has noted for render r
  cur_display,      \* 0: small windows, 1: full screen
  switch_new_udec_id,  \* the local variable that several commands share
  trickplay_mode,   \* trickplay_mode[i]: what main believes of decoder i
  \* between main and the threads
  cmd_queue,        \* cmd_queue[i]: messages to thread i, oldest first
  last_msg,         \* last_msg[i]: the last message main put there
  pts_base,         \* pts_base[i]: which adjustment cur_feeding_pts counts from
  \* the udec_instance threads
  pc,               \* pc[i]: where thread i is
  left,             \* left[i]: frames of the file thread i has not fed
  pts_read,         \* pts_read[i]: the base it read and has not written back
  \* the driver and the DSP
  udec,             \* udec[i]: "none", "run", "stopped", "released"
  mode,             \* mode[i]: "run", "hold", or "step" with a picture to go
  bits,             \* bits[i]: frames in the bits fifo
  screen,           \* screen[r]: the stream render r shows; its domain is what is shown
  switching         \* switching[r]: the stream render r has still to switch to

mainVars == <<main, todo, mdec_running, typed, renders, cur_display,
              switch_new_udec_id, trickplay_mode>>
queueVars == <<cmd_queue, last_msg>>
threadVars == <<pc, left, pts_read>>
dspVars == <<udec, mode, bits, screen, switching>>
vars == <<mainVars, queueVars, pts_base, threadVars, dspVars>>

\* params[i].wait_cmd_begin: the streams not shown first wait for a command.
wait_cmd_begin(i) ==
  ~ test_feed_background /\ (i \in Sd <=> first_show_hd_stream)

Init ==
  /\ main = "loop" /\ todo = <<>> /\ mdec_running = TRUE
  /\ typed = <<>>
  /\ renders = [r \in Renders |-> r]
  /\ cur_display = IF first_show_hd_stream \/ sds = 1 THEN 1 ELSE 0
  /\ switch_new_udec_id = NoUdec                    \* not initialised
  /\ trickplay_mode = [i \in Udecs |-> "RESUME"]
  /\ cmd_queue = [i \in Udecs |-> <<>>]
  /\ last_msg = [i \in Udecs |-> IF wait_cmd_begin(i) THEN "none" ELSE "RESUME"]
  /\ pts_base = [i \in Udecs |-> 0]
  /\ pc = [i \in Udecs |-> "init"]
  /\ left = [i \in Udecs |-> FileFrames]
  /\ pts_read = [i \in Udecs |-> 0]
  /\ udec = [i \in Udecs |-> "none"]
  /\ mode = [i \in Udecs |-> "run"]
  /\ bits = [i \in Udecs |-> 0]
  /\ screen = IF first_show_hd_stream THEN [r \in {0} |-> sds] ELSE [r \in Sd |-> r]
  /\ switching = [r \in Renders |-> NoUdec]

-----------------------------------------------------------------------------
(* What the commands do, step by step. *)

Do(op, i, a) == [op |-> op, i |-> i, a |-> a]
Put(i, msg) == Do("put", i, msg)
Each(S, op, a) ==                      \* for (i = min; i <= max; i++)
  LET lo == CHOOSE i \in S : \A j \in S : i <= j
  IN  IF S = {} THEN <<>> ELSE [k \in 1 .. Cardinality(S) |-> Do(op, lo + k - 1, a)]
Feeding(steps) == IF test_feed_background THEN <<>> ELSE steps

\* resume_pause_feeding(params, first, last, total, pause)
ResumeFeeding(S) == Feeding(Each(S, "put", "RESUME"))
PauseFeeding(S) == Feeding(Each(S, "put", "PAUSE"))

\* 'q': mdec_running = 0 and every decoder resumed, so that no thread stays
\* blocked in IAV_IOC_WAIT_DECODER.
QuitOnly == <<>>                                                         \* mutant
Quit == Each(Udecs, "trickplay", "RESUME")

\* 'crsd': resume the small streams, show them, pause the full-screen ones.
CrsdNoPause == ResumeFeeding(Sd) \o <<Do("show", 0, "sd")>>              \* mutant
Crsd ==
  ResumeFeeding(Sd) \o Feeding(Each(Sd, "trickplay", "RESUME"))
    \o <<Do("show", 0, "sd")>> \o PauseFeeding(Hd)

\* 'crhd': the renders of the full-screen streams are reset; the decoder u resumed
\* is the one that switch_new_udec_id was left at, or any if it never was set.
Crhd(u) ==
  ResumeFeeding(Hd) \o Feeding(<<Do("trickplay", u, "RESUME")>>)
    \o <<Do("show", 0, "hd")>> \o PauseFeeding(Sd)

\* ioctl_wait_stream_switch_cmd
WaitSwitched(r) == <<Do("wait_switch", r, NoUdec)>>

\* 'cs<r>to<n>', and 'csa' that also updates the display.
Switch(r, n, auto) ==
  Feeding(<<Do("adjust_pts", n, renders[r]), Put(n, "RESUME"), Do("trickplay", n, "RESUME")>>)
    \o <<Do("switch", r, n)>> \o WaitSwitched(r) \o Feeding(<<Put(renders[r], "PAUSE")>>)
    \o <<Do("render", r, n)>>
    \o CASE auto /\ cur_display = 0 /\ n \in Hd ->
              <<Do("show", 0, "hd")>> \o PauseFeeding(Sd)
         [] auto /\ cur_display = 1 /\ n \in Sd ->
              ResumeFeeding(Sd) \o Feeding(Each(Sd, "trickplay", "RESUME"))
                \o <<Do("show", 0, "sd")>> \o PauseFeeding(Hd)
         [] OTHER -> <<>>

\* The main loop reads a command and starts to execute it.
Type(c, steps, running) ==
  /\ main = "loop" /\ todo = <<>> /\ mdec_running
  /\ c \in Commands /\ Len(typed) < MaxCmds
  /\ typed' = Append(typed, c)
  /\ todo' = steps
  /\ mdec_running' = running
  /\ UNCHANGED <<main, renders, cur_display, trickplay_mode, queueVars, pts_base,
                 threadVars, dspVars>>

\* A command that parses a stream number into switch_new_udec_id.
TypeFor(c, n, steps) == Type(c, steps, TRUE) /\ switch_new_udec_id' = n

Command ==
  \/ /\ \/ Type("q", Quit, FALSE)
        \/ Type("crsd", Crsd, TRUE)
        \/ \E u \in Udecs \cup {NoUdec} :
             /\ switch_new_udec_id \in {NoUdec, u}
             /\ Type("crhd", Crhd(u), TRUE)
        \/ \E n \in 0 .. total_num : \E u \in [0 .. n - 1 -> Udecs] :
             Type("cr", <<Do("config", n, u)>>, TRUE)
        \/ \E r \in Renders : Type("cw", WaitSwitched(r), TRUE)
     /\ UNCHANGED switch_new_udec_id
  \/ \E n \in Udecs :
       \/ TypeFor("s", n, <<Do("step", n, "STEP")>>)
       \/ TypeFor(" ", n, <<Do("pause_resume", n, "")>>)
       \/ TypeFor("z", n, <<Do("stop", n, "")>>)
       \/ \E r \in Renders, auto \in BOOLEAN :
            /\ r < 4
            /\ TypeFor(IF auto THEN "csa" ELSE "cs", n,
                       IF renders[r] = n THEN <<>> ELSE Switch(r, n, auto))

-----------------------------------------------------------------------------
(* One step of the command. *)

Now == Head(todo)
NextStep(op) == todo # <<>> /\ Now.op = op /\ todo' = Tail(todo)
MainRest == <<main, mdec_running, typed, switch_new_udec_id>>

\* msg_queue_put blocks while the queue is full.
PutMessage ==
  /\ NextStep("put")
  /\ Len(cmd_queue[Now.i]) < MAX_MSGS
  /\ cmd_queue' = [cmd_queue EXCEPT ![Now.i] = Append(@, Now.a)]
  /\ last_msg' = [last_msg EXCEPT ![Now.i] = Now.a]
  /\ UNCHANGED <<MainRest, renders, cur_display, trickplay_mode, pts_base,
                 threadVars, dspVars>>

\* ioctl_udec_trickplay fails unless the decoder runs; the belief follows the ioctl.
Trickplay(i, m) ==
  IF udec[i] = "run"
    THEN /\ trickplay_mode' = [trickplay_mode EXCEPT ![i] = m]
         /\ mode' = [mode EXCEPT ![i] =
                       CASE m = "RESUME" -> "run" [] m = "PAUSE" -> "hold" [] m = "STEP" -> "step"]
    ELSE UNCHANGED <<trickplay_mode, mode>>

\* udec_trickplay (nothing to do if already in the mode), udec_step, udec_pause_resume
TrickplayCommand ==
  /\ \/ /\ NextStep("trickplay")
        /\ IF Now.i = NoUdec \/ trickplay_mode[Now.i] = Now.a
             THEN UNCHANGED <<trickplay_mode, mode>>
             ELSE Trickplay(Now.i, Now.a)
     \/ /\ NextStep("step")
        /\ Trickplay(Now.i, "STEP")
     \/ /\ NextStep("pause_resume")
        /\ Trickplay(Now.i, IF trickplay_mode[Now.i] = "RESUME" THEN "PAUSE" ELSE "RESUME")
  /\ UNCHANGED <<MainRest, renders, cur_display, queueVars, pts_base, threadVars,
                 udec, bits, screen, switching>>

\* ioctl_udec_stop
StopCommand ==
  /\ NextStep("stop")
  /\ udec' = [udec EXCEPT ![Now.i] = IF @ = "run" THEN "stopped" ELSE @]
  /\ UNCHANGED <<MainRest, renders, cur_display, trickplay_mode, queueVars, pts_base,
                 threadVars, mode, bits, screen, switching>>

\* adjust_start_pts_ex: main writes the cur_feeding_pts of another thread.
AdjustPts ==
  /\ NextStep("adjust_pts")
  /\ pts_base' = [pts_base EXCEPT ![Now.i] = Len(typed)]
  /\ UNCHANGED <<MainRest, renders, cur_display, trickplay_mode, queueVars, threadVars,
                 dspVars>>

\* ioctl_render_cmd refuses an empty list of renders: the screen stays as it is.
\* Nobody looks at its result.
Render(list) == screen' = IF DOMAIN list = {} THEN screen ELSE list

\* renders[], cur_display and what the DSP shows: ioctl_stream_switch_cmd, the
\* assignment after the wait for it, and ioctl_render_cmd.
Display ==
  /\ \/ /\ NextStep("switch")
        /\ \/ switching' = [switching EXCEPT ![Now.i] = Now.a]
           \/ IoctlsMayFail /\ UNCHANGED switching
        /\ UNCHANGED <<renders, cur_display, screen>>
     \/ /\ NextStep("render")
        /\ renders' = [renders EXCEPT ![Now.i] = Now.a]
        /\ UNCHANGED <<screen, cur_display, switching>>
     \/ /\ NextStep("show") /\ Now.a = "sd"
        /\ Render([r \in Sd |-> renders[r]])
        /\ cur_display' = 0
        /\ UNCHANGED <<renders, switching>>
     \/ /\ NextStep("show") /\ Now.a = "hd"
        /\ renders' = [r \in Renders |-> IF r \in Hd THEN r ELSE renders[r]]
        /\ Render([r \in 0 .. hds - 1 |-> r + sds])
        /\ cur_display' = 1
        /\ UNCHANGED switching
     \/ /\ NextStep("config")
        /\ renders' = [r \in Renders |-> IF r < Now.i THEN Now.a[r] ELSE renders[r]]
        /\ Render(Now.a)
        /\ UNCHANGED <<cur_display, switching>>
  /\ UNCHANGED <<MainRest, trickplay_mode, queueVars, pts_base, threadVars, udec, mode, bits>>

\* IAV_IOC_WAIT_STREAM_SWITCH_MSG blocks main until the DSP has switched the render,
\* or fails; the result is not looked at.
WaitSwitch ==
  /\ NextStep("wait_switch")
  /\ switching[Now.i] = NoUdec \/ IoctlsMayFail
  /\ UNCHANGED <<MainRest, renders, cur_display, trickplay_mode, queueVars, pts_base,
                 threadVars, dspVars>>

\* The loop ends: M_MSG_KILL to each thread, then pthread_join on each, then
\* IAV_IOC_ENTER_IDLE, the files closed and the tables freed.
Exit ==
  /\ todo = <<>>
  /\ \/ /\ main = "loop" /\ ~ mdec_running
        /\ main' = "kill" /\ todo' = Each(Udecs, "put", "KILL")
     \/ /\ main = "kill"
        /\ main' = "join" /\ UNCHANGED todo
     \/ /\ main = "join" /\ \A i \in Udecs : pc[i] = "gone"
        /\ main' = "done" /\ UNCHANGED todo
  /\ UNCHANGED <<mdec_running, typed, renders, cur_display, switch_new_udec_id,
                 trickplay_mode, queueVars, pts_base, threadVars, dspVars>>

MainStep ==
  PutMessage \/ TrickplayCommand \/ StopCommand \/ AdjustPts \/ Display \/ Exit

\* sig_stop: the handler clears the flag, nothing else.
SigStop ==
  /\ Signals /\ mdec_running
  /\ mdec_running' = FALSE
  /\ UNCHANGED <<main, todo, typed, renders, cur_display, switch_new_udec_id,
                 trickplay_mode, queueVars, pts_base, threadVars, dspVars>>

-----------------------------------------------------------------------------
(* The udec_instance threads. *)

\* ioctl_init_udec_instance, then wait for a command or start feeding.
Start(i) ==
  /\ pc[i] = "init"
  /\ \/ /\ udec' = [udec EXCEPT ![i] = "run"]
        /\ pc' = [pc EXCEPT ![i] = IF wait_cmd_begin(i) THEN "begin" ELSE "drain"]
     \/ /\ IoctlsMayFail
        /\ pc' = [pc EXCEPT ![i] = "gone"]
        /\ UNCHANGED udec
  /\ UNCHANGED <<mainVars, queueVars, pts_base, left, pts_read, mode, bits, screen,
                 switching>>

\* Where a thread goes with a message.  The message loops differ only in that.
AfterIgnoringPause(p, msg) ==                                            \* mutant
  CASE msg = "KILL" -> "stop"
    [] msg = "RESUME" -> "drain"
    [] msg = "PAUSE" -> p
After(p, msg) ==
  CASE msg = "KILL" -> "stop"
    [] msg = "RESUME" -> "drain"                       \* feed, or go on feeding
    [] msg = "PAUSE" /\ p = "drain" -> "paused"
    [] msg = "PAUSE" /\ p # "drain" -> p               \* nothing is being fed

\* Where a thread reads its queue.
ReadsOnlyToWait == {"begin", "paused"}                                   \* mutant
ReadsQueue == {"begin", "drain", "paused", "exit_wait"}

\* msg_queue_get and process_cmd where the thread waits for a command (begin,
\* paused, end of file); msg_queue_peek and process_cmd between two frames.  The
\* loop that looks between two frames is not reached when the file is empty.
\* A file that was fed is fed again from its start.
TakeCommand(i) ==
  /\ pc[i] \in ReadsQueue
  /\ pc[i] = "drain" => FileFrames > 0
  /\ cmd_queue[i] # <<>>
  /\ cmd_queue' = [cmd_queue EXCEPT ![i] = Tail(@)]
  /\ pc' = [pc EXCEPT ![i] = After(pc[i], Head(cmd_queue[i]))]
  /\ left' = [left EXCEPT ![i] = IF pc[i] = "exit_wait" THEN FileFrames ELSE @]
  /\ UNCHANGED <<mainVars, last_msg, pts_base, pts_read, dspVars>>

\* No message: look at what is left of the file.  When the last frame filled the
\* buffer exactly, the end of the file is reached without looking.
NoCommand(i) ==
  /\ pc[i] = "drain"
  /\ cmd_queue[i] = <<>> \/ left[i] = 0
  /\ IF left[i] = 0 /\ mdec_loop                       \* goto repeat_feeding
       THEN left' = [left EXCEPT ![i] = FileFrames] /\ UNCHANGED pc
       ELSE pc' = [pc EXCEPT ![i] = "request"] /\ UNCHANGED left
  /\ UNCHANGED <<mainVars, queueVars, pts_base, pts_read, dspVars>>

\* request_bits_fifo returns with room in the fifo, or with an error that is not
\* looked at; then the header is made from cur_feeding_pts.
FifoMayOverflow(i) == TRUE                                               \* mutant
FifoHasRoom(i) == udec[i] = "run" => bits[i] < FifoFrames
RequestBitsFifo(i) ==
  /\ pc[i] = "request"
  /\ FifoHasRoom(i)
  /\ pc' = [pc EXCEPT ![i] = "feed"]
  /\ pts_read' = [pts_read EXCEPT ![i] = pts_base[i]]
  /\ UNCHANGED <<mainVars, queueVars, pts_base, left, dspVars>>

\* cur_feeding_pts += frame_duration is written, the frame is copied, and
\* IAV_IOC_UDEC_DECODE hands it to the decoder.  left = 0: the end of stream.
Decode(i) ==
  /\ pc[i] = "feed"
  /\ pts_base' = [pts_base EXCEPT ![i] = IF left[i] = 0 THEN @ ELSE pts_read[i]]
  /\ pts_read' = [pts_read EXCEPT ![i] = 0]
  /\ \/ /\ udec[i] = "run"
        /\ bits' = [bits EXCEPT ![i] = @ + 1]
        /\ \/ /\ left[i] > 0
              /\ left' = [left EXCEPT ![i] = @ - 1]
              /\ pc' = [pc EXCEPT ![i] = "drain"]
           \/ /\ left[i] = 0
              /\ pc' = [pc EXCEPT ![i] = "exit_wait"]
              /\ UNCHANGED left
     \/ /\ udec[i] # "run" \/ IoctlsMayFail             \* return -2
        /\ pc' = [pc EXCEPT ![i] = "stop"]
        /\ UNCHANGED <<bits, left>>
  /\ UNCHANGED <<mainVars, queueVars, udec, mode, screen, switching>>

\* IAV_IOC_UDEC_STOP, IAV_IOC_RELEASE_UDEC and the end of the thread.
StopAndRelease(i) ==
  /\ pc[i] = "stop"
  /\ udec' = [udec EXCEPT ![i] = "released"]
  /\ mode' = [mode EXCEPT ![i] = "run"]                \* nothing is held any more
  /\ bits' = [bits EXCEPT ![i] = 0]
  /\ pc' = [pc EXCEPT ![i] = "gone"]
  /\ UNCHANGED <<mainVars, queueVars, pts_base, left, pts_read, screen,
                 switching>>

ThreadStep(i) ==
  \/ Start(i) \/ TakeCommand(i) \/ NoCommand(i)
  \/ RequestBitsFifo(i) \/ Decode(i) \/ StopAndRelease(i)

\* The DSP takes a frame from the fifo of a decoder that is not held.
Consume(i) ==
  /\ udec[i] = "run" /\ bits[i] > 0 /\ mode[i] # "hold"
  /\ bits' = [bits EXCEPT ![i] = @ - 1]
  /\ mode' = [mode EXCEPT ![i] = IF @ = "step" THEN "hold" ELSE @]
  /\ UNCHANGED <<mainVars, queueVars, pts_base, threadVars, udec, screen,
                 switching>>

\* The DSP switches a render to another stream.
SwitchStream(r) ==
  /\ switching[r] # NoUdec
  /\ screen' = [s \in DOMAIN screen |-> IF s = r THEN switching[r] ELSE screen[s]]
  /\ switching' = [switching EXCEPT ![r] = NoUdec]
  /\ UNCHANGED <<mainVars, queueVars, pts_base, threadVars, udec, mode, bits>>

Next ==
  \/ Command \/ MainStep \/ WaitSwitch \/ SigStop
  \/ \E i \in Udecs : ThreadStep(i) \/ Consume(i)
  \/ \E r \in Renders : SwitchStream(r)

Spec == Init /\ [][Next]_vars

\* Every thread runs and the DSP decodes what it is given; the operator types what he
\* likes.  Whether the DSP ever switches a render, or answers main's wait for it, is
\* left open.
FairSpec ==
  /\ Spec
  /\ WF_vars(MainStep)
  /\ \A i \in Udecs : WF_vars(ThreadStep(i)) /\ WF_vars(Consume(i))

-----------------------------------------------------------------------------

ThreadPlaces ==
  {"init", "begin", "drain", "paused", "request", "feed", "exit_wait", "stop", "gone"}

\* Every variable has its type; no queue and no fifo overflows.
TypeOK ==
  /\ main \in {"loop", "kill", "join", "done"}
  /\ mdec_running \in BOOLEAN /\ typed \in Seq(Commands)
  /\ renders \in [Renders -> Udecs] /\ cur_display \in {0, 1}
  /\ switch_new_udec_id \in Udecs \cup {NoUdec}
  /\ trickplay_mode \in [Udecs -> {"RESUME", "PAUSE", "STEP"}]
  /\ cmd_queue \in [Udecs -> Seq({"PAUSE", "RESUME", "KILL"})]
  /\ \A i \in Udecs : Len(cmd_queue[i]) <= MAX_MSGS
  /\ last_msg \in [Udecs -> {"none", "PAUSE", "RESUME", "KILL"}]
  /\ pc \in [Udecs -> ThreadPlaces]
  /\ left \in [Udecs -> 0 .. FileFrames]
  /\ udec \in [Udecs -> {"none", "run", "stopped", "released"}]
  /\ mode \in [Udecs -> {"run", "hold", "step"}]
  /\ bits \in [Udecs -> 0 .. FifoFrames]
  /\ \A r \in DOMAIN screen : screen[r] \in Udecs
  /\ switching \in [Renders -> Udecs \cup {NoUdec}]

\* A thread that has read all its messages does what the last one said, whatever
\* it was doing when each of them arrived: it does not feed after a PAUSE, and it
\* is not waiting for a command after a RESUME unless it fed the file to its end.
LastCommandObeyed ==
  \A i \in Udecs :
    cmd_queue[i] = <<>> =>
      /\ last_msg[i] = "PAUSE" => pc[i] \notin {"drain", "request", "feed"}
      /\ last_msg[i] = "RESUME" => pc[i] \notin {"begin", "paused"}

CommandDone == main = "loop" /\ todo = <<>> /\ mdec_running
Shown == {screen[r] : r \in DOMAIN screen}

\* The streams on the screen are those that display commands put there: none was
\* switched (after cs the operator has to update the display himself) and there is a
\* full-screen stream for 'crhd' to show (with none it pauses the small ones that stay
\* on the screen).  A program that shows the first of several full-screen streams at
\* its start feeds all of them until the first display command.
DisplayCommands == {"crsd", "crhd"}
DisplayKnown ==
  /\ Range(typed) \cap {"cs", "csa", "cr"} = {}
  /\ hds = 0 => "crhd" \notin Range(typed)
FedAsShown == first_show_hd_stream /\ hds > 1 => Range(typed) \cap DisplayCommands # {}

\* Between two commands, the streams on the screen are fed and the others are
\* not ("resume feeding", "pause feeding" of the display commands).
ShownAreFed ==
  CommandDone /\ ~ test_feed_background /\ DisplayKnown /\ FedAsShown =>
    /\ \A i \in Shown : last_msg[i] = "RESUME"
    /\ \A i \in Udecs \ Shown : last_msg[i] # "RESUME"

\* Once the loop ends, every thread exits and is joined, and the program ends.
QuitCompletes == ~ mdec_running ~> main = "done"

BlockedOn(i) == todo # <<>> /\ Now.op = "put" /\ Now.i = i /\ Len(cmd_queue[i]) = MAX_MSGS

\* Main does not stay blocked in msg_queue_put on a thread that can still run:
\* only on one that is gone, or that the DSP, held by a trickplay command, leaves in
\* IAV_IOC_WAIT_DECODER.
BlockedOnlyByStuckThread ==
  \A i \in Udecs :
    []<>(~ BlockedOn(i) \/ pc[i] = "gone" \/ (pc[i] = "request" /\ mode[i] = "hold"))

\* However the loop ends, Ctrl-C included, the program ends, unless main waits for ever
\* for a switch that the DSP does not report, a dead thread's queue is full or the DSP
\* was left holding a decoder; and 'q' leaves none held: it resumes them all first, so
\* that no thread stays in IAV_IOC_WAIT_DECODER.
WaitsForSwitch == todo # <<>> /\ Now.op = "wait_switch"
QuitUnlessStuck ==
  \/ <>[]WaitsForSwitch
  \/ []<>( \/ mdec_running \/ main = "done"
           \/ \E i \in Udecs : pc[i] = "gone" /\ BlockedOn(i)
           \/ "q" \notin Range(typed) /\ \E i \in Udecs : mode[i] # "run")

\* 'crhd' resumes the decoders it shows: "resume UDEC if needed".
CrhdResumesWhatItShows ==
  CommandDone /\ typed # <<>> /\ Last(typed) = "crhd" /\ ~ test_feed_background =>
    \A i \in Shown : trickplay_mode[i] # "PAUSE"

\* The adjustment main makes of a thread's cur_feeding_pts when it switches to its
\* stream is not undone by that thread: "for thread safe, members in this struct
\* cannot be used as inter-thread communication".
AdjustmentKept == [][\A i \in Udecs : pts_base'[i] >= pts_base[i]]_vars
=============================================================================
