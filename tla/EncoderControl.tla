---------------------------- MODULE EncoderControl ----------------------------
(***************************************************************************)
(* Two programs that drive one encoder through /dev/iav:                   *)
(*   guard_vsync_loss.c  answers the driver's netlink messages: on a loss  *)
(*       of vsync it stops the streams, takes the encoder through idle and *)
(*       preview, and starts the streams again;                            *)
(*   test_encode.c       the operator's commands: main sets one flag per   *)
(*       phase from the options and carries the phases out in their order. *)
(* The driver is outside src/.                                             *)
(***************************************************************************)
EXTENDS Integers, Sequences, FiniteSets

CONSTANTS
  EncodeStreams,  \* ALL_ENCODE_STREAMS
  ConnectTries,   \* count of netlink_loop
  Options,        \* the command lines of test_encode
  MaxLosses,      \* bound on the losses of vsync
  MaxCommands     \* bound on the runs of test_encode

ASSUME EncoderAssumption ==
  /\ IsFiniteSet(EncodeStreams)
  /\ Options \subseteq
       [stop : SUBSET EncodeStreams, start : SUBSET EncodeStreams,
        restart : SUBSET EncodeStreams, setup : BOOLEAN, idle : BOOLEAN,
        preview : BOOLEAN, nopreview : BOOLEAN]
  /\ ConnectTries \in Nat \ {0} /\ MaxLosses \in Nat /\ MaxCommands \in Nat

VARIABLES
  iav_state,        \* "idle", "preview", "encoding"
  encoding,         \* the streams that encode
  session,          \* the driver takes the guard for connected
  inbox,            \* the driver's messages: "loss", "up", "fail", "down"
  losses,
  guard,            \* guard_vsync_loss, see GuardSteps
  nl_connected, count, looping, quitting,
  encode_streams,
  lost,             \* history: the streams that ran at the loss being handled
  answered,         \* history: responses sent
  te,               \* test_encode: "off" or the phase it is in
  te_opts, te_streams, commands,
  te_before,        \* history: the streams that ran when the command began
  disturbed         \* history: both programs were at work since the recovery or command began

driverVars == <<iav_state, encoding>>
messageVars == <<session, inbox, losses>>
guardVars == <<guard, nl_connected, count, looping, quitting, encode_streams, lost, answered>>
commandVars == <<te, te_opts, te_streams, commands, te_before>>
encoderVars == <<driverVars, messageVars, guardVars, commandVars, disturbed>>

GuardSteps == {"connect", "recv", "state", "streams", "stop", "idle", "preview",
               "running", "start", "respond", "exited", "off"}
Phases == {"off", "look_stop", "stop", "idle", "setup", "preview", "look_start", "start",
           "done", "failed"}
NoOptions == [stop |-> {}, start |-> {}, restart |-> {}, setup |-> FALSE, idle |-> FALSE,
              preview |-> FALSE, nopreview |-> FALSE]

EncoderStart(g, S) ==
  /\ encoding = S
  /\ iav_state \in (IF S = {} THEN {"idle", "preview"} ELSE {"encoding"})
  /\ session = FALSE /\ inbox = <<>> /\ losses = 0
  /\ guard = g /\ nl_connected = FALSE /\ count = ConnectTries
  /\ looping = FALSE /\ quitting = FALSE /\ encode_streams = {} /\ lost = {} /\ answered = 0
  /\ te = "off" /\ te_opts = NoOptions /\ te_streams = {} /\ commands = 0 /\ te_before = {}
  /\ disturbed = FALSE
EncoderOff == EncoderStart("off", {}) /\ iav_state = "idle"
EncoderInit == \E S \in SUBSET EncodeStreams : EncoderStart("connect", S)

-----------------------------------------------------------------------------
(* The ioctls of the driver; one that it refuses changes nothing.            *)

STOP_ENCODE(S) ==
  /\ encoding' = encoding \ S
  /\ iav_state' = IF iav_state = "encoding" /\ encoding' = {} THEN "preview" ELSE iav_state
START_ENCODE(S) ==
  /\ encoding' = IF iav_state = "idle" THEN encoding ELSE encoding \cup S
  /\ iav_state' = IF encoding' # {} THEN "encoding" ELSE iav_state
ENTER_IDLE ==
  /\ iav_state' = IF encoding = {} THEN "idle" ELSE iav_state
  /\ UNCHANGED encoding
ENABLE_PREVIEW ==
  /\ iav_state' = IF encoding = {} THEN "preview" ELSE iav_state
  /\ UNCHANGED encoding

VsyncLoss ==
  /\ session /\ losses < MaxLosses
  /\ losses' = losses + 1
  /\ inbox' = Append(inbox, "loss")
  /\ UNCHANGED <<driverVars, session, guardVars, commandVars, disturbed>>

-----------------------------------------------------------------------------
(* guard_vsync_loss.c: one action per ioctl or message.                      *)

GuardGoes(from, to) == guard = from /\ guard' = to

\* nl_send_vsync_session_cmd up to its receive: the driver answers at once.
SendSessionCmd ==
  /\ GuardGoes("connect", "recv")
  /\ IF quitting THEN session' = FALSE /\ inbox' = Append(inbox, "down")
     ELSE \E ok \in BOOLEAN :
            session' = ok /\ inbox' = Append(inbox, IF ok THEN "up" ELSE "fail")
  /\ UNCHANGED <<driverVars, losses, nl_connected, count, looping, quitting,
                 encode_streams, lost, answered, commandVars, disturbed>>

\* Where the program is after a message: sigstop exits after one, the loop that
\* connects counts its tries, the other one ends with the connection.
TriesOnceMore(connected) ==                                              \* mutant
  /\ nl_connected' = connected
  /\ looping' = (looping \/ connected)
  /\ count' = IF quitting \/ looping THEN count ELSE count - 1
  /\ guard' = IF quitting THEN "exited"
              ELSE IF connected THEN "recv"
              ELSE IF looping \/ count = 0 THEN "exited" ELSE "connect"
After(connected) ==
  /\ nl_connected' = connected
  /\ looping' = (looping \/ connected)
  /\ count' = IF quitting \/ looping THEN count ELSE count - 1
  /\ guard' = IF quitting THEN "exited"
              ELSE IF connected THEN "recv"
              ELSE IF looping \/ count = 1 THEN "exited" ELSE "connect"

SessionStatus ==
  /\ guard = "recv" /\ inbox # <<>> /\ Head(inbox) # "loss"
  /\ inbox' = Tail(inbox)
  /\ After(Head(inbox) = "up")
  /\ UNCHANGED <<driverVars, session, losses, quitting, encode_streams, lost, answered,
                 commandVars, disturbed>>

\* process_vsync_req
VsyncReq ==
  /\ guard = "recv" /\ inbox # <<>> /\ Head(inbox) = "loss"
  /\ guard' = "state"
  /\ inbox' = Tail(inbox)
  /\ lost' = encoding
  /\ disturbed' = (te \notin {"off", "done", "failed"})
  /\ UNCHANGED <<driverVars, session, losses, nl_connected, count, looping, quitting,
                 encode_streams, answered, commandVars>>

\* stop_all_encode_streams: encode_streams stays what it was when nothing encodes.
GetState ==
  /\ GuardGoes("state", IF iav_state = "encoding" THEN "streams" ELSE "idle")
  /\ UNCHANGED <<driverVars, messageVars, nl_connected, count, looping, quitting,
                 encode_streams, lost, answered, commandVars, disturbed>>

KeepsAll == EncodeStreams                                                \* mutant
Encoding == encoding
GetStreams ==
  /\ GuardGoes("streams", IF Encoding = {} THEN "idle" ELSE "stop")
  /\ encode_streams' = Encoding
  /\ UNCHANGED <<driverVars, messageVars, nl_connected, count, looping, quitting,
                 lost, answered, commandVars, disturbed>>

\* No result of these ioctls is looked at.
Drives(from, to, Ioctl) ==
  /\ GuardGoes(from, to) /\ Ioctl
  /\ UNCHANGED <<messageVars, nl_connected, count, looping, quitting, encode_streams,
                 lost, answered, commandVars, disturbed>>
StopStreams == Drives("stop", "idle", STOP_ENCODE(encode_streams))
GotoIdle == Drives("idle", "preview", ENTER_IDLE)
EnterPreview == Drives("preview", "running", ENABLE_PREVIEW)
StartStreams == Drives("start", "respond", START_ENCODE(encode_streams))

SilentReturn == "recv"                                                   \* mutant
NoStreamsToRecover == "respond"
GetRunning ==
  /\ encode_streams' = encode_streams \ encoding
  /\ GuardGoes("running", IF encode_streams' = {} THEN NoStreamsToRecover ELSE "start")
  /\ UNCHANGED <<driverVars, messageVars, nl_connected, count, looping, quitting,
                 lost, answered, commandVars, disturbed>>

Respond ==
  /\ guard = "respond"
  /\ answered' = answered + 1
  /\ After(nl_connected)
  /\ lost' = {}
  /\ UNCHANGED <<driverVars, messageVars, quitting, encode_streams, commandVars, disturbed>>

\* SIGINT, SIGQUIT, SIGTERM at any step: what was under way is not taken up again.
Sigstop ==
  /\ guard \notin {"off", "exited"} /\ ~ quitting
  /\ quitting' = TRUE /\ guard' = "connect" /\ lost' = {}
  /\ UNCHANGED <<driverVars, messageVars, nl_connected, count, looping, encode_streams,
                 answered, commandVars, disturbed>>

Recovery == VsyncReq \/ GetState \/ GetStreams \/ StopStreams \/ GotoIdle \/ EnterPreview
            \/ GetRunning \/ StartStreams \/ Respond
GuardStep == SendSessionCmd \/ SessionStatus \/ Recovery

Recovering == guard \notin {"connect", "recv", "exited", "off"}

-----------------------------------------------------------------------------
(* test_encode.c.  "setup" stands for the options that stop all streams and  *)
(* need idle: a vin mode, buffer types, the format of the main buffer; "idle" *)
(* for --idle and those that only need idle, as vout modes and limits do.    *)
(* Channels of a multi-channel vin are left out.                             *)

stop_stream_id == IF te_opts.setup THEN EncodeStreams ELSE te_opts.stop \cup te_opts.restart
ForgetsRestart == te_opts.start                                          \* mutant
start_stream_id == te_opts.start \cup te_opts.restart
do_goto_idle == te_opts.setup \/ te_opts.idle
do_enable_preview == (do_goto_idle /\ ~ te_opts.nopreview) \/ te_opts.preview

Command ==
  /\ guard # "off" /\ te \in {"off", "done", "failed"} /\ commands < MaxCommands
  /\ commands' = commands + 1
  /\ te_opts' \in Options /\ te' = "look_stop" /\ te_before' = encoding
  /\ disturbed' = Recovering
  /\ UNCHANGED <<driverVars, messageVars, guardVars, te_streams>>

\* A phase whose flag is clear is passed by; an ioctl that is refused ends the program.
Phase(from, flag, to, Ioctl, ok) ==
  /\ te = from
  /\ IF flag THEN Ioctl /\ te' = (IF ok THEN to ELSE "failed")
             ELSE te' = to /\ UNCHANGED driverVars
  /\ disturbed' = (disturbed \/ Recovering)
  /\ IF te' \in {"done", "failed"} THEN te_opts' = NoOptions /\ te_before' = {}
                                   ELSE UNCHANGED <<te_opts, te_before>>
  /\ UNCHANGED <<messageVars, guardVars, commands>>

\* stop_encode and start_encode look which of their streams encode before they act.
LookStop ==
  /\ Phase("look_stop", FALSE, "stop", TRUE, TRUE)
  /\ te_streams' = IF iav_state = "encoding" THEN stop_stream_id \cap encoding ELSE {}
StopEncode ==
  /\ Phase("stop", te_streams # {}, "idle", STOP_ENCODE(te_streams), TRUE)
  /\ UNCHANGED te_streams
Idle ==
  /\ Phase("idle", do_goto_idle, "setup", ENTER_IDLE, encoding = {})
  /\ UNCHANGED te_streams
Setup ==
  /\ Phase("setup", te_opts.setup, "preview", UNCHANGED driverVars, iav_state = "idle")
  /\ UNCHANGED te_streams
Preview ==
  /\ Phase("preview", do_enable_preview, "look_start", ENABLE_PREVIEW, encoding = {})
  /\ UNCHANGED te_streams
LookStart ==
  /\ Phase("look_start", FALSE, "start", TRUE, TRUE)
  /\ te_streams' = start_stream_id \ encoding
StartEncode ==
  /\ Phase("start", te_streams # {}, "done", START_ENCODE(te_streams), iav_state # "idle")
  /\ te_streams' = {}

CommandStep == LookStop \/ StopEncode \/ Idle \/ Setup \/ Preview \/ LookStart \/ StartEncode

EncoderNext == VsyncLoss \/ GuardStep \/ Sigstop \/ Command \/ CommandStep

\* The guard's loop runs and so does a command; losses, signals and the operator come
\* when they come.
EncoderFairness == WF_encoderVars(GuardStep) /\ WF_encoderVars(CommandStep)
EncoderSpec == EncoderInit /\ [][EncoderNext]_encoderVars

-----------------------------------------------------------------------------

\* Every variable has its type.
EncoderTypeOK ==
  /\ iav_state \in {"idle", "preview", "encoding"}
  /\ {encoding, encode_streams, lost, te_streams, te_before} \subseteq SUBSET EncodeStreams
  /\ guard \in GuardSteps /\ te \in Phases
  /\ inbox \in Seq({"loss", "up", "fail", "down"})
  /\ {session, nl_connected, looping, quitting, disturbed} \subseteq BOOLEAN
  /\ {losses, answered} \subseteq 0 .. MaxLosses /\ count \in 0 .. ConnectTries

\* After a loss of vsync the streams that ran run again, and no others, unless
\* test_encode was at work meanwhile: through stops, idle, preview, signals that
\* break off an earlier recovery, and what encode_streams kept of it.
RecoveryRestores ==
  guard = "respond" /\ ~ disturbed /\ lost # {} => encoding = lost

\* "No encode streams to recover.": a loss while nothing encodes starts nothing
\* (but for the streams that a recovery broken off by a signal had stopped).
NothingToRecover ==
  guard = "respond" /\ ~ quitting /\ ~ disturbed /\ lost = {} => encoding = {}

\* Every loss the driver reports is answered, unless the guard is ended.
LossesAnswered == []<>(answered = losses \/ guard \in {"exited", "off"})

\* A command that succeeds leaves exactly the streams encoding that ran before and
\* were not to be stopped, and those to be started or restarted: the stops, the way
\* through idle and the starts are in an order that gives each phase what it needs.
CommandResult ==
  [][te' = "done" /\ te # "done" /\ ~ disturbed' =>
       encoding' = (te_before \ stop_stream_id) \cup te_opts.start \cup te_opts.restart]_encoderVars
=============================================================================
