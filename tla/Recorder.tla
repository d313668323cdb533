------------------------------- MODULE Recorder -------------------------------
(***************************************************************************)
(* test_bsreader.c and test_stream.c: what the encoder puts out is written *)
(* to one file per stream and session, and with -S to a new one whenever   *)
(* the last is over a size; with --frame-info a second file holds a record *)
(* per frame.  Both programs keep encoding_states with the same functions. *)
(*   test_bsreader  a thread per stream gets that stream's frames from a   *)
(*                  library, and sigstop cancels and joins the threads;    *)
(*   test_stream    one loop looks which streams encode and, if there is   *)
(*                  one or an end is outstanding, reads the next frame of  *)
(*                  any stream.                                            *)
(***************************************************************************)
EXTENDS Integers, Sequences, SequencesExt

CONSTANTS
  RecordStreams,
  FileSize,        \* file_size_mega_byte, in frames
  MaxSessions,     \* bound on the sessions of all streams
  MaxOutput,       \* bound on the frames of all streams
  MaxFailures      \* bound on the opens and writes that fail

ASSUME RecorderAssumption ==
  {FileSize, MaxSessions, MaxOutput, MaxFailures} \subseteq Nat /\ FileSize > 0

VARIABLES
  recorder,          \* "off", "bsreader", "stream", "stopping", "exited"
  file_size_flag, frame_info_flag,
  encoder,           \* encoder[s]: [on, session, n]: the driver's side
  output,            \* output[s]: frames <<session, n>> not read yet, n = 0 for a stream end
  encoding_states,   \* [s -> [fd, fd_info, session_id, total_bytes]]; the descriptors are
                     \* indices into files[s], 0 for -1
  end_of_stream,     \* test_stream: streams with nothing more to read
  reading,           \* reading[s]: "none", "get", "write" or "ended": the thread of s; for
                     \* test_stream "look" instead of "get" between two calls of write_stream
  frame,             \* frame[s]: the one being written
  files,             \* files[s][i]: [session, frames, records]: what is left of what was
                     \* written since the i-th creation
  leaked,            \* descriptors that are open and no longer in encoding_states
  failures,
  received,          \* history: the frames of s that were read
  dropped,           \* history: those among them that could not be written
  overwritten        \* history: those whose file was created again under its old name

recorderVars == <<recorder, file_size_flag, frame_info_flag, encoder, output,
                  encoding_states, end_of_stream, reading, frame, files, leaked,
                  failures, received, dropped, overwritten>>
optionVars == <<file_size_flag, frame_info_flag>>
writerOf == <<encoding_states, files, leaked, failures, received, dropped, overwritten>>

NoFrame == <<0, 0>>
RecorderStart(program, size, info) ==
  /\ recorder = program /\ file_size_flag = size /\ frame_info_flag = info
  /\ encoder = [s \in RecordStreams |-> [on |-> FALSE, session |-> 0, n |-> 0]]
  /\ output = [s \in RecordStreams |-> <<>>]
  /\ encoding_states = [s \in RecordStreams |->
       [fd |-> 0, fd_info |-> 0, session_id |-> 0, total_bytes |-> 0]]
  /\ end_of_stream = RecordStreams
  /\ reading = [s \in RecordStreams |-> IF program = "stream" THEN "look" ELSE "none"]
  /\ frame = [s \in RecordStreams |-> NoFrame]
  /\ files = [s \in RecordStreams |-> <<>>]
  /\ leaked = 0 /\ failures = 0
  /\ received = [s \in RecordStreams |-> {}] /\ dropped = {} /\ overwritten = {}
RecorderOff == RecorderStart("off", FALSE, FALSE)
RecorderInit == \E program \in {"bsreader", "stream"}, size, info \in BOOLEAN :
                  RecorderStart(program, size, info)

-----------------------------------------------------------------------------
(* The encoder, outside src/: another program starts and stops the streams.  *)

Total(Of(_)) == FoldFunction(LAMBDA e, sum : sum + Of(e), 0, encoder)

StartSession(s) ==
  /\ recorder # "off" /\ ~ encoder[s].on /\ Total(LAMBDA e : e.session) < MaxSessions
  /\ encoder' = [encoder EXCEPT ![s].on = TRUE, ![s].session = @ + 1]
  /\ UNCHANGED <<recorder, optionVars, output, end_of_stream, reading, frame, writerOf>>
Encode(s) ==
  /\ encoder[s].on /\ Total(LAMBDA e : e.n) < MaxOutput
  /\ encoder' = [encoder EXCEPT ![s].n = @ + 1]
  /\ output' = [output EXCEPT ![s] = Append(@, <<encoder[s].session, encoder'[s].n>>)]
  /\ UNCHANGED <<recorder, optionVars, end_of_stream, reading, frame, writerOf>>
StopSession(s) ==
  /\ encoder[s].on
  /\ encoder' = [encoder EXCEPT ![s].on = FALSE]
  /\ output' = [output EXCEPT ![s] = Append(@, <<encoder[s].session, 0>>)]
  /\ UNCHANGED <<recorder, optionVars, end_of_stream, reading, frame, writerOf>>

-----------------------------------------------------------------------------
(* write_stream2 and write_stream from the frame on.                         *)

\* amba_transfer_close is called with fd, which is -1 by then, instead of fd_info.
StreamEnd(s) ==
  /\ leaked' = leaked + (IF encoding_states[s].fd_info # 0 THEN 1 ELSE 0)
  /\ encoding_states' = [encoding_states EXCEPT ![s].fd = 0, ![s].fd_info = 0]
  /\ UNCHANGED <<frame, files, failures, received, dropped, overwritten>>

SizeOnly(s, f) == file_size_flag /\ encoding_states[s].total_bytes > FileSize \* mutant
IsNewSession(s, f) ==
  \/ f[1] # encoding_states[s].session_id
  \/ file_size_flag /\ encoding_states[s].total_bytes > FileSize

TotalBytes(s, f) ==
  IF IsNewSession(s, f) THEN 1 ELSE encoding_states[s].total_bytes + 1

\* check_session_file_handle: both files are created; "header": but the header or the
\* first record cannot be written; only the video file; none.  A descriptor of an older
\* frame info file is overwritten, not closed.
Creates == {"both", "header", "video", "none"}
FdInfo(s, made) ==
  CASE ~ frame_info_flag \/ made = "none" -> encoding_states[s].fd_info
    [] frame_info_flag /\ made \in {"both", "header"} -> Len(files[s]) + 1
    [] OTHER -> 0

\* update_session_data comes first: the session is taken for known, created or not.
NewFiles(s, f, made) ==
  /\ IsNewSession(s, f)
  /\ made \in (IF failures < MaxFailures THEN Creates ELSE {"both"})
  /\ made \in {"header", "video"} => frame_info_flag
  /\ encoding_states' = [encoding_states EXCEPT ![s] =
       [fd |-> IF made = "none" THEN 0 ELSE Len(files[s]) + 1, fd_info |-> FdInfo(s, made),
        session_id |-> f[1], total_bytes |-> TotalBytes(s, f)]]
  /\ leaked' = leaked + (IF encoding_states[s].fd_info \notin {0, FdInfo(s, made)}
                           THEN 1 ELSE 0)
  /\ failures' = failures + (IF made = "both" THEN 0 ELSE 1)
SameFiles(s, f) ==
  /\ ~ IsNewSession(s, f)
  /\ encoding_states' = [encoding_states EXCEPT ![s].total_bytes = TotalBytes(s, f)]
  /\ UNCHANGED <<leaked, overwritten>>

\* A name is made of the stream, the time in seconds (none with --rm-time) and the
\* session: when a session is split, the new file may have the last one's name, and
\* opening it empties that file.
SameName(s, f) == files[s] # <<>> /\ Last(files[s]).session = f[1]
Emptied(list, made) ==
  [list EXCEPT ![Len(list)].frames = <<>>,
               ![Len(list)].records = IF made = "video" THEN @ ELSE 0]
Created(s, f, made, same) ==
  IF made = "none" THEN files[s]
  ELSE Append(IF same THEN Emptied(files[s], made) ELSE files[s],
              [session |-> f[1], frames |-> <<>>, records |-> 0])
Noted(list, i) == IF i = 0 THEN list ELSE [list EXCEPT ![i].records = @ + 1]

\* Up to write_frame_info: a frame without its files is dropped, at the latest when
\* writing to descriptor -1 fails, and so is one whose record cannot be written.
WriteFrameInfo(s, f) ==
  /\ received' = [received EXCEPT ![s] = @ \cup {f}]
  /\ \/ \E made \in Creates, same \in BOOLEAN :
          /\ NewFiles(s, f, made)
          /\ same => SameName(s, f) /\ made # "none"
          /\ files' = [files EXCEPT ![s] =
               IF made = "both" THEN Noted(Created(s, f, made, same), encoding_states'[s].fd_info)
                                ELSE Created(s, f, made, same)]
          /\ overwritten' = overwritten \cup
               IF same THEN {<<s, g>> : g \in Range(Last(files[s]).frames)} ELSE {}
          /\ IF made = "both" THEN frame' = [frame EXCEPT ![s] = f] /\ UNCHANGED dropped
                              ELSE dropped' = dropped \cup {<<s, f>>} /\ UNCHANGED frame
     \/ /\ SameFiles(s, f)
        /\ files' = [files EXCEPT ![s] = Noted(@, encoding_states[s].fd_info)]
        /\ IF encoding_states[s].fd = 0 \/ (frame_info_flag /\ encoding_states[s].fd_info = 0)
             THEN dropped' = dropped \cup {<<s, f>>} /\ UNCHANGED frame
             ELSE frame' = [frame EXCEPT ![s] = f] /\ UNCHANGED dropped
        /\ UNCHANGED failures
     \/ /\ SameFiles(s, f) /\ encoding_states[s].fd_info # 0
        /\ failures < MaxFailures /\ failures' = failures + 1
        /\ dropped' = dropped \cup {<<s, f>>}
        /\ UNCHANGED <<files, frame>>

\* write_video_file2, write_video_file: a frame whose write fails is not in the file,
\* whatever part of it is; its record is.
WriteVideoFile(s) ==
  /\ \/ /\ files' = [files EXCEPT ![s][encoding_states[s].fd].frames = Append(@, frame[s])]
        /\ UNCHANGED <<failures, dropped>>
     \/ /\ failures < MaxFailures /\ failures' = failures + 1
        /\ dropped' = dropped \cup {<<s, frame[s]>>}
        /\ UNCHANGED files
  /\ frame' = [frame EXCEPT ![s] = NoFrame]
  /\ UNCHANGED <<encoding_states, leaked, received, overwritten>>

Process(s) == IF Head(output[s])[2] = 0 THEN StreamEnd(s) ELSE WriteFrameInfo(s, Head(output[s]))

-----------------------------------------------------------------------------
(* test_bsreader                                                             *)

CreateWorkingThread(s) ==
  /\ recorder = "bsreader" /\ reading[s] = "none"
  /\ reading' = [reading EXCEPT ![s] = "get"]
  /\ UNCHANGED <<recorder, optionVars, encoder, output, end_of_stream, frame, writerOf>>

\* A frame that cannot be written ends the thread for good.
GetOneFrame(s) ==
  /\ recorder \in {"bsreader", "stopping"} /\ reading[s] = "get" /\ output[s] # <<>>
  /\ output' = [output EXCEPT ![s] = Tail(@)]
  /\ Process(s)
  /\ reading' = [reading EXCEPT ![s] =
       IF dropped' # dropped THEN "ended" ELSE IF frame'[s] = NoFrame THEN "get" ELSE "write"]
  /\ UNCHANGED <<recorder, optionVars, encoder, end_of_stream>>

Write(s) ==
  /\ recorder # "exited" /\ reading[s] = "write"
  /\ WriteVideoFile(s)
  /\ reading' = [reading EXCEPT ![s] =
       IF recorder = "stream" THEN "look" ELSE IF dropped' # dropped THEN "ended" ELSE "get"]
  /\ UNCHANGED <<recorder, optionVars, encoder, output, end_of_stream>>

\* sigstop: before the threads exist test_bsreader just exits, as test_stream always does.
bsreader_opened == \A s \in RecordStreams : reading[s] # "none"
StopRecorder ==
  /\ recorder \in {"bsreader", "stream"}
  /\ recorder' = IF recorder = "bsreader" /\ bsreader_opened THEN "stopping" ELSE "exited"
  /\ UNCHANGED <<optionVars, encoder, output, end_of_stream, reading, frame, writerOf>>

\* pthread_cancel takes effect in the library's wait or in a write; pthread_join waits.
CancelThread(s) ==
  /\ recorder = "stopping" /\ reading[s] # "ended"
  /\ reading' = [reading EXCEPT ![s] = "ended"]
  /\ UNCHANGED <<recorder, optionVars, encoder, output, end_of_stream, frame, writerOf>>

BsreaderClose ==
  /\ recorder = "stopping" /\ \A s \in RecordStreams : reading[s] = "ended"
  /\ recorder' = "exited"
  /\ UNCHANGED <<optionVars, encoder, output, end_of_stream, reading, frame, writerOf>>

-----------------------------------------------------------------------------
(* test_stream                                                               *)

\* The states of all streams; with none encoding and no end outstanding, return -1.
ForgetsEnds(live) == RecordStreams \ live                               \* mutant
StreamsEnded(live) == end_of_stream \ live
LookAtStreams ==
  /\ recorder = "stream" /\ \A s \in RecordStreams : reading[s] = "look"
  /\ end_of_stream' = StreamsEnded({s \in RecordStreams : encoder[s].on})
  /\ end_of_stream' # RecordStreams
  /\ reading' = [s \in RecordStreams |-> "get"]
  /\ UNCHANGED <<recorder, optionVars, encoder, output, frame, writerOf>>

\* IAV_IOC_READ_BITSTREAM_EX: a frame of any stream, or EAGAIN.
ReadBitstream ==
  /\ recorder = "stream" /\ \A s \in RecordStreams : reading[s] = "get"
  /\ \/ \E s \in RecordStreams :
          /\ output[s] # <<>>
          /\ output' = [output EXCEPT ![s] = Tail(@)]
          /\ Process(s)
          /\ end_of_stream' = IF Head(output[s])[2] = 0 THEN end_of_stream \cup {s}
                                                        ELSE end_of_stream
          /\ reading' = [t \in RecordStreams |->
               IF frame'[t] = NoFrame THEN "look" ELSE "write"]
     \/ /\ \A s \in RecordStreams : output[s] = <<>>
        /\ reading' = [s \in RecordStreams |-> "look"]
        /\ UNCHANGED <<output, end_of_stream, frame, writerOf>>
  /\ UNCHANGED <<recorder, optionVars, encoder>>

RecorderNext ==
  \/ \E s \in RecordStreams :
       \/ StartSession(s) \/ Encode(s) \/ StopSession(s)
       \/ CreateWorkingThread(s) \/ GetOneFrame(s) \/ Write(s) \/ CancelThread(s)
  \/ StopRecorder \/ BsreaderClose \/ LookAtStreams \/ ReadBitstream

\* The program runs; the encoder and the signal come when they come.
RecorderFairness ==
  /\ \A s \in RecordStreams :
       /\ WF_recorderVars(GetOneFrame(s)) /\ WF_recorderVars(Write(s))
       /\ WF_recorderVars(CreateWorkingThread(s))
  /\ WF_recorderVars(LookAtStreams) /\ WF_recorderVars(ReadBitstream)

RecorderSpec == RecorderInit /\ [][RecorderNext]_recorderVars

-----------------------------------------------------------------------------

\* Every variable has its type.
RecorderTypeOK ==
  /\ recorder \in {"off", "bsreader", "stream", "stopping", "exited"}
  /\ end_of_stream \subseteq RecordStreams
  /\ \A s \in RecordStreams :
       /\ reading[s] \in {"none", "look", "get", "write", "ended"}
       /\ {encoding_states[s].fd, encoding_states[s].fd_info} \subseteq 0 .. Len(files[s])
  /\ leaked \in Nat /\ failures \in 0 .. MaxFailures

\* Every frame read is in exactly one file, and in a file of its own session, but for
\* those that could not be written, the one being written, and those of a file that
\* was created again under its name, which only splitting by size does.  The files have
\* them in their order: the encoder numbers its frames.
FramesInTheirFiles ==
  /\ failures = 0 => dropped = {}
  /\ ~ file_size_flag => overwritten = {}
  /\ \A s \in RecordStreams :
     LET Frames(i) == files[s][i].frames
     IN  /\ UNION {Range(Frames(i)) : i \in DOMAIN files[s]}
              = {f \in received[s] : <<s, f>> \notin dropped \cup overwritten} \ {frame[s]}
         /\ \A i, j \in DOMAIN files[s] :
              \A k \in DOMAIN Frames(i), l \in DOMAIN Frames(j) :
                i < j \/ (i = j /\ k < l) => Frames(i)[k][2] < Frames(j)[l][2]
         /\ \A i \in DOMAIN files[s] : \A f \in Range(Frames(i)) :
              f[1] = files[s][i].session

\* A file ends where it must: at its size, with its session, and nowhere else; one whose
\* name was used again is empty.
FilesSplitAtSize ==
  failures = 0 => \A s \in RecordStreams : \A i \in DOMAIN files[s] :
    /\ file_size_flag => Len(files[s][i].frames) <= FileSize + 1
    /\ \/ i = Len(files[s]) \/ files[s][i].session # files[s][i + 1].session
       \/ file_size_flag /\ Len(files[s][i].frames) \in {0, FileSize + 1}

\* The frame info file of a video file has a record for each of its frames, wherever
\* sigstop breaks off.
InfoMatchesFrames ==
  frame_info_flag /\ failures = 0 => \A s \in RecordStreams : \A i \in DOMAIN files[s] :
    files[s][i].records =
      Len(files[s][i].frames) + (IF frame[s] # NoFrame /\ i = Len(files[s]) THEN 1 ELSE 0)

\* What the recorder leaves: each frame in one file of its session, files cut where they
\* must be, each with its records, whatever failed and wherever sigstop came.
FilesSound == FramesInTheirFiles /\ FilesSplitAtSize /\ InfoMatchesFrames

\* "check if it's a stream end null frame indicator": the files of a stream that has
\* ended are closed, so that descriptors do not run out.
NoFileLeftOpen == leaked = 0

\* What the encoder puts out is read: by test_bsreader unless its thread has given up,
\* by test_stream to the end of every session that it has seen encoding.
OutputRead ==
  \A s \in RecordStreams :
    /\ recorder = "bsreader" /\ output[s] # <<>>
         ~> output[s] = <<>> \/ recorder # "bsreader" \/ reading[s] = "ended"
    /\ recorder = "stream" /\ s \notin end_of_stream /\ ~ encoder[s].on
         ~> s \in end_of_stream \/ encoder[s].on \/ recorder # "stream"
=============================================================================
