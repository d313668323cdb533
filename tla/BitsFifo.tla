------------------------------ MODULE BitsFifo ------------------------------
(***************************************************************************)
(* The bits fifo (BSB) of one decoder in mudec.c: a ring of bsb_size bytes *)
(* mapped into the program.  udec_instance_decode_es_file asks for room    *)
(* (request_bits_fifo), copies headers and a frame into the ring piece by  *)
(* piece (copy_to_bsb), and hands the interval it wrote to the decoder     *)
(* (IAV_IOC_UDEC_DECODE), which reads it some time later.                  *)
(*                                                                         *)
(* A byte is the number of the frame it belongs to and its place in it.    *)
(***************************************************************************)
EXTENDS Integers, Sequences

CONSTANTS
  bsb_size,       \* p_bsb_end - p_bsb_start
  MaxFrame,       \* bytes in the largest frame of the file
  UseqLength, UpesLength, EosLength,   \* bytes of the headers and the end code
  HEADER_SIZE,    \* what a request adds for the headers
  EosRequest,     \* the request for the end code alone
  Safe,           \* what request_bits_fifo adds "for safe"
  Numbers,        \* frames are numbered modulo this
  MaxUnasked      \* bound: writes without room until the decoder has read everything

\* The lengths of the code satisfy this; that the largest frame fits does not
\* follow from the code, which takes any --bits-fifo size and any file.
ASSUME BitsFifoAssumption ==
  /\ {bsb_size, MaxFrame, UpesLength, EosLength, Safe, Numbers} \subseteq Nat \ {0}
  /\ {UseqLength, HEADER_SIZE, EosRequest, MaxUnasked} \subseteq Nat
  /\ UseqLength + UpesLength + EosLength <= HEADER_SIZE
  /\ EosLength <= EosRequest
  /\ MaxFrame + HEADER_SIZE + Safe < bsb_size
  /\ EosRequest + Safe < bsb_size

VARIABLES
  bsb,              \* bsb[a]: the byte at address p_bsb_start + a
  p_bsb_cur,        \* where the next byte goes; may be the end of the ring
  seq_header_sent,
  feeder,           \* "off", "next", "request", "copy", "exit_wait", "stopped"
  pieces,           \* lengths of the pieces still to copy
  request,          \* size passed to request_bits_fifo, 0 once it returned
  p_frame_start,
  written,          \* bytes of the frame copied so far
  ends_stream,      \* this frame ends the stream
  number,           \* number of the frame
  frames,           \* the intervals handed to the decoder, oldest first
  unasked           \* history: how often the thread wrote where it had no room, since
                    \* it last found the ring read to its end

fifoVars == <<bsb, p_bsb_cur, seq_header_sent, feeder, pieces, request,
              p_frame_start, written, ends_stream, number, frames, unasked>>

Addresses == 0 .. bsb_size - 1
Unused == <<-1, 0>>

FifoStart(state) ==
  /\ feeder = state
  /\ bsb = [a \in Addresses |-> Unused]
  /\ p_bsb_cur = 0 /\ p_frame_start = 0
  /\ seq_header_sent = FALSE
  /\ pieces = <<>> /\ request = 0 /\ written = 0 /\ ends_stream = FALSE
  /\ number = 0 /\ frames = <<>> /\ unasked = 0
FifoInit == FifoStart("next")
FifoOff == FifoStart("off")

\* The address of the byte k places after p, p being possibly the end of the ring.
Address(p, k) == IF p + k < bsb_size THEN p + k ELSE p + k - bsb_size

\* copy_to_bsb returns the end of the ring when the copy ends there.
CopyPastEnd(p, size) == p + size                                         \* mutant
AfterCopy(p, size) ==
  IF p + size <= bsb_size THEN p + size ELSE p + size - bsb_size

Headers == IF seq_header_sent THEN <<UpesLength>> ELSE <<UseqLength, UpesLength>>

\* The size the code asks for before it copies a frame of size bytes.
RequestPayloadOnly(size) == size                                         \* mutant
RequestFor(size) == size + HEADER_SIZE

\* The next frame of the file, the ends_stream one with an end code behind it, or the
\* end code alone when the file ended with a whole frame.
NextFrame ==
  /\ feeder = "next"
  /\ \/ \E size \in 1 .. MaxFrame :
          /\ request' = RequestFor(size)
          /\ \E end \in BOOLEAN :
               /\ ends_stream' = end
               /\ pieces' = Headers \o <<size>> \o (IF end THEN <<EosLength>> ELSE <<>>)
          /\ seq_header_sent' = TRUE
     \/ /\ request' = EosRequest
        /\ pieces' = <<EosLength>>
        /\ ends_stream' = TRUE
        /\ UNCHANGED seq_header_sent
  /\ feeder' = "request"
  /\ p_frame_start' = p_bsb_cur
  /\ unasked' = IF frames = <<>> THEN 0 ELSE unasked
  /\ UNCHANGED <<bsb, p_bsb_cur, written, number, frames>>

\* The driver compares the room between the write address it is given and the
\* oldest byte the decoder still needs with the size asked for.
Room ==
  LET ahead == Head(frames).start - p_bsb_cur
  IN  IF frames = <<>> THEN bsb_size
      ELSE IF ahead < 0 THEN ahead + bsb_size
      ELSE IF ahead = bsb_size THEN 0 ELSE ahead        \* the end of the ring is its start

\* request_bits_fifo: the call returns when there is room.
RequestBitsFifo ==
  /\ feeder = "request"
  /\ Room >= request + Safe
  /\ feeder' = "copy"
  /\ request' = 0
  /\ UNCHANGED <<bsb, p_bsb_cur, seq_header_sent, pieces, p_frame_start,
                 written, ends_stream, number, frames, unasked>>

\* IAV_IOC_WAIT_DECODER fails: request_bits_fifo says so, nobody looks, and the copy goes on.
RequestFails ==
  /\ feeder = "request"
  /\ Room < request + Safe
  /\ unasked < MaxUnasked
  /\ unasked' = unasked + 1
  /\ feeder' = "copy"
  /\ request' = 0
  /\ UNCHANGED <<bsb, p_bsb_cur, seq_header_sent, pieces, p_frame_start,
                 written, ends_stream, number, frames>>

\* copy_to_bsb, once for each header and once for the data
CopyToBsb ==
  /\ feeder = "copy" /\ pieces # <<>>
  /\ LET size == Head(pieces)
         at(k) == Address(p_bsb_cur, k)
     IN  /\ bsb' = [a \in Addresses |->
                      IF \E k \in 0 .. size - 1 : a = at(k)
                        THEN <<number, written + (CHOOSE k \in 0 .. size - 1 : a = at(k))>>
                        ELSE bsb[a]]
         /\ p_bsb_cur' = AfterCopy(p_bsb_cur, size)
         /\ written' = written + size
  /\ pieces' = Tail(pieces)
  /\ UNCHANGED <<seq_header_sent, feeder, request, p_frame_start, ends_stream, number,
                 frames, unasked>>

\* IAV_IOC_UDEC_DECODE: start_addr and end_addr.  length and number are not
\* passed: they record what was written.
UdecDecode ==
  /\ feeder = "copy" /\ pieces = <<>>
  /\ frames' = Append(frames, [start |-> p_frame_start, end |-> p_bsb_cur,
                               length |-> written, number |-> number])
  /\ number' = IF number + 1 = Numbers THEN 0 ELSE number + 1
  /\ feeder' = IF ends_stream THEN "exit_wait" ELSE "next"
  /\ written' = 0 /\ ends_stream' = FALSE
  /\ UNCHANGED <<bsb, p_bsb_cur, seq_header_sent, pieces, request, p_frame_start, unasked>>

\* The driver refuses the frame, and the thread ends.
UdecDecodeFails ==
  /\ feeder = "copy" /\ pieces = <<>>
  /\ feeder' = "stopped"
  /\ written' = 0 /\ ends_stream' = FALSE
  /\ UNCHANGED <<bsb, p_bsb_cur, seq_header_sent, pieces, request, p_frame_start, number,
                 frames, unasked>>

\* The thread is told to feed the file again: p_bsb_cur starts at bits_fifo_start, wherever
\* the decoder is.
FeedAgain ==
  /\ feeder = "exit_wait"
  /\ \/ frames = <<>> /\ UNCHANGED unasked
     \/ frames # <<>> /\ unasked < MaxUnasked /\ unasked' = unasked + 1
  /\ p_bsb_cur' = 0
  /\ feeder' = "next"
  /\ UNCHANGED <<bsb, seq_header_sent, pieces, request, p_frame_start, written, ends_stream,
                 number, frames>>

\* The decoder has read its oldest frame; what those bytes hold no longer matters.
Consume ==
  /\ frames # <<>>
  /\ frames' = Tail(frames)
  /\ bsb' = [a \in Addresses |-> IF bsb[a][1] = Head(frames).number THEN Unused ELSE bsb[a]]
  /\ UNCHANGED <<p_bsb_cur, seq_header_sent, feeder, pieces, request, p_frame_start,
                 written, ends_stream, number, unasked>>

FifoNext ==
  \/ NextFrame \/ RequestBitsFifo \/ RequestFails \/ CopyToBsb
  \/ UdecDecode \/ UdecDecodeFails \/ FeedAgain \/ Consume

\* The thread runs, and a decoder that is not paused reads what it was given.
FifoFairness ==
  /\ WF_fifoVars(NextFrame \/ RequestBitsFifo \/ CopyToBsb \/ UdecDecode)
  /\ WF_fifoVars(Consume)

-----------------------------------------------------------------------------

\* The write address stays in the ring or at its end, and every interval handed
\* to the decoder has its ends there.
FifoTypeOK ==
  /\ p_bsb_cur \in 0 .. bsb_size
  /\ feeder \in {"off", "next", "request", "copy", "exit_wait", "stopped"}
  /\ written \in 0 .. bsb_size
  /\ \A i \in DOMAIN frames :
       frames[i].start \in 0 .. bsb_size /\ frames[i].end \in 0 .. bsb_size

\* The bytes of an interval of the ring, as the decoder counts them.
IntervalLength(f) ==
  IF f.end > f.start THEN f.end - f.start ELSE f.end - f.start + bsb_size

\* Every frame the decoder has not read yet is intact: the interval it was given
\* has the length that was written, across the end of the ring too, and each byte
\* of it is still the one that was written there.  Only a request that failed for want
\* of room, or a restart over unread frames, can spoil one, and no longer than until the
\* thread begins a frame and finds everything read.
FramesIntact ==
  unasked = 0 =>
    \A i \in DOMAIN frames :
      LET f == frames[i]
      IN  /\ IntervalLength(f) = f.length
          /\ \A k \in 0 .. f.length - 1 : bsb[Address(f.start, k)] = <<f.number, k>>

\* Room asked for comes: the request is never larger than what a decoder that reads on
\* can leave, wherever in the ring the last frame ended.
RoomComes == feeder = "request" ~> feeder = "copy"
=============================================================================
