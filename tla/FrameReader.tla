----------------------------- MODULE FrameReader -----------------------------
(***************************************************************************)
(* How a udec_instance thread of mudec.c cuts its file into frames: a      *)
(* buffer p_es of at most MaxMem bytes is filled, get_next_start_code      *)
(* finds where the frame at p_cur ends, and when DATA_PARSE_MIN_SIZE bytes *)
(* or less are left they move to the front and the buffer is filled up.    *)
(* What is left at the end of the file goes out in one piece.              *)
(*                                                                         *)
(* A cell of the buffer holds the place in the file its byte comes from,   *)
(* so that lost, doubled and stale bytes show.  memcpy from p_cur to p_es, *)
(* whose ranges may overlap, copies upwards as the C library of the board  *)
(* does.  The thread's commands are in module Mudec.                       *)
(***************************************************************************)
EXTENDS Integers, Sequences

CONSTANTS
  MaxMem,               \* 8*1024*1024
  DATA_PARSE_MIN_SIZE,
  Streams,  \* the files: [type |-> an esType, bytes, frames |-> where their frames end]
  Beyond    \* what the byte behind the buffer may be

VARIABLES
  stream, mdec_loop, test_decode_one_trunk,
  es,               \* es[a]: place in the file of the byte at p_es + a
  p_cur,            \* offset in p_es
  size,             \* bytes from p_cur on that are not fed yet
  bytes_left_in_file,
  reader,           \* "off", "frames", "left", "done", "crashed"
  fed               \* the pieces of this pass through the file: [bytes, num_pics]

readerVars == <<stream, mdec_loop, test_decode_one_trunk, es, p_cur, size,
                bytes_left_in_file, reader, fed>>

totsize == Len(stream.bytes)
mem_size == IF totsize > MaxMem THEN MaxMem ELSE totsize

Codes ==
  [H264 |-> [seq |-> \h7D, pic |-> \h7B,
             spec_pic |-> {b \in 0 .. 255 : b % 32 \in 1 .. 5},
             spec_seq |-> {b \in 0 .. 255 : b % 32 \in 6 .. 9}],
   MP12 |-> [seq |-> \hB3, pic |-> 0, spec_pic |-> {0}, spec_seq |-> {\hB3, \hB8}],
   MP4H |-> [seq |-> \hC4, pic |-> \hC5, spec_pic |-> {\hB6}, spec_seq |-> {}],
   VC1  |-> [seq |-> \h71, pic |-> \h72, spec_pic |-> {\h0C, \h0D},
             spec_seq |-> {\h0E, \h0F}]]

\* The byte b behind 0 0 1, with those at offset at: a second picture, or a header
\* in front of one, ends the frame.  Once a wrapper of the DSP has been seen only
\* wrappers count.
StartCode(type, r, b, at, first) ==
  LET c == Codes[type]
      amba == r.amba \/ b \in {c.seq, c.pic}
      pic == b = c.pic \/ (~ r.amba /\ b \in c.spec_pic)
      seq == b = c.seq \/ (~ r.amba /\ b \in c.spec_seq)
      zero == IF ~ amba /\ type = "H264" THEN first ELSE b
  IN  IF r.cnt = 1 /\ (pic \/ seq) THEN [r EXCEPT !.size = at]
      ELSE [state |-> IF pic \/ zero # 0 \/ (seq /\ type # "H264") \/ b = c.seq THEN 0 ELSE 1,
            cnt |-> IF pic THEN 1 ELSE r.cnt, amba |-> amba, size |-> r.size]

\* The states of a loop after 0, 1, ... turns.
AfterTurns(first, turn) ==
  LET after[k \in Nat] == IF k = 0 THEN first ELSE turn[k - 1][after[k - 1]]
  IN  after

\* The loop of get_next_start_code; turn k looks at the byte at offset k from pstart.
ScanStates == [state : 0 .. 3, cnt : 1 .. 2, amba : BOOLEAN, size : Int]
ScanByte(type, buf, pstart) ==
  [k \in Nat |-> [r \in ScanStates |->
     LET b == buf[pstart + k]
     IN  IF r.size # 0 THEN r
         ELSE IF r.state = 3 THEN StartCode(type, r, b, k - 3, buf[pstart])
         ELSE [r EXCEPT !.state = IF b = 0 THEN IF r.state = 2 THEN 2 ELSE r.state + 1
                                  ELSE IF r.state = 2 /\ b = 1 THEN 3 ELSE 0]]]
Scan(type, buf, pstart) ==
  AfterTurns([state |-> 0, cnt |-> 2, amba |-> FALSE, size |-> 0], ScanByte(type, buf, pstart))

\* get_next_start_code; pend itself is looked at.
NextStartCode(type, buf, pstart, pend) == Scan(type, buf, pstart)[pend - pstart + 1].size

\* The loop of total_frame_count.
CountStates == [at : Int, cnt : Nat, over : BOOLEAN]
CountFrame(type, buf, end) ==
  [k \in Nat |-> [w \in CountStates |->
     IF w.over \/ w.at >= end THEN w
     ELSE LET n == NextStartCode(type, buf, w.at, end)
          IN  [at |-> w.at + n, cnt |-> w.cnt + 1, over |-> n = 0]]]
FrameCount(type, buf, end) ==
  AfterTurns([at |-> 0, cnt |-> 0, over |-> FALSE], CountFrame(type, buf, end))[end].cnt

\* Where the i-th frame of a file ends: the zero byte of a four-byte start code goes
\* with the frame before it.
Cut(s, i) ==
  IF i = 0 THEN 0
  ELSE IF i < Len(s.frames)
          /\ \A z \in 1 .. 3 : s.frames[i] + z <= Len(s.bytes) /\ s.bytes[s.frames[i] + z] = 0
       THEN s.frames[i] + 1 ELSE s.frames[i]

\* The frames of a file are those that get_next_start_code finds in it, if it sees the whole
\* file; behind the last one it finds nothing, whatever the byte behind the file.
FileBytes(s, b) == [a \in 0 .. Len(s.bytes) |-> IF a = Len(s.bytes) THEN b ELSE s.bytes[a + 1]]
FramesFound(s) ==
  LET n == Len(s.frames)
      end == Len(s.bytes)
  IN  /\ \A i \in 1 .. n - 1 :
           NextStartCode(s.type, FileBytes(s, 0), Cut(s, i - 1), end - 1) = Cut(s, i) - Cut(s, i - 1)
      /\ \A b \in 0 .. 255 : NextStartCode(s.type, FileBytes(s, b), Cut(s, n - 1), end) = 0
ASSUME FrameReaderAssumption ==
  /\ {MaxMem, DATA_PARSE_MIN_SIZE} \subseteq Nat /\ DATA_PARSE_MIN_SIZE < MaxMem
  /\ Beyond \subseteq 0 .. 255
  /\ \A s \in Streams :
       /\ s.type \in DOMAIN Codes /\ s.bytes \in Seq(0 .. 255)
       /\ s.frames \in Seq(Nat) /\ s.frames # <<>> /\ Cut(s, Len(s.frames)) = Len(s.bytes)
       /\ \A i \in DOMAIN s.frames : Cut(s, i) - Cut(s, i - 1) \in Nat \ {0}
       /\ FramesFound(s)

\* No frame of the file is longer than DATA_PARSE_MIN_SIZE, which the code does not check.
FramesFit(s) == \A i \in DOMAIN s.frames : Cut(s, i) - Cut(s, i - 1) <= DATA_PARSE_MIN_SIZE

\* The buffer as bytes, with one value or another in the byte behind it.
BytesOf(cells, beyond) ==
  [a \in 0 .. mem_size |-> IF a = mem_size THEN beyond ELSE stream.bytes[cells[a] + 1]]

ReaderOff ==
  /\ stream \in Streams /\ stream = CHOOSE s \in Streams : TRUE
  /\ mdec_loop = FALSE /\ test_decode_one_trunk = FALSE
  /\ es = <<>> /\ p_cur = 0 /\ size = 0 /\ bytes_left_in_file = 0
  /\ reader = "off" /\ fed = <<>>

\* repeat_feeding
ReaderInit ==
  /\ stream \in Streams
  /\ mdec_loop \in BOOLEAN /\ test_decode_one_trunk \in BOOLEAN
  /\ es = [a \in 0 .. mem_size - 1 |-> a]
  /\ p_cur = 0 /\ size = mem_size /\ bytes_left_in_file = totsize - mem_size
  /\ reader = "frames" /\ fed = <<>>

Piece(cells, from, length, num_pics) ==
  [bytes |-> [i \in 1 .. length |-> cells[from + i - 1]], num_pics |-> num_pics]

\* size is unsigned: with more fed than was left it is larger than any buffer.
WrappedSize == MaxMem + DATA_PARSE_MIN_SIZE + 1
SizeLeft(sendsize) == IF size # WrappedSize /\ sendsize <= size THEN size - sendsize ELSE WrappedSize

\* Behind the bytes that are left the scan goes on through what an earlier fill left there.
FeedFrame ==
  /\ reader = "frames" /\ size > DATA_PARSE_MIN_SIZE
  /\ \E beyond \in Beyond :
       LET sendsize == NextStartCode(stream.type, BytesOf(es, beyond), p_cur, mem_size)
       IN  /\ sendsize # 0
           /\ fed' = Append(fed, Piece(es, p_cur, sendsize, 1))
           /\ p_cur' = p_cur + sendsize
           /\ size' = SizeLeft(sendsize)
  /\ UNCHANGED <<stream, mdec_loop, test_decode_one_trunk, es, bytes_left_in_file, reader>>

NoFrame ==
  /\ reader = "frames"
  /\ \/ size <= DATA_PARSE_MIN_SIZE
     \/ \E beyond \in Beyond : NextStartCode(stream.type, BytesOf(es, beyond), p_cur, mem_size) = 0
  /\ reader' = "left"
  /\ UNCHANGED <<stream, mdec_loop, test_decode_one_trunk, es, p_cur, size,
                 bytes_left_in_file, fed>>

\* The whole file is fed, or one buffer of it where that is all that is wanted.
TrunkDone == test_decode_one_trunk \/ (size = 0 /\ bytes_left_in_file = 0)

\* What fread puts behind the size bytes that moved to the front.
FillAtCur(n) == IF mem_size - size >= n THEN n ELSE mem_size - size
RefilledInPlace(n) ==                                                    \* mutant
  [a \in 0 .. mem_size - 1 |->
     IF a < size THEN es[a]
     ELSE IF a < size + n THEN totsize - bytes_left_in_file + a - size ELSE es[a]]
Refilled(n) ==
  [a \in 0 .. mem_size - 1 |->
     IF a < size THEN es[p_cur + a]
     ELSE IF a < size + n THEN totsize - bytes_left_in_file + a - size ELSE es[a]]

\* After a refill what is left goes out in one piece, in a loop it is dropped.
WaitsForMore(n) == bytes_left_in_file = n /\ n # 0 /\ size + n <= DATA_PARSE_MIN_SIZE  \* mutant
LastPiece(n) == bytes_left_in_file = n /\ (n = 0 \/ size + n <= DATA_PARSE_MIN_SIZE)

Repeat ==
  /\ reader = "left" /\ mdec_loop
  /\ TrunkDone \/ (size # WrappedSize /\ LastPiece(FillAtCur(bytes_left_in_file)))
  /\ es' = [a \in 0 .. mem_size - 1 |-> a]
  /\ p_cur' = 0 /\ size' = mem_size /\ bytes_left_in_file' = totsize - mem_size
  /\ reader' = "frames" /\ fed' = <<>>
  /\ UNCHANGED <<stream, mdec_loop, test_decode_one_trunk>>

\* The end code alone: no pictures.
FeedEos ==
  /\ reader = "left" /\ ~ mdec_loop /\ TrunkDone
  /\ fed' = Append(fed, Piece(es, 0, 0, 0))
  /\ reader' = "done"
  /\ UNCHANGED <<stream, mdec_loop, test_decode_one_trunk, es, p_cur, size,
                 bytes_left_in_file>>

\* The refill, and with it the last piece.
FeedLast ==
  /\ reader = "left" /\ ~ mdec_loop /\ ~ TrunkDone /\ size # WrappedSize
  /\ LET n == FillAtCur(bytes_left_in_file)
     IN  /\ LastPiece(n)
         /\ es' = Refilled(n) /\ size' = size + n /\ bytes_left_in_file' = 0
         /\ \E beyond \in Beyond :
              fed' = Append(fed, Piece(es', 0, size + n,
                                       FrameCount(stream.type, BytesOf(es', beyond), size + n)))
  /\ p_cur' = 0
  /\ reader' = "done"
  /\ UNCHANGED <<stream, mdec_loop, test_decode_one_trunk>>

Refill ==
  /\ reader = "left" /\ ~ TrunkDone /\ size # WrappedSize
  /\ LET n == FillAtCur(bytes_left_in_file)
     IN  /\ ~ LastPiece(n)
         /\ es' = Refilled(n) /\ size' = size + n
         /\ bytes_left_in_file' = bytes_left_in_file - n
  /\ p_cur' = 0
  /\ reader' = "frames"
  /\ UNCHANGED <<stream, mdec_loop, test_decode_one_trunk, fed>>

\* memcpy of a size that has wrapped.
Crash ==
  /\ reader = "left" /\ ~ TrunkDone /\ size = WrappedSize
  /\ reader' = "crashed"
  /\ UNCHANGED <<stream, mdec_loop, test_decode_one_trunk, es, p_cur, size,
                 bytes_left_in_file, fed>>

ReaderNext == FeedFrame \/ NoFrame \/ Repeat \/ FeedEos \/ FeedLast \/ Refill \/ Crash

ReaderFairness == WF_readerVars(ReaderNext)

-----------------------------------------------------------------------------

\* Every variable has its type.
ReaderTypeOK ==
  /\ p_cur \in 0 .. MaxMem /\ size \in 0 .. MaxMem \cup {WrappedSize}
  /\ bytes_left_in_file \in 0 .. totsize
  /\ reader \in {"off", "frames", "left", "done", "crashed"}

FrameOf(i) == [k \in 1 .. Cut(stream, i) - Cut(stream, i - 1) |-> Cut(stream, i - 1) + k - 1]

\* The place in the file behind the pieces before the i-th.
FedBefore(i) == IF i = 1 THEN 0 ELSE fed[i - 1].bytes[Len(fed[i - 1].bytes)] + 1

\* Across every refill of the buffer the pieces continue one another: no byte of the
\* file is lost, fed twice or taken from what an earlier fill left behind.
NothingLostAtRefill ==
  \A i \in DOMAIN fed : \A k \in DOMAIN fed[i].bytes : fed[i].bytes[k] = FedBefore(i) + k - 1

\* Every piece but the last one is one whole frame with its headers in front, even
\* if the byte behind the buffer was looked at to find its end.
PiecesAreFrames ==
  \A i \in DOMAIN fed :
    fed[i].bytes = FrameOf(i) \/ (reader = "done" /\ i = Len(fed))

\* When the thread is done it has fed the whole file, and the pictures it announced
\* are the frames of the file.
AllFramesAnnounced ==
  reader = "done" /\ ~ test_decode_one_trunk =>
    /\ FedBefore(Len(fed)) + Len(fed[Len(fed)].bytes) = totsize
    /\ \A i \in 1 .. Len(fed) - 1 : fed[i].num_pics = 1
    /\ Len(fed) - 1 + fed[Len(fed)].num_pics = Len(stream.frames)

\* The file goes to the decoder whole, in order, cut between its frames, and with the
\* right number of pictures, wherever the window's edges fall, if no frame of it is too long.
WholeFramesFed ==
  FramesFit(stream) => NothingLostAtRefill /\ PiecesAreFrames /\ AllFramesAnnounced

\* Without a loop such a file comes to its end: every refill brings a frame nearer.
FeedingEnds == reader = "frames" /\ ~ mdec_loop /\ FramesFit(stream) ~> reader = "done"
=============================================================================
