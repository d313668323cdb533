---------------------------- MODULE BitsFifoProofs ----------------------------
(***************************************************************************)
(* How mudec.c feeds a decoder.                                            *)
(*                                                                         *)
(* The bits fifo for any size of ring, any headers and any frames that     *)
(* fit: what the decoder was given and has not read is written over only   *)
(* by a request that failed for want of room or a restart over unread      *)
(* frames, and no longer than until everything is read.                    *)
(*                                                                         *)
(* The bit writer: the headers hold the bits that were asked for.  The     *)
(* argument follows the place of each field: Starts says at which bit it   *)
(* begins, what was asked for is in the buffer as far as the writer has    *)
(* come, and the rest of it is still in the value being written.           *)
(*                                                                         *)
(* The file reader: whole frames, in order, whatever the size of the       *)
(* buffer.  A scan from a frame's start finds its end if it sees the rest  *)
(* of the file (CutFound); if it sees more bytes than a frame has, and     *)
(* any byte behind them, it finds that end or none (CutNotMistaken).  So   *)
(* the buffer, a window of the file, is cut where the file is.             *)
(***************************************************************************)
EXTENDS BitsFifo, BitsWriter, FrameReader, SequenceTheorems, WellFoundedInduction, TLAPS

\* The bytes from address p on to address q, all of the ring when they are the same.
Distance(p, q) == IF q > p THEN q - p ELSE q - p + bsb_size
Behind(f) == Distance(f.start, p_bsb_cur)

Intervals ==
  [start : 0 .. bsb_size, end : 0 .. bsb_size, length : 1 .. bsb_size, number : 0 .. Numbers - 1]

\* What is left to copy: two headers, a frame and an end code at most.
PartOf(s, k) == IF k <= Len(s) THEN s[k] ELSE 0
Total(s) == PartOf(s, 1) + PartOf(s, 2) + PartOf(s, 3) + PartOf(s, 4)

FifoTypes ==
  /\ FifoTypeOK
  /\ feeder # "off" /\ p_frame_start \in 0 .. bsb_size
  /\ bsb \in [Addresses -> Int \X Int]
  /\ pieces \in Seq(Nat) /\ Len(pieces) <= 4
  /\ request \in Nat /\ number \in 0 .. Numbers - 1
  /\ frames \in Seq(Intervals)

\* The frame under way: what is written of it ends where the next byte goes.
Writing ==
  /\ feeder \in {"request", "copy"} => p_bsb_cur = AfterCopy(p_frame_start, written)
  /\ feeder \in {"request", "copy"} => written + Total(pieces) > 0
  /\ feeder # "copy" => written = 0
  /\ feeder = "request" => Total(pieces) <= request
  /\ \A k \in 0 .. written - 1 : bsb[Address(p_frame_start, k)] = <<number, k>>

\* From the oldest byte that the decoder still needs on, the ring holds the frames in
\* their order, then what is written of the next, with the room that was asked for.
Used == IF frames = <<>> THEN written ELSE Behind(frames[1])
RoomKept ==
  Used + Safe + (IF feeder = "copy" THEN Total(pieces) ELSE 0) <= bsb_size

FramesInOrder ==
  /\ \A i \in 1 .. Len(frames) : Behind(frames[i]) - frames[i].length >= written
  /\ \A i, j \in 1 .. Len(frames) :
       i < j => Behind(frames[i]) - frames[i].length >= Behind(frames[j])

\* The frames are numbered one after the other, and no two have the same number: each
\* takes a byte at least.
Before(n, k) == IF n >= k THEN n - k ELSE n - k + Numbers
Numbered ==
  \A i \in 1 .. Len(frames) :
    /\ frames[i].number = Before(number, Len(frames) + 1 - i)
    /\ Behind(frames[i]) >= Len(frames) + 1 - i + written

Given ==
  \A i \in 1 .. Len(frames) :
    /\ frames[i].end = AfterCopy(frames[i].start, frames[i].length)
    /\ \A k \in 0 .. frames[i].length - 1 :
         bsb[Address(frames[i].start, k)] = <<frames[i].number, k>>

FifoInv == FifoTypes /\ Writing /\ RoomKept /\ FramesInOrder /\ Numbered /\ Given

\* What holds even when the thread writes without room: what it copies fits in the ring.
Fits ==
  /\ feeder \in {"request", "copy"} => written + Total(pieces) \in 1 .. bsb_size
  /\ feeder # "copy" => written = 0

FedInv == FifoTypes /\ Fits /\ unasked \in Nat /\ (unasked = 0 => FifoInv)

-----------------------------------------------------------------------------
(* Addresses *)

LEMMA SizesFit ==
  /\ bsb_size \in Nat \ {0} /\ MaxFrame \in Nat \ {0} /\ UpesLength \in Nat \ {0}
  /\ EosLength \in Nat \ {0} /\ Safe \in Nat \ {0} /\ Numbers \in Nat \ {0}
  /\ UseqLength \in Nat /\ HEADER_SIZE \in Nat /\ EosRequest \in Nat
  /\ UseqLength + UpesLength + EosLength <= HEADER_SIZE /\ EosLength <= EosRequest
  /\ Safe < bsb_size /\ MaxFrame + HEADER_SIZE <= bsb_size /\ EosLength <= bsb_size
<1>1. /\ {bsb_size, MaxFrame, UpesLength, EosLength, Safe, Numbers} \subseteq Nat \ {0}
      /\ {UseqLength, HEADER_SIZE, EosRequest} \subseteq Nat
      /\ UseqLength + UpesLength + EosLength <= HEADER_SIZE /\ EosLength <= EosRequest
      /\ MaxFrame + HEADER_SIZE + Safe < bsb_size /\ EosRequest + Safe < bsb_size
  BY BitsFifoAssumption
<1>2. /\ bsb_size \in Nat \ {0} /\ MaxFrame \in Nat \ {0} /\ UpesLength \in Nat \ {0}
      /\ EosLength \in Nat \ {0} /\ Safe \in Nat \ {0} /\ Numbers \in Nat \ {0}
      /\ UseqLength \in Nat /\ HEADER_SIZE \in Nat /\ EosRequest \in Nat
  BY <1>1
<1> QED BY <1>1, <1>2

\* A copy moves the next byte away from every byte before it, by its size.
LEMMA CopyMoves ==
  ASSUME NEW p \in 0 .. bsb_size, NEW c \in 0 .. bsb_size, NEW len \in Nat,
         Distance(p, c) + len <= bsb_size
  PROVE  /\ Distance(p, c) \in Nat /\ AfterCopy(c, len) \in 0 .. bsb_size
         /\ Distance(p, AfterCopy(c, len)) = Distance(p, c) + len
BY SizesFit DEF Distance, AfterCopy

\* What a copy of so many bytes wrote from p on is that long, in one piece or in two.
LEMMA CopyLength ==
  ASSUME NEW p \in 0 .. bsb_size, NEW w \in 1 .. bsb_size
  PROVE  Distance(p, AfterCopy(p, w)) = w /\ AfterCopy(p, w) \in 0 .. bsb_size
BY SizesFit DEF Distance, AfterCopy

\* Two copies, one behind the other.
LEMMA CopyTwice ==
  ASSUME NEW p \in 0 .. bsb_size, NEW w \in Nat, NEW len \in Nat, w + len <= bsb_size
  PROVE  /\ AfterCopy(p, w) \in 0 .. bsb_size
         /\ AfterCopy(AfterCopy(p, w), len) = AfterCopy(p, w + len)
         /\ \A k \in 0 .. len - 1 : Address(AfterCopy(p, w), k) = Address(p, w + k)
BY SizesFit DEF AfterCopy, Address

LEMMA AddressIn ==
  ASSUME NEW p \in 0 .. bsb_size, NEW k \in 0 .. bsb_size - 1
  PROVE  Address(p, k) \in Addresses
BY SizesFit DEF Address, Addresses

LEMMA AddressOnce ==
  ASSUME NEW p \in 0 .. bsb_size, NEW k \in 0 .. bsb_size - 1, NEW l \in 0 .. bsb_size - 1,
         Address(p, k) = Address(p, l)
  PROVE  k = l
BY SizesFit DEF Address

\* The bytes from p on to c, and those from c on, are not the same as long as both
\* fit in the ring.
LEMMA Apart ==
  ASSUME NEW p \in 0 .. bsb_size, NEW c \in 0 .. bsb_size, NEW len \in Nat,
         Distance(p, c) + len <= bsb_size,
         NEW k \in 0 .. Distance(p, c) - 1, NEW l \in 0 .. len - 1
  PROVE  Address(p, k) # Address(c, l)
BY SizesFit DEF Distance, Address

\* The room that the driver counts is what is not Used.
LEMMA RoomIsRest ==
  ASSUME NEW p \in 0 .. bsb_size, frames # <<>>, Head(frames).start = p,
         p_bsb_cur \in 0 .. bsb_size, Distance(p, p_bsb_cur) \in 1 .. bsb_size - 1
  PROVE  Room = bsb_size - Distance(p, p_bsb_cur)
BY SizesFit DEF Distance, Room

\* Numbers before n differ from it and from each other.
LEMMA NumbersDiffer ==
  ASSUME NEW n \in 0 .. Numbers - 1
  PROVE  /\ \A k \in 1 .. Numbers - 1 : Before(n, k) \in 0 .. Numbers - 1 /\ Before(n, k) # n
         /\ \A k, l \in 1 .. Numbers - 1 : Before(n, k) = Before(n, l) => k = l
BY SizesFit DEF Before

LEMMA NextNumber ==
  ASSUME NEW n \in 0 .. Numbers - 1, NEW m, m = IF n + 1 = Numbers THEN 0 ELSE n + 1
  PROVE  /\ m \in 0 .. Numbers - 1
         /\ \A k \in 1 .. Numbers - 2 : Before(m, k + 1) = Before(n, k)
         /\ Numbers > 1 => Before(m, 1) = n
BY SizesFit DEF Before

-----------------------------------------------------------------------------
(* The steps *)

\* What is known of a frame in the fifo.
LEMMA FrameFacts ==
  ASSUME FifoTypes, NEW i \in 1 .. Len(frames)
  PROVE  /\ frames[i] \in Intervals /\ frames[i].start \in 0 .. bsb_size
         /\ frames[i].length \in 1 .. bsb_size /\ frames[i].number \in 0 .. Numbers - 1
         /\ Behind(frames[i]) \in Int
<1>1. frames[i] \in Intervals
  BY ElementOfSeq DEF FifoTypes
<1>2. p_bsb_cur \in 0 .. bsb_size
  BY DEF FifoTypes, FifoTypeOK
<1> QED BY <1>1, <1>2, SizesFit DEF Intervals, Behind, Distance

\* The oldest frame is the furthest behind, and nothing is further behind than Used.
LEMMA UsedIsMost ==
  ASSUME FifoTypes, RoomKept, FramesInOrder
  PROVE  /\ Used \in Int /\ written \in Nat /\ written <= Used /\ Len(frames) \in Nat
         /\ \A i \in 1 .. Len(frames) :
              Behind(frames[i]) <= Used /\ Behind(frames[i]) >= frames[i].length
<1>1. Len(frames) \in Nat /\ (frames # <<>> => 1 \in 1 .. Len(frames))
  BY EmptySeq, LenProperties DEF FifoTypes
<1>2. written \in Nat
  BY DEF FifoTypes, FifoTypeOK
<1>3. CASE frames = <<>>
  <2>1. Len(frames) = 0
    BY <1>3, EmptySeq
  <2> QED BY <1>1, <1>2, <1>3, <2>1 DEF Used
<1>4. CASE frames # <<>>
  <2>1. Used = Behind(frames[1]) /\ Used \in Int
    BY <1>1, <1>4, FrameFacts DEF Used
  <2>2. ASSUME NEW i \in 1 .. Len(frames)
        PROVE  Behind(frames[i]) <= Used /\ Behind(frames[i]) >= frames[i].length
               /\ Behind(frames[i]) >= written
    <3>1. /\ Behind(frames[i]) \in Int /\ frames[i].length \in Nat
          /\ Behind(frames[i]) - frames[i].length >= written
          /\ Behind(frames[1]) \in Int /\ frames[1].length \in Nat
      BY <1>1, <1>4, FrameFacts DEF FramesInOrder
    <3>2. i = 1 \/ Behind(frames[1]) - frames[1].length >= Behind(frames[i])
      BY <1>1, <1>4 DEF FramesInOrder
    <3> QED BY <1>2, <2>1, <3>1, <3>2
  <2> QED BY <1>1, <1>2, <1>4, <2>1, <2>2
<1> QED BY <1>3, <1>4

LEMMA FifoInitInv == FifoInit => FifoInv
<1> SUFFICES ASSUME FifoInit PROVE FifoInv
  OBVIOUS
<1>1. /\ feeder = "next" /\ bsb = [a \in Addresses |-> Unused] /\ p_bsb_cur = 0
      /\ p_frame_start = 0 /\ pieces = <<>> /\ request = 0 /\ written = 0
      /\ ends_stream = FALSE /\ number = 0 /\ frames = <<>>
  BY DEF FifoInit, FifoStart
<1>2. /\ Len(frames) = 0 /\ Len(pieces) = 0 /\ frames \in Seq(Intervals) /\ pieces \in Seq(Nat)
      /\ DOMAIN frames = {}
  BY <1>1, EmptySeq
<1>3. FifoTypes
  BY <1>1, <1>2, SizesFit DEF FifoTypes, FifoTypeOK, Unused
<1>4. RoomKept /\ Writing
  BY <1>1, SizesFit DEF RoomKept, Writing, Used
<1>5. FramesInOrder /\ Numbered /\ Given
  BY <1>2 DEF FramesInOrder, Numbered, Given
<1> QED BY <1>3, <1>4, <1>5 DEF FifoInv

LEMMA PiecesJoined ==
  ASSUME NEW s \in Seq(Nat), NEW t \in Seq(Nat)
  PROVE  /\ s \o t \in Seq(Nat) /\ Len(s \o t) = Len(s) + Len(t)
         /\ \A k \in 1 .. Len(s) : (s \o t)[k] = s[k]
         /\ Len(t) = 1 => (s \o t)[Len(s) + 1] = t[1]
<1> DEFINE st == s \o t
<1>1. /\ st \in Seq(Nat) /\ Len(st) = Len(s) + Len(t)
      /\ \A i \in 1 .. Len(s) + Len(t) : st[i] = IF i <= Len(s) THEN s[i] ELSE t[i - Len(s)]
  BY ConcatProperties, Zenon
<1>2. Len(s) \in Nat /\ Len(t) \in Nat
  BY LenProperties
<1> HIDE DEF st
<1>3. \A k \in 1 .. Len(s) : st[k] = s[k]
  BY <1>1, <1>2
<1>4. Len(t) = 1 => st[Len(s) + 1] = t[1]
  <2>1. Len(s) + 1 - Len(s) = 1 /\ ~ (Len(s) + 1 <= Len(s))
    BY <1>2
  <2>2. Len(t) = 1 => Len(s) + 1 \in 1 .. Len(s) + Len(t)
    BY <1>2
  <2> QED BY <1>1, <2>1, <2>2
<1> QED BY <1>1, <1>3, <1>4 DEF st

\* The headers, the frame and the end code: the length of them all.
LEMMA ThreePieces ==
  ASSUME NEW h \in Seq(Nat), Len(h) \in {1, 2}, NEW f \in Seq(Nat), Len(f) = 1,
         NEW e \in Seq(Nat), Len(e) \in {0, 1}
  PROVE  /\ h \o f \o e \in Seq(Nat) /\ Len(h \o f \o e) <= 4
         /\ Total(h \o f \o e) = Total(h) + Total(f) + Total(e)
<1> DEFINE hf == h \o f
<1>1. /\ hf \in Seq(Nat) /\ Len(hf) = Len(h) + Len(f)
      /\ \A k \in 1 .. Len(h) : hf[k] = h[k]
      /\ Len(f) = 1 => hf[Len(h) + 1] = f[1]
  BY PiecesJoined, Zenon
<1> HIDE DEF hf
<1> DEFINE all == hf \o e
<1>2. /\ all \in Seq(Nat) /\ Len(all) = Len(hf) + Len(e)
      /\ \A k \in 1 .. Len(hf) : all[k] = hf[k]
      /\ Len(e) = 1 => all[Len(hf) + 1] = e[1]
  BY <1>1, PiecesJoined, Zenon
<1> HIDE DEF all
<1>3. /\ Len(h) = 2 => h[2] \in Nat
      /\ Len(e) = 1 => e[1] \in Nat
      /\ h[1] \in Nat /\ f[1] \in Nat
  BY ElementOfSeq
<1>4. CASE Len(h) = 1
  <2>1. Len(hf) = 2 /\ hf[1] = h[1] /\ hf[2] = f[1]
    BY <1>1, <1>4
  <2>2. all[1] = h[1] /\ all[2] = f[1] /\ Len(all) = 2 + Len(e) /\ (Len(e) = 1 => all[3] = e[1])
    BY <1>2, <2>1
  <2> QED BY <1>2, <1>3, <1>4, <2>2 DEF all, hf, Total, PartOf
<1>5. CASE Len(h) = 2
  <2>1. Len(hf) = 3 /\ hf[1] = h[1] /\ hf[2] = h[2] /\ hf[3] = f[1]
    BY <1>1, <1>5
  <2>2. /\ all[1] = h[1] /\ all[2] = h[2] /\ all[3] = f[1]
        /\ Len(all) = 3 + Len(e) /\ (Len(e) = 1 => all[4] = e[1])
    BY <1>2, <2>1, SMTT(60)
  <2> QED BY <1>2, <1>3, <1>5, <2>2, SMTT(60) DEF all, hf, Total, PartOf
<1> QED BY <1>4, <1>5

\* The lengths that are copied for a frame: all fit in what is asked for.
LEMMA PiecesFit ==
  ASSUME NextFrame
  PROVE  /\ pieces' \in Seq(Nat) /\ Len(pieces') <= 4 /\ Total(pieces') > 0
         /\ request' \in Nat /\ Total(pieces') <= request' /\ Total(pieces') <= bsb_size
<1>1. ASSUME NEW len \in 1 .. MaxFrame, request' = RequestFor(len),
             NEW end \in BOOLEAN,
             pieces' = Headers \o <<len>> \o (IF end THEN <<EosLength>> ELSE <<>>)
      PROVE  /\ pieces' \in Seq(Nat) /\ Len(pieces') <= 4 /\ Total(pieces') > 0
             /\ request' \in Nat /\ Total(pieces') <= request' /\ Total(pieces') <= bsb_size
  <2> DEFINE h == Headers
             f == <<len>>
             e == IF end THEN <<EosLength>> ELSE <<>>
  <2>1. request' = len + HEADER_SIZE /\ len \in Nat \ {0}
    BY <1>1, SizesFit DEF RequestFor
  <2>2. h \in Seq(Nat) /\ Len(h) \in {1, 2} /\ Total(h) \in 1 .. UseqLength + UpesLength
    BY SizesFit DEF Headers, Total, PartOf
  <2>3. f \in Seq(Nat) /\ Len(f) = 1 /\ Total(f) = len
    BY <2>1 DEF Total, PartOf
  <2>4. e \in Seq(Nat) /\ Len(e) \in {0, 1} /\ Total(e) \in 0 .. EosLength
    BY SizesFit DEF Total, PartOf
  <2>5. pieces' = h \o f \o e
    BY <1>1
  <2> HIDE DEF h, f, e
  <2>6. /\ h \o f \o e \in Seq(Nat) /\ Len(h \o f \o e) <= 4
        /\ Total(h \o f \o e) = Total(h) + Total(f) + Total(e)
    BY <2>2, <2>3, <2>4, ThreePieces
  <2>7. pieces' \in Seq(Nat) /\ Len(pieces') <= 4
        /\ Total(pieces') = Total(h) + Total(f) + Total(e)
    BY <2>5, <2>6, Zenon
  <2> QED BY <2>1, <2>2, <2>3, <2>4, <2>7, SizesFit
<1>2. ASSUME request' = EosRequest, pieces' = <<EosLength>>
      PROVE  /\ pieces' \in Seq(Nat) /\ Len(pieces') <= 4 /\ Total(pieces') > 0
             /\ request' \in Nat /\ Total(pieces') <= request' /\ Total(pieces') <= bsb_size
  BY <1>2, SizesFit DEF Total, PartOf
<1> QED BY <1>1, <1>2 DEF NextFrame

LEMMA NextFrameKeeps == FifoInv /\ NextFrame => FifoInv'
<1> SUFFICES ASSUME FifoInv, NextFrame PROVE FifoInv'
  OBVIOUS
<1>1. /\ feeder = "next" /\ feeder' = "request" /\ p_frame_start' = p_bsb_cur
      /\ UNCHANGED <<bsb, p_bsb_cur, written, number, frames>>
  BY DEF NextFrame
<1>2. written = 0
  BY <1>1 DEF FifoInv, Writing
<1>3. FifoTypes'
  BY <1>1, PiecesFit DEF FifoInv, FifoTypes, FifoTypeOK
<1>4. Writing'
  <2>1. AfterCopy(p_bsb_cur, 0) = p_bsb_cur
    BY SizesFit DEF AfterCopy, FifoInv, FifoTypes, FifoTypeOK
  <2>2. Total(pieces') \in Int
    BY <1>3, SMTT(60) DEF Total, PartOf, FifoTypes
  <2>3. p_bsb_cur' = AfterCopy(p_frame_start', written')
    BY <1>1, <1>2, <2>1
  <2>4. written' + Total(pieces') > 0 /\ written' = 0
    <3>1. Total(pieces') > 0
      BY PiecesFit
    <3>2. written' = 0
      BY <1>1, <1>2
    <3> QED BY <2>2, <3>1, <3>2
  <2>5. \A k \in 0 .. written' - 1 : FALSE
    BY <2>4
  <2> QED BY <1>1, <2>3, <2>4, <2>5, PiecesFit DEF Writing
<1>5. RoomKept'
  BY <1>1 DEF FifoInv, RoomKept, Used, Behind
<1>6. FramesInOrder' /\ Numbered' /\ Given'
  BY <1>1 DEF FifoInv, FramesInOrder, Numbered, Given, Behind
<1> QED BY <1>3, <1>4, <1>5, <1>6 DEF FifoInv

LEMMA RequestKeeps == FifoInv /\ RequestBitsFifo => FifoInv'
<1> SUFFICES ASSUME FifoInv, RequestBitsFifo PROVE FifoInv'
  OBVIOUS
<1>1. /\ feeder = "request" /\ feeder' = "copy" /\ request' = 0 /\ Room >= request + Safe
      /\ UNCHANGED <<bsb, p_bsb_cur, pieces, p_frame_start, written, number, frames>>
  BY DEF RequestBitsFifo
<1>2. FifoTypes'
  BY <1>1 DEF FifoInv, FifoTypes, FifoTypeOK
<1>3. Writing'
  <2>1. Total(pieces') = Total(pieces)
    BY <1>1 DEF Total, PartOf
  <2> QED BY <1>1, <2>1 DEF FifoInv, Writing
<1>4. RoomKept'
  <2>1. written = 0 /\ Total(pieces') = Total(pieces) /\ Total(pieces) <= request /\ request \in Nat
    BY <1>1 DEF FifoInv, Writing, FifoTypes, Total, PartOf
  <2>2. Total(pieces) \in Int /\ Used' = Used /\ Used + Safe <= bsb_size
    <3>1. Total(pieces) \in Int
      BY SMTT(60) DEF FifoInv, FifoTypes, Total, PartOf
    <3>2. Used' = Used
      BY <1>1 DEF Used, Behind
    <3>3. Used \in Int
      BY UsedIsMost DEF FifoInv
    <3> QED BY <1>1, <3>1, <3>2, <3>3, SizesFit DEF FifoInv, RoomKept
  <2>3. Used \in Int /\ Used >= 0
    BY UsedIsMost DEF FifoInv
  <2>4. Used + request + Safe <= bsb_size
    <3>1. CASE frames = <<>>
      BY <1>1, <2>1, <3>1, SizesFit DEF Room, Used
    <3>2. CASE frames # <<>>
      <4>1. 1 \in 1 .. Len(frames) /\ Head(frames) = frames[1]
        BY <3>2, EmptySeq DEF FifoInv, FifoTypes
      <4>2. Used = Distance(frames[1].start, p_bsb_cur) /\ Used >= 1
        BY <3>2, <4>1, FrameFacts, UsedIsMost DEF FifoInv, Used, Behind
      <4>3. Used \in 1 .. bsb_size - 1
        BY <2>2, <2>3, <4>2, SizesFit
      <4>4. Room = bsb_size - Used
        BY <3>2, <4>1, <4>2, <4>3, FrameFacts, RoomIsRest DEF FifoInv, FifoTypes, FifoTypeOK
      <4> QED BY <1>1, <2>1, <2>3, <4>4, SizesFit
    <3> QED BY <3>1, <3>2
  <2> QED BY <1>1, <2>1, <2>2, <2>3, <2>4, SizesFit DEF RoomKept
<1>5. FramesInOrder' /\ Numbered' /\ Given'
  BY <1>1 DEF FifoInv, FramesInOrder, Numbered, Given, Behind
<1> QED BY <1>2, <1>3, <1>4, <1>5 DEF FifoInv

\* The first of the pieces, and the rest.
LEMMA FirstPiece ==
  ASSUME pieces \in Seq(Nat), Len(pieces) <= 4, pieces # <<>>
  PROVE  /\ Head(pieces) \in Nat /\ Tail(pieces) \in Seq(Nat)
         /\ Len(Tail(pieces)) = Len(pieces) - 1 /\ Len(Tail(pieces)) <= 4
         /\ Total(pieces) = Head(pieces) + Total(Tail(pieces)) /\ Total(Tail(pieces)) \in Nat
<1> DEFINE len == Head(pieces)
<1>1. /\ Tail(pieces) \in Seq(Nat) /\ Len(Tail(pieces)) = Len(pieces) - 1
      /\ \A i \in 1 .. Len(Tail(pieces)) : Tail(pieces)[i] = pieces[i + 1]
  BY HeadTailProperties
<1>2. /\ Len(pieces) \in 1 .. 4 /\ len = pieces[1]
      /\ \A i \in 1 .. Len(pieces) : pieces[i] \in Nat
  <2>1. Len(pieces) \in Nat \ {0}
    BY EmptySeq
  <2>2. \A i \in 1 .. Len(pieces) : pieces[i] \in Nat
    BY ElementOfSeq
  <2>3. len = pieces[1]
    BY <2>1
  <2>4. Len(pieces) \in 1 .. 4
    <3>1. PICK n : n = Len(pieces)
      OBVIOUS
    <3>2. n \in Nat \ {0} /\ n <= 4
      BY <2>1, <3>1, Zenon
    <3>3. n \in 1 .. 4
      BY <3>2
    <3> QED BY <3>1, <3>3, Zenon
  <2> QED BY <2>2, <2>3, <2>4
<1>3. /\ PartOf(Tail(pieces), 1) = PartOf(pieces, 2) /\ PartOf(Tail(pieces), 2) = PartOf(pieces, 3)
      /\ PartOf(Tail(pieces), 3) = PartOf(pieces, 4)
  BY <1>1, <1>2 DEF PartOf
<1>4. PartOf(Tail(pieces), 4) = 0 /\ PartOf(pieces, 1) = len
  BY <1>1, <1>2 DEF PartOf
<1>5. /\ PartOf(pieces, 1) \in Nat /\ PartOf(pieces, 2) \in Nat
      /\ PartOf(pieces, 3) \in Nat /\ PartOf(pieces, 4) \in Nat
  BY <1>2 DEF PartOf
<1> HIDE DEF len
<1>6. Total(pieces) = len + Total(Tail(pieces)) /\ Total(Tail(pieces)) \in Nat /\ len \in Nat
  BY <1>3, <1>4, <1>5 DEF Total
<1>7. Len(Tail(pieces)) <= 4
  BY <1>1, <1>2
<1> QED BY <1>1, <1>6, <1>7 DEF len

LEMMA CopyKeeps == FifoInv /\ CopyToBsb => FifoInv'
<1> SUFFICES ASSUME FifoInv, CopyToBsb PROVE FifoInv'
  OBVIOUS
<1> DEFINE len == Head(pieces)
           c == p_bsb_cur
<1>1. /\ feeder = "copy" /\ pieces # <<>> /\ pieces' = Tail(pieces)
      /\ p_bsb_cur' = AfterCopy(c, len) /\ written' = written + len
      /\ bsb' = [a \in Addresses |->
                   IF \E k \in 0 .. len - 1 : a = Address(c, k)
                     THEN <<number, written + (CHOOSE k \in 0 .. len - 1 : a = Address(c, k))>>
                     ELSE bsb[a]]
      /\ UNCHANGED <<feeder, request, p_frame_start, number, frames>>
  BY DEF CopyToBsb
<1>2. /\ c \in 0 .. bsb_size /\ p_frame_start \in 0 .. bsb_size /\ number \in 0 .. Numbers - 1
      /\ bsb \in [Addresses -> Int \X Int] /\ pieces \in Seq(Nat) /\ Len(pieces) <= 4
  BY DEF FifoInv, FifoTypes, FifoTypeOK
<1>3. /\ len \in Nat /\ Tail(pieces) \in Seq(Nat) /\ Len(Tail(pieces)) = Len(pieces) - 1
      /\ Total(pieces) = len + Total(Tail(pieces)) /\ Total(Tail(pieces)) \in Nat
  BY <1>1, <1>2, FirstPiece
<1> HIDE DEF len, c
<1>4. /\ Used \in Int /\ written \in Nat /\ written <= Used /\ Len(frames) \in Nat
      /\ \A i \in 1 .. Len(frames) :
           Behind(frames[i]) <= Used /\ Behind(frames[i]) >= frames[i].length
  BY UsedIsMost DEF FifoInv
<1>5. Used + len + Total(Tail(pieces)) + Safe <= bsb_size
  <2>1. Used + Safe + Total(pieces) <= bsb_size
    BY <1>1 DEF FifoInv, RoomKept
  <2> QED BY <1>3, <1>4, <2>1, SizesFit
<1>6. Used + len <= bsb_size - Safe /\ len < bsb_size
  BY <1>3, <1>4, <1>5, SizesFit
\* What is written, and that nothing else is.
<1>7. ASSUME NEW k \in 0 .. len - 1
      PROVE  Address(c, k) \in Addresses /\ bsb'[Address(c, k)] = <<number, written + k>>
  <2>1. k \in 0 .. bsb_size - 1 /\ \A l \in 0 .. len - 1 : l \in 0 .. bsb_size - 1
    BY <1>3, <1>6, SizesFit
  <2>2. Address(c, k) \in Addresses
    BY <1>2, <2>1, AddressIn
  <2>3. (CHOOSE l \in 0 .. len - 1 : Address(c, k) = Address(c, l)) = k
    BY <1>2, <2>1, AddressOnce
  <2> QED BY <1>1, <2>2, <2>3
<1>8. ASSUME NEW a \in Addresses, \A k \in 0 .. len - 1 : a # Address(c, k)
      PROVE  bsb'[a] = bsb[a]
  BY <1>1, <1>8
\* The frames move back.
<1>9. ASSUME NEW i \in 1 .. Len(frames)
      PROVE  /\ Behind(frames[i])' = Behind(frames[i]) + len
             /\ Behind(frames[i]) \in Nat /\ Behind(frames[i]) + len <= bsb_size
             /\ p_bsb_cur' \in 0 .. bsb_size
  <2>1. frames[i].start \in 0 .. bsb_size
    BY FrameFacts DEF FifoInv
  <2>2. Distance(frames[i].start, c) + len <= bsb_size
    BY <1>3, <1>4, <1>6, <2>1, FrameFacts, SizesFit DEF FifoInv, Behind, c
  <2>3. /\ Distance(frames[i].start, AfterCopy(c, len)) = Distance(frames[i].start, c) + len
        /\ AfterCopy(c, len) \in 0 .. bsb_size /\ Distance(frames[i].start, c) \in Nat
    BY <1>2, <1>3, <2>1, <2>2, CopyMoves
  <2> QED BY <1>1, <2>2, <2>3 DEF Behind, c
<1>10. /\ AfterCopy(c, len) \in 0 .. bsb_size
       /\ AfterCopy(c, len) = AfterCopy(p_frame_start, written + len)
       /\ \A k \in 0 .. len - 1 : Address(c, k) = Address(p_frame_start, written + k)
  <2>1. c = AfterCopy(p_frame_start, written)
    BY <1>1 DEF FifoInv, Writing, c
  <2>2. written + len <= bsb_size
    BY <1>3, <1>4, <1>6, SizesFit
  <2>3. AfterCopy(c, len) \in 0 .. bsb_size
    BY <1>2, <1>3, <1>6, SizesFit DEF AfterCopy
  <2> QED BY <1>2, <1>3, <1>4, <2>1, <2>2, <2>3, CopyTwice
<1>11. FifoTypes'
  <2>1. bsb' \in [Addresses -> Int \X Int]
    <3>1. ASSUME NEW a \in Addresses, \E k \in 0 .. len - 1 : a = Address(c, k)
          PROVE  written + (CHOOSE k \in 0 .. len - 1 : a = Address(c, k)) \in Int
      BY <1>3, <1>4, <3>1
    <3> QED BY <1>1, <1>2, <3>1
  <2>2. written' \in 0 .. bsb_size /\ Len(pieces') <= 4
    BY <1>1, <1>2, <1>3, <1>4, <1>6, SizesFit
  <2> QED BY <1>1, <1>3, <1>10, <2>1, <2>2 DEF FifoInv, FifoTypes, FifoTypeOK
<1>12. Writing'
  <2>1. written' + Total(pieces') > 0
    BY <1>1, <1>3, <1>4 DEF FifoInv, Writing
  <2>2. ASSUME NEW k \in 0 .. written' - 1
        PROVE  bsb'[Address(p_frame_start, k)] = <<number, k>>
    <3>1. CASE k < written
      <4>1. k \in 0 .. written - 1 /\ k \in 0 .. bsb_size - 1 /\ written \in 1 .. bsb_size
        BY <1>3, <1>4, <1>6, <3>1, SizesFit
      <4>2. bsb[Address(p_frame_start, k)] = <<number, k>>
        BY <4>1 DEF FifoInv, Writing
      <4>3. Distance(p_frame_start, c) = written
        BY <1>1, <1>2, <4>1, CopyLength DEF FifoInv, Writing, c
      <4>4. \A l \in 0 .. len - 1 : Address(p_frame_start, k) # Address(c, l)
        <5>1. Distance(p_frame_start, c) + len <= bsb_size
          BY <1>3, <1>4, <1>6, <4>3, SizesFit
        <5>2. k \in 0 .. Distance(p_frame_start, c) - 1
          BY <4>1, <4>3
        <5> QED BY <1>2, <1>3, <5>1, <5>2, Apart
      <4>5. Address(p_frame_start, k) \in Addresses
        BY <1>2, <4>1, AddressIn
      <4> QED BY <1>8, <4>2, <4>4, <4>5
    <3>2. CASE ~ (k < written)
      <4>1. k - written \in 0 .. len - 1 /\ written + (k - written) = k
        BY <1>1, <1>3, <1>4, <3>2
      <4> QED BY <1>7, <1>10, <4>1
    <3> QED BY <3>1, <3>2
  <2> QED BY <1>1, <1>10, <2>1, <2>2 DEF Writing
<1>13. RoomKept'
  <2>1. Used' = Used + len
    <3>1. CASE frames = <<>>
      BY <1>1, <3>1 DEF Used
    <3>2. CASE frames # <<>>
      <4>1. 1 \in 1 .. Len(frames)
        BY <3>2, EmptySeq DEF FifoInv, FifoTypes
      <4> QED BY <1>1, <1>9, <3>2, <4>1 DEF Used
    <3> QED BY <3>1, <3>2
  <2>2. PICK u : u = Used'
    OBVIOUS
  <2>3. u + Safe + Total(pieces') <= bsb_size
    BY <1>1, <1>3, <1>4, <1>5, <2>1, <2>2, SizesFit
  <2> QED BY <1>1, <2>2, <2>3 DEF RoomKept
<1>14. FramesInOrder'
  <2>1. \A i \in 1 .. Len(frames) : frames[i].length \in Nat
    BY FrameFacts DEF FifoInv
  <2>2. ASSUME NEW i \in 1 .. Len(frames)
        PROVE  Behind(frames[i])' - frames[i].length >= written'
    <3>1. PICK b : b = Behind(frames[i])'
      OBVIOUS
    <3> QED BY <1>1, <1>3, <1>4, <1>9, <2>1, <3>1, SMTT(60) DEF FifoInv, FramesInOrder
  <2>3. ASSUME NEW i \in 1 .. Len(frames), NEW j \in 1 .. Len(frames), i < j
        PROVE  Behind(frames[i])' - frames[i].length >= Behind(frames[j])'
    <3>1. PICK b : b = Behind(frames[i])'
      OBVIOUS
    <3>2. PICK d : d = Behind(frames[j])'
      OBVIOUS
    <3>3. /\ b = Behind(frames[i]) + len /\ d = Behind(frames[j]) + len
          /\ Behind(frames[i]) \in Nat /\ Behind(frames[j]) \in Nat
      BY <1>9, <3>1, <3>2
    <3>4. Behind(frames[i]) - frames[i].length >= Behind(frames[j])
      BY <2>3 DEF FifoInv, FramesInOrder
    <3>5. b - frames[i].length >= d
      BY <1>3, <2>1, <3>3, <3>4, SMTT(60)
    <3> QED BY <3>1, <3>2, <3>5
  <2> QED BY <1>1, <2>2, <2>3 DEF FramesInOrder
<1>15. Numbered'
  <2>1. ASSUME NEW i \in 1 .. Len(frames)
        PROVE  Behind(frames[i])' >= Len(frames) + 1 - i + written'
    <3>1. PICK b : b = Behind(frames[i])'
      OBVIOUS
    <3> QED BY <1>1, <1>3, <1>4, <1>9, <3>1 DEF FifoInv, Numbered
  <2> QED BY <1>1, <2>1 DEF FifoInv, Numbered
<1>16. Given'
  <2>1. ASSUME NEW i \in 1 .. Len(frames), NEW k \in 0 .. frames[i].length - 1
        PROVE  bsb'[Address(frames[i].start, k)] = bsb[Address(frames[i].start, k)]
    <3>1. frames[i].start \in 0 .. bsb_size /\ frames[i].length \in 1 .. bsb_size
      BY FrameFacts DEF FifoInv
    <3>2. Behind(frames[i]) = Distance(frames[i].start, c)
      BY DEF Behind, c
    <3>3. k \in 0 .. Distance(frames[i].start, c) - 1 /\ k \in 0 .. bsb_size - 1
      <4>1. PICK n : n = frames[i].length /\ n \in 1 .. bsb_size /\ k \in 0 .. n - 1
        BY <3>1, Zenon
      <4>2. Behind(frames[i]) >= n
        BY <1>4, <4>1, Zenon
      <4>3. PICK d : d = Behind(frames[i]) /\ d \in Nat /\ d >= n
        BY <1>9, <4>2, Zenon
      <4>4. k \in 0 .. d - 1 /\ k \in 0 .. bsb_size - 1
        BY <4>1, <4>3, SizesFit, SMT
      <4> QED BY <3>2, <4>3, <4>4, Zenon
    <3>4. \A l \in 0 .. len - 1 : Address(frames[i].start, k) # Address(c, l)
      BY <1>2, <1>3, <1>9, <3>1, <3>2, <3>3, Apart
    <3>5. Address(frames[i].start, k) \in Addresses
      BY <3>1, <3>3, AddressIn
    <3> QED BY <1>8, <3>4, <3>5
  <2>2. ASSUME NEW i \in 1 .. Len(frames)
        PROVE  /\ frames[i].end = AfterCopy(frames[i].start, frames[i].length)
               /\ \A k \in 0 .. frames[i].length - 1 :
                    bsb'[Address(frames[i].start, k)] = <<frames[i].number, k>>
    BY <2>1 DEF FifoInv, Given
  <2> QED BY <1>1, <2>2 DEF Given
<1> QED BY <1>11, <1>12, <1>13, <1>14, <1>15, <1>16 DEF FifoInv

\* A file that is fed again when it has been played to its end finds the ring empty.
LEMMA FeedAgainKeeps == FifoInv /\ FeedAgain /\ frames = <<>> => FifoInv'
<1> SUFFICES ASSUME FifoInv, FeedAgain, frames = <<>> PROVE FifoInv'
  OBVIOUS
<1>1. /\ feeder = "exit_wait" /\ frames = <<>> /\ p_bsb_cur' = 0 /\ feeder' = "next"
      /\ UNCHANGED <<bsb, pieces, request, p_frame_start, written, number, frames>>
  BY DEF FeedAgain
<1>2. Len(frames') = 0 /\ written' = 0
  BY <1>1, EmptySeq DEF FifoInv, Writing
<1>3. FifoTypes'
  BY <1>1, SizesFit DEF FifoInv, FifoTypes, FifoTypeOK
<1>4. Writing'
  BY <1>1, <1>2 DEF FifoInv, Writing
<1>5. RoomKept'
  BY <1>1, <1>2, SizesFit DEF RoomKept, Used
<1>6. FramesInOrder' /\ Numbered' /\ Given'
  BY <1>2 DEF FramesInOrder, Numbered, Given
<1> QED BY <1>3, <1>4, <1>5, <1>6 DEF FifoInv

\* The frames and the one under way have fewer bytes than there are numbers.
LEMMA FewFrames ==
  ASSUME FifoInv, bsb_size <= Numbers
  PROVE  Len(frames) + written \in 0 .. Numbers - 1
<1>1. /\ Used \in Int /\ written \in Nat /\ written <= Used /\ Len(frames) \in Nat
      /\ \A i \in 1 .. Len(frames) : Behind(frames[i]) <= Used
  BY UsedIsMost DEF FifoInv
<1>2. Used <= bsb_size - 1
  <2>1. Total(pieces) \in Nat
    BY SMTT(60) DEF FifoInv, FifoTypes, Total, PartOf
  <2>2. CASE feeder = "copy"
    <3>1. Used + Safe + Total(pieces) <= bsb_size
      BY <2>2 DEF FifoInv, RoomKept
    <3> QED BY <1>1, <2>1, <3>1, SizesFit
  <2>3. CASE feeder # "copy"
    <3>1. Used + Safe + 0 <= bsb_size
      BY <2>3 DEF FifoInv, RoomKept
    <3> QED BY <1>1, <3>1, SizesFit
  <2> QED BY <2>2, <2>3
<1>3. Len(frames) + written <= Used
  <2>1. CASE Len(frames) = 0
    BY <1>1, <2>1
  <2>2. CASE Len(frames) > 0
    <3>1. 1 \in 1 .. Len(frames) /\ Len(frames) + 1 - 1 + written = Len(frames) + written
      BY <1>1, <2>2
    <3>2. Behind(frames[1]) >= Len(frames) + 1 - 1 + written /\ Behind(frames[1]) <= Used
      BY <1>1, <3>1 DEF FifoInv, Numbered
    <3>3. Behind(frames[1]) \in Int
      BY <3>1, FrameFacts DEF FifoInv
    <3> QED BY <1>1, <3>1, <3>2, <3>3
  <2> QED BY <1>1, <2>1, <2>2
<1> QED BY <1>1, <1>2, <1>3, SizesFit

LEMMA DecodeKeeps == bsb_size <= Numbers /\ FifoInv /\ UdecDecode => FifoInv'
<1> SUFFICES ASSUME bsb_size <= Numbers, FifoInv, UdecDecode PROVE FifoInv'
  OBVIOUS
<1>0. PICK last, f :
        /\ last = Len(frames) + 1
        /\ f = [start |-> p_frame_start, end |-> p_bsb_cur, length |-> written, number |-> number]
  OBVIOUS
<1>1. /\ feeder = "copy" /\ pieces = <<>> /\ frames' = Append(frames, f)
      /\ number' = IF number + 1 = Numbers THEN 0 ELSE number + 1
      /\ feeder' \in {"exit_wait", "next"} /\ written' = 0
      /\ UNCHANGED <<bsb, p_bsb_cur, pieces, request, p_frame_start>>
  BY <1>0 DEF UdecDecode
<1>2. /\ p_bsb_cur \in 0 .. bsb_size /\ p_frame_start \in 0 .. bsb_size
      /\ number \in 0 .. Numbers - 1 /\ frames \in Seq(Intervals) /\ Len(frames) \in Nat
      /\ written \in 0 .. bsb_size
  BY LenProperties DEF FifoInv, FifoTypes, FifoTypeOK
<1>17. Len(frames) \in Nat /\ last = Len(frames) + 1
  BY <1>0, <1>2
<1>3. Total(pieces) = 0
  BY <1>1, EmptySeq DEF Total, PartOf
<1>4. /\ written \in 1 .. bsb_size /\ p_bsb_cur = AfterCopy(p_frame_start, written)
      /\ \A k \in 0 .. written - 1 : bsb[Address(p_frame_start, k)] = <<number, k>>
  <2>1. /\ written + Total(pieces) > 0 /\ p_bsb_cur = AfterCopy(p_frame_start, written)
        /\ \A k \in 0 .. written - 1 : bsb[Address(p_frame_start, k)] = <<number, k>>
    BY <1>1 DEF FifoInv, Writing
  <2>2. written \in 1 .. bsb_size
    BY <1>2, <1>3, <2>1, SizesFit
  <2> QED BY <2>1, <2>2
<1>5. /\ f \in Intervals /\ f.start = p_frame_start /\ f.end = p_bsb_cur
      /\ f.length = written /\ f.number = number
  BY <1>0, <1>2, <1>4 DEF Intervals
<1>6. /\ frames' \in Seq(Intervals) /\ Len(frames') = last /\ frames'[last] = f
      /\ \A i \in 1 .. Len(frames) : frames'[i] = frames[i]
  BY <1>0, <1>1, <1>2, <1>5, AppendProperties
<1>7. Behind(f)' = written
  <2>1. Distance(p_frame_start, p_bsb_cur) = written
    BY <1>2, <1>4, CopyLength
  <2>2. Behind(f)' = Distance(f.start, p_bsb_cur)
    BY <1>1 DEF Behind
  <2> QED BY <1>5, <2>1, <2>2, Zenon
<1>8. ASSUME NEW i \in 1 .. Len(frames)
      PROVE  /\ frames'[i] = frames[i] /\ Behind(frames[i])' = Behind(frames[i])
             /\ Behind(frames[i]) \in Int /\ frames[i].length \in 1 .. bsb_size
             /\ frames[i].number \in 0 .. Numbers - 1
  <2>1. frames'[i] = frames[i] /\ p_bsb_cur' = p_bsb_cur
    BY <1>1, <1>6
  <2> QED BY <2>1, FrameFacts DEF FifoInv, Behind
<1>9. frames'[last] = f /\ Behind(frames[last])' = written
  <2>1. frames'[last] = f
    BY <1>6
  <2>2. Behind(f)' = Distance(f.start, p_bsb_cur')
    BY DEF Behind
  <2>3. Behind(frames[last])' = Distance(frames'[last].start, p_bsb_cur')
    BY DEF Behind
  <2> QED BY <1>7, <2>1, <2>2, <2>3
<1>10. ASSUME NEW i \in 1 .. Len(frames')
       PROVE  i \in 1 .. Len(frames) \/ i = last
  BY <1>6, <1>10, <1>17
<1>11. FifoTypes'
  <2>1. number' \in 0 .. Numbers - 1
    BY <1>1, <1>2, NextNumber
  <2>2. FifoTypeOK'
    <3>1. \A i \in DOMAIN frames' : frames'[i] \in Intervals
      BY <1>6, ElementOfSeq, LenProperties
    <3> QED BY <1>1, <1>2, <3>1, SizesFit, SMTT(60) DEF FifoTypeOK, Intervals
  <2> QED BY <1>1, <1>6, <2>1, <2>2 DEF FifoInv, FifoTypes
<1>12. Writing'
  BY <1>1 DEF Writing
<1>13. RoomKept'
  <2>1. Used' = Used
    <3>1. CASE frames = <<>>
      <4>1. last = 1 /\ frames' # <<>>
        <5>1. Len(frames) = 0
          BY <3>1, EmptySeq
        <5>2. last = 1
          BY <1>17, <5>1
        <5> QED BY <1>6, <5>2, EmptySeq
      <4> QED BY <1>9, <3>1, <4>1 DEF Used
    <3>2. CASE frames # <<>>
      <4>1. 1 \in 1 .. Len(frames) /\ frames' # <<>>
        BY <1>2, <1>6, <1>17, <3>2, EmptySeq
      <4> QED BY <1>8, <3>2, <4>1 DEF Used
    <3> QED BY <3>1, <3>2
  <2>2. Used \in Int /\ Used + Safe + 0 <= bsb_size
    BY <1>1, <1>3, UsedIsMost DEF FifoInv, RoomKept
  <2>3. feeder' # "copy"
    BY <1>1
  <2> QED BY <2>1, <2>2, <2>3 DEF RoomKept
<1>14. FramesInOrder'
  <2>1. ASSUME NEW i \in 1 .. Len(frames)
        PROVE  Behind(frames[i]) - frames[i].length >= written
    BY DEF FifoInv, FramesInOrder
  <2>2. ASSUME NEW i \in 1 .. Len(frames')
        PROVE  Behind(frames[i])' - frames'[i].length >= written'
    <3>1. CASE i \in 1 .. Len(frames)
      <4>1. Behind(frames[i]) - frames[i].length >= written'
        BY <1>1, <1>4, <1>8, <2>1, <3>1
      <4> QED BY <1>8, <3>1, <4>1
    <3>2. CASE i = last
      <4>1. written - written >= written'
        BY <1>1, <1>4
      <4> QED BY <1>5, <1>9, <3>2, <4>1
    <3> QED BY <1>10, <3>1, <3>2
  <2>3. ASSUME NEW i \in 1 .. Len(frames'), NEW j \in 1 .. Len(frames'), i < j
        PROVE  Behind(frames[i])' - frames'[i].length >= Behind(frames[j])'
    <3>1. i \in 1 .. Len(frames)
      BY <1>6, <1>17, <2>3
    <3>2. CASE j \in 1 .. Len(frames)
      <4>1. Behind(frames[i]) - frames[i].length >= Behind(frames[j])
        BY <2>3, <3>1, <3>2 DEF FifoInv, FramesInOrder
      <4> QED BY <1>8, <3>1, <3>2, <4>1
    <3>3. CASE j = last
      <4>1. Behind(frames[i]) - frames[i].length >= written
        BY <2>1, <3>1
      <4> QED BY <1>8, <1>9, <3>1, <3>3, <4>1
    <3> QED BY <1>10, <3>2, <3>3
  <2> QED BY <2>2, <2>3 DEF FramesInOrder
<1>15. Numbered'
  <2>1. last \in 1 .. Numbers - 1 /\ Numbers > 1
    BY <1>4, <1>17, FewFrames, SizesFit
  <2>2. /\ \A k \in 1 .. Numbers - 2 : Before(number', k + 1) = Before(number, k)
        /\ Before(number', 1) = number
    BY <1>1, <1>2, <2>1, NextNumber
  <2>3. ASSUME NEW i \in 1 .. Len(frames')
        PROVE  /\ frames'[i].number = Before(number', last + 1 - i)
               /\ Behind(frames[i])' >= last + 1 - i + written'
    <3>1. CASE i \in 1 .. Len(frames)
      <4>1. /\ frames[i].number = Before(number, Len(frames) + 1 - i)
            /\ Behind(frames[i]) >= Len(frames) + 1 - i + written
        BY <3>1 DEF FifoInv, Numbered
      <4>2. Len(frames) + 1 - i \in 1 .. Numbers - 2
            /\ last + 1 - i = (Len(frames) + 1 - i) + 1
        <5>1. PICK n : n = Len(frames)
          OBVIOUS
        <5>2. n \in Nat /\ last = n + 1 /\ i \in 1 .. n
          BY <1>17, <3>1, <5>1, Zenon
        <5>3. n + 1 - i \in 1 .. Numbers - 2 /\ last + 1 - i = (n + 1 - i) + 1
          BY <2>1, <5>2, SizesFit
        <5> QED BY <5>1, <5>3, Zenon
      <4>3. frames'[i].number = Before(number', last + 1 - i)
        BY <1>8, <2>2, <3>1, <4>1, <4>2
      <4>4. Behind(frames[i]) >= last + 1 - i + written'
        BY <1>1, <1>4, <1>8, <1>17, <3>1, <4>1
      <4> QED BY <1>8, <3>1, <4>3, <4>4
    <3>2. CASE i = last
      <4>1. last + 1 - i = 1 /\ written >= last + 1 - i + written'
        BY <1>1, <1>4, <3>2
      <4> QED BY <1>5, <1>9, <2>2, <3>2, <4>1
    <3> QED BY <1>10, <3>1, <3>2
  <2> QED BY <1>6, <1>17, <2>3 DEF Numbered
<1>16. Given'
  <2>1. ASSUME NEW i \in 1 .. Len(frames')
        PROVE  /\ frames'[i].end = AfterCopy(frames'[i].start, frames'[i].length)
               /\ \A k \in 0 .. frames'[i].length - 1 :
                    bsb'[Address(frames'[i].start, k)] = <<frames'[i].number, k>>
    <3>1. CASE i \in 1 .. Len(frames)
      BY <1>1, <1>8, <3>1 DEF FifoInv, Given
    <3>2. CASE i = last
      BY <1>1, <1>4, <1>5, <1>6, <3>2
    <3> QED BY <1>10, <3>1, <3>2
  <2> QED BY <2>1 DEF Given
<1> QED BY <1>11, <1>12, <1>13, <1>14, <1>15, <1>16 DEF FifoInv

\* The decoder reads the bytes of its oldest frame: no other has their number.
LEMMA ConsumeKeeps == bsb_size <= Numbers /\ FifoInv /\ Consume => FifoInv'
<1> SUFFICES ASSUME bsb_size <= Numbers, FifoInv, Consume PROVE FifoInv'
  OBVIOUS
<1>1. /\ frames # <<>> /\ frames' = Tail(frames)
      /\ bsb' = [a \in Addresses |-> IF bsb[a][1] = Head(frames).number THEN Unused ELSE bsb[a]]
      /\ UNCHANGED <<p_bsb_cur, feeder, pieces, request, p_frame_start, written, number>>
  BY DEF Consume
<1>2. /\ p_bsb_cur \in 0 .. bsb_size /\ p_frame_start \in 0 .. bsb_size
      /\ number \in 0 .. Numbers - 1 /\ frames \in Seq(Intervals)
      /\ bsb \in [Addresses -> Int \X Int]
  BY DEF FifoInv, FifoTypes, FifoTypeOK
<1>3. PICK n : n = Len(frames)
  OBVIOUS
<1>4. n \in Nat \ {0} /\ Head(frames) = frames[1]
  BY <1>1, <1>2, <1>3, EmptySeq
<1>5. /\ frames' \in Seq(Intervals) /\ Len(frames') = n - 1
      /\ \A i \in 1 .. n - 1 : frames'[i] = frames[i + 1]
  BY <1>1, <1>2, <1>3, HeadTailProperties
<1>6. n + written \in 0 .. Numbers - 1 /\ written \in Nat
  BY <1>3, FewFrames DEF FifoInv, FifoTypes, FifoTypeOK
<1>7. Head(frames).number = Before(number, n) /\ Head(frames).number # number
  <2>1. 1 \in 1 .. n /\ n + 1 - 1 = n /\ n \in 1 .. Numbers - 1
    BY <1>4, <1>6, SizesFit
  <2>2. Head(frames).number = Before(number, n)
    BY <1>3, <1>4, <2>1 DEF FifoInv, Numbered
  <2> QED BY <1>2, <2>1, <2>2, NumbersDiffer
<1>8. ASSUME NEW i \in 1 .. n - 1
      PROVE  /\ i + 1 \in 1 .. n /\ i \in 1 .. n /\ frames'[i] = frames[i + 1]
             /\ frames[i + 1].number # Head(frames).number
             /\ Behind(frames[i])' = Behind(frames[i + 1])
             /\ Behind(frames[i + 1]) \in Int
             /\ frames[i + 1] \in Intervals /\ frames[i + 1].length \in 1 .. bsb_size
  <2>1. i + 1 \in 1 .. n /\ i \in 1 .. n /\ frames'[i] = frames[i + 1]
    BY <1>4, <1>5
  <2>2. n - i \in 1 .. Numbers - 1 /\ n \in 1 .. Numbers - 1 /\ n - i # n
        /\ n + 1 - (i + 1) = n - i
    BY <1>4, <1>6, SizesFit
  <2>3. frames[i + 1].number = Before(number, n - i)
    BY <1>3, <2>1, <2>2 DEF FifoInv, Numbered
  <2>4. frames[i + 1].number # Head(frames).number
    BY <1>2, <1>7, <2>2, <2>3, NumbersDiffer
  <2>5. Behind(frames[i])' = Behind(frames[i + 1])
    BY <1>1, <2>1 DEF Behind
  <2> QED BY <1>3, <2>1, <2>4, <2>5, FrameFacts DEF FifoInv
\* The bytes that stay.
<1>9. ASSUME NEW a \in Addresses, NEW m, NEW k, bsb[a] = <<m, k>>, m # Head(frames).number
      PROVE  bsb'[a] = <<m, k>>
  BY <1>1, <1>9
<1>10. FifoTypes'
  <2>1. bsb' \in [Addresses -> Int \X Int]
    BY <1>1, <1>2 DEF Unused
  <2>2. FifoTypeOK'
    <3>1. \A i \in DOMAIN frames' : frames'[i] \in Intervals
      BY <1>5, ElementOfSeq, LenProperties
    <3> QED BY <1>1, <3>1 DEF FifoTypeOK, Intervals, FifoInv, FifoTypes
  <2> QED BY <1>1, <1>5, <2>1, <2>2 DEF FifoInv, FifoTypes
<1>11. Writing'
  <2>1. ASSUME NEW k \in 0 .. written - 1
        PROVE  bsb'[Address(p_frame_start, k)] = <<number, k>>
    <3>1. bsb[Address(p_frame_start, k)] = <<number, k>>
      BY DEF FifoInv, Writing
    <3>2. k \in 0 .. bsb_size - 1
      <4>1. written \in 0 .. bsb_size
        BY DEF FifoInv, FifoTypes, FifoTypeOK
      <4> QED BY <4>1, SizesFit
    <3>3. Address(p_frame_start, k) \in Addresses
      BY <1>2, <3>2, AddressIn
    <3> QED BY <1>7, <1>9, <3>1, <3>3
  <2>2. Total(pieces') = Total(pieces)
    BY <1>1 DEF Total, PartOf
  <2> QED BY <1>1, <2>1, <2>2 DEF FifoInv, Writing
<1>12. RoomKept'
  <2>1. Used' \in Int /\ Used' <= Used
    <3>1. CASE frames' = <<>>
      BY <1>1, <3>1, UsedIsMost DEF FifoInv, Used
    <3>2. CASE frames' # <<>>
      <4>1. 1 \in 1 .. n - 1
        BY <1>4, <1>5, <3>2, EmptySeq
      <4>2. Used' = Behind(frames[1 + 1]) /\ 1 + 1 \in 1 .. n
        BY <1>8, <3>2, <4>1 DEF Used
      <4> QED BY <1>3, <1>8, <4>1, <4>2, UsedIsMost DEF FifoInv
    <3> QED BY <3>1, <3>2
  <2>2. PICK u : u = Used'
    OBVIOUS
  <2>3. PICK t : t = IF feeder = "copy" THEN Total(pieces) ELSE 0
    OBVIOUS
  <2>4. t \in Int /\ t = IF feeder' = "copy" THEN Total(pieces') ELSE 0
    BY <1>1, <2>3 DEF FifoInv, FifoTypes, Total, PartOf
  <2>5. Used + Safe + t <= bsb_size /\ Used \in Int
    BY <2>3, UsedIsMost DEF FifoInv, RoomKept
  <2>6. u + Safe + t <= bsb_size
    BY <2>1, <2>2, <2>4, <2>5, SizesFit
  <2> QED BY <2>2, <2>4, <2>6 DEF RoomKept
<1>13. FramesInOrder'
  <2>1. ASSUME NEW i \in 1 .. n - 1
        PROVE  Behind(frames[i])' - frames'[i].length >= written'
    <3>1. Behind(frames[i + 1]) - frames[i + 1].length >= written
      BY <1>3, <1>8 DEF FifoInv, FramesInOrder
    <3> QED BY <1>1, <1>8, <3>1
  <2>2. ASSUME NEW i \in 1 .. n - 1, NEW j \in 1 .. n - 1, i < j
        PROVE  Behind(frames[i])' - frames'[i].length >= Behind(frames[j])'
    <3>1. i + 1 < j + 1
      BY <2>2
    <3>2. Behind(frames[i + 1]) - frames[i + 1].length >= Behind(frames[j + 1])
      BY <1>3, <1>8, <3>1 DEF FifoInv, FramesInOrder
    <3> QED BY <1>8, <3>2
  <2> QED BY <1>5, <2>1, <2>2 DEF FramesInOrder
<1>14. Numbered'
  <2>1. ASSUME NEW i \in 1 .. n - 1
        PROVE  /\ frames'[i].number = Before(number', (n - 1) + 1 - i)
               /\ Behind(frames[i])' >= (n - 1) + 1 - i + written'
    <3>1. n + 1 - (i + 1) = (n - 1) + 1 - i
      BY <1>4
    <3>2. /\ frames[i + 1].number = Before(number, n + 1 - (i + 1))
          /\ Behind(frames[i + 1]) >= n + 1 - (i + 1) + written
      BY <1>3, <1>8 DEF FifoInv, Numbered
    <3> QED BY <1>1, <1>8, <3>1, <3>2
  <2> QED BY <1>5, <2>1 DEF Numbered
<1>15. Given'
  <2>1. ASSUME NEW i \in 1 .. n - 1
        PROVE  /\ frames'[i].end = AfterCopy(frames'[i].start, frames'[i].length)
               /\ \A k \in 0 .. frames'[i].length - 1 :
                    bsb'[Address(frames'[i].start, k)] = <<frames'[i].number, k>>
    <3> DEFINE f == frames[i + 1]
    <3>1. /\ f.end = AfterCopy(f.start, f.length)
          /\ \A k \in 0 .. f.length - 1 : bsb[Address(f.start, k)] = <<f.number, k>>
      BY <1>3, <1>8 DEF FifoInv, Given
    <3>2. f.start \in 0 .. bsb_size /\ f.length \in 1 .. bsb_size /\ f.number # Head(frames).number
      BY <1>8 DEF Intervals
    <3>3. frames'[i] = f
      BY <1>8
    <3> HIDE DEF f
    <3>4. ASSUME NEW k \in 0 .. f.length - 1
          PROVE  bsb'[Address(f.start, k)] = <<f.number, k>>
      <4>1. k \in 0 .. bsb_size - 1
        BY <3>2, SizesFit
      <4>2. Address(f.start, k) \in Addresses
        BY <3>2, <4>1, AddressIn
      <4> QED BY <1>9, <3>1, <3>2, <4>2
    <3> QED BY <3>1, <3>3, <3>4
  <2> QED BY <1>5, <2>1 DEF Given
<1> QED BY <1>10, <1>11, <1>12, <1>13, <1>14, <1>15 DEF FifoInv

\* The driver refuses a frame: what was written of it is nobody's.
LEMMA DecodeFailsKeeps == FifoInv /\ UdecDecodeFails => FifoInv'
<1> SUFFICES ASSUME FifoInv, UdecDecodeFails PROVE FifoInv'
  OBVIOUS
<1>1. /\ feeder = "copy" /\ pieces = <<>> /\ feeder' = "stopped" /\ written' = 0
      /\ UNCHANGED <<bsb, p_bsb_cur, pieces, request, p_frame_start, number, frames>>
  BY DEF UdecDecodeFails
<1>2. /\ Used \in Int /\ written \in Nat /\ written <= Used /\ Len(frames) \in Nat
  BY UsedIsMost DEF FifoInv
<1>3. ASSUME NEW i \in 1 .. Len(frames)
      PROVE  /\ Behind(frames[i])' = Behind(frames[i])
             /\ Behind(frames[i]) \in Int /\ frames[i].length \in 1 .. bsb_size
  BY <1>1, FrameFacts DEF FifoInv, Behind
<1>4. FifoTypes'
  BY <1>1, SizesFit DEF FifoInv, FifoTypes, FifoTypeOK
<1>5. Writing'
  BY <1>1 DEF Writing
<1>6. RoomKept'
  <2>1. Used + Safe <= bsb_size
    <3>1. Total(pieces) = 0
      BY <1>1, EmptySeq DEF Total, PartOf
    <3>2. Used + Safe + Total(pieces) <= bsb_size
      BY <1>1 DEF FifoInv, RoomKept
    <3> QED BY <1>2, <3>1, <3>2, SizesFit
  <2>2. Used' = IF frames = <<>> THEN 0 ELSE Used
    BY <1>1 DEF Used, Behind
  <2> QED BY <1>1, <1>2, <2>1, <2>2, SizesFit DEF RoomKept
<1>7. FramesInOrder'
  <2>1. ASSUME NEW i \in 1 .. Len(frames)
        PROVE  Behind(frames[i]) - frames[i].length >= 0
    <3>1. Behind(frames[i]) - frames[i].length >= written
      BY DEF FifoInv, FramesInOrder
    <3> QED BY <1>2, <1>3, <3>1, SizesFit
  <2> QED BY <1>1, <1>3, <2>1 DEF FifoInv, FramesInOrder
<1>8. Numbered'
  <2>1. ASSUME NEW i \in 1 .. Len(frames)
        PROVE  Behind(frames[i]) >= Len(frames) + 1 - i + 0
    <3>1. Behind(frames[i]) >= Len(frames) + 1 - i + written
      BY DEF FifoInv, Numbered
    <3> QED BY <1>2, <1>3, <3>1
  <2> QED BY <1>1, <1>3, <2>1 DEF FifoInv, Numbered
<1>9. Given'
  BY <1>1 DEF FifoInv, Given
<1> QED BY <1>4, <1>5, <1>6, <1>7, <1>8, <1>9 DEF FifoInv

-----------------------------------------------------------------------------
(* The types, which a request that fails does not disturb *)

LEMMA TypesKept ==
  ASSUME FifoTypes, Fits, [FifoNext]_fifoVars
  PROVE  FifoTypes' /\ Fits'
<1>1. CASE UNCHANGED fifoVars
  BY <1>1 DEF fifoVars, FifoTypes, FifoTypeOK, Fits, Total, PartOf
<1>2. CASE NextFrame
  <2>1. /\ feeder = "next" /\ feeder' = "request" /\ p_frame_start' = p_bsb_cur
        /\ UNCHANGED <<bsb, p_bsb_cur, written, number, frames>>
    BY <1>2 DEF NextFrame
  <2>2. FifoTypes'
    BY <1>2, <2>1, PiecesFit DEF FifoTypes, FifoTypeOK
  <2>3. written' = 0 /\ Total(pieces') \in Int
    BY <2>1, <2>2, SMTT(60) DEF Fits, Total, PartOf, FifoTypes
  <2>4. written' + Total(pieces') \in 1 .. bsb_size
    BY <1>2, <2>3, PiecesFit, SizesFit
  <2> QED BY <2>1, <2>2, <2>3, <2>4 DEF Fits
<1>3. CASE RequestBitsFifo \/ RequestFails
  <2>1. /\ feeder = "request" /\ feeder' = "copy" /\ request' = 0
        /\ UNCHANGED <<bsb, p_bsb_cur, pieces, p_frame_start, written, number, frames>>
    BY <1>3 DEF RequestBitsFifo, RequestFails
  <2>2. Total(pieces') = Total(pieces)
    BY <2>1 DEF Total, PartOf
  <2> QED BY <2>1, <2>2 DEF FifoTypes, FifoTypeOK, Fits
<1>4. CASE CopyToBsb
  <2>1. /\ feeder = "copy" /\ pieces # <<>> /\ pieces' = Tail(pieces)
        /\ p_bsb_cur' = AfterCopy(p_bsb_cur, Head(pieces)) /\ written' = written + Head(pieces)
        /\ UNCHANGED <<feeder, request, p_frame_start, number, frames>>
    BY <1>4 DEF CopyToBsb
  <2>2. /\ Head(pieces) \in Nat /\ Tail(pieces) \in Seq(Nat) /\ Len(Tail(pieces)) <= 4
        /\ Total(pieces) = Head(pieces) + Total(Tail(pieces)) /\ Total(Tail(pieces)) \in Nat
    BY <2>1, FirstPiece DEF FifoTypes
  <2>3. /\ p_bsb_cur \in 0 .. bsb_size /\ written \in Nat
        /\ written + Total(pieces) \in 1 .. bsb_size
    BY <2>1 DEF FifoTypes, FifoTypeOK, Fits
  <2>4. /\ Head(pieces) <= bsb_size /\ written' \in 0 .. bsb_size
        /\ written' + Total(pieces') \in 1 .. bsb_size
    <3>1. PICK h : h = Head(pieces)
      OBVIOUS
    <3>2. PICK t : t = Total(Tail(pieces))
      OBVIOUS
    <3>3. h \in Nat /\ t \in Nat /\ written + (h + t) \in 1 .. bsb_size
      BY <2>2, <2>3, <3>1, <3>2
    <3>4. h <= bsb_size /\ written + h \in 0 .. bsb_size /\ (written + h) + t \in 1 .. bsb_size
      BY <2>3, <3>3, SizesFit
    <3>5. Total(pieces') = t
      BY <2>1, <3>2 DEF Total, PartOf
    <3>6. written' = written + h
      BY <2>1, <3>1
    <3> QED BY <3>1, <3>4, <3>5, <3>6
  <2>5. p_bsb_cur' \in 0 .. bsb_size
    <3>1. PICK h : h = Head(pieces)
      OBVIOUS
    <3>2. h \in 0 .. bsb_size /\ p_bsb_cur' = AfterCopy(p_bsb_cur, h)
      BY <2>1, <2>2, <2>4, <3>1, SizesFit
    <3> QED BY <2>3, <3>2, SizesFit DEF AfterCopy
  <2>6. bsb' \in [Addresses -> Int \X Int]
    <3> DEFINE len == Head(pieces)
               at(k) == Address(p_bsb_cur, k)
    <3>1. bsb' = [a \in Addresses |->
                    IF \E k \in 0 .. len - 1 : a = at(k)
                      THEN <<number, written + (CHOOSE k \in 0 .. len - 1 : a = at(k))>>
                      ELSE bsb[a]]
      BY <1>4 DEF CopyToBsb
    <3>2. number \in Int /\ bsb \in [Addresses -> Int \X Int]
      BY DEF FifoTypes
    <3>3. len \in Nat
      BY <2>2
    <3> HIDE DEF len, at
    <3>4. ASSUME NEW a \in Addresses, \E k \in 0 .. len - 1 : a = at(k)
          PROVE  written + (CHOOSE k \in 0 .. len - 1 : a = at(k)) \in Int
      BY <2>3, <3>3, <3>4
    <3> QED BY <3>1, <3>2, <3>4
  <2>7. FifoTypes'
    BY <2>1, <2>2, <2>4, <2>5, <2>6 DEF FifoTypes, FifoTypeOK
  <2> QED BY <2>1, <2>4, <2>7 DEF Fits
<1>5. CASE UdecDecode
  <2> DEFINE f == [start |-> p_frame_start, end |-> p_bsb_cur, length |-> written, number |-> number]
  <2>1. /\ feeder = "copy" /\ pieces = <<>> /\ frames' = Append(frames, f)
        /\ number' = (IF number + 1 = Numbers THEN 0 ELSE number + 1)
        /\ feeder' \in {"exit_wait", "next"} /\ written' = 0
        /\ UNCHANGED <<bsb, p_bsb_cur, pieces, request, p_frame_start>>
    BY <1>5 DEF UdecDecode
  <2>2. Total(pieces) = 0
    BY <2>1, EmptySeq DEF Total, PartOf
  <2>3. written \in 1 .. bsb_size
    BY <2>1, <2>2 DEF FifoTypes, FifoTypeOK, Fits
  <2>4. f \in Intervals
    BY <2>3 DEF FifoTypes, FifoTypeOK, Intervals
  <2> HIDE DEF f
  <2>5. frames' \in Seq(Intervals)
    BY <2>1, <2>4, AppendProperties DEF FifoTypes
  <2>6. number' \in 0 .. Numbers - 1
    BY <2>1, SizesFit DEF FifoTypes
  <2>7. \A i \in DOMAIN frames' : frames'[i] \in Intervals
    BY <2>5, ElementOfSeq, LenProperties
  <2>8. \A i \in DOMAIN frames' :
          frames'[i].start \in 0 .. bsb_size /\ frames'[i].end \in 0 .. bsb_size
    BY <2>7 DEF Intervals
  <2>9. FifoTypes'
    BY <2>1, <2>5, <2>6, <2>8, SizesFit DEF FifoTypes, FifoTypeOK
  <2> QED BY <2>1, <2>9 DEF Fits
<1>6. CASE UdecDecodeFails
  BY <1>6, SizesFit DEF UdecDecodeFails, FifoTypes, FifoTypeOK, Fits
<1>7. CASE FeedAgain
  BY <1>7, SizesFit DEF FeedAgain, FifoTypes, FifoTypeOK, Fits
<1>8. CASE Consume
  <2>1. /\ frames # <<>> /\ frames' = Tail(frames)
        /\ bsb' = [a \in Addresses |-> IF bsb[a][1] = Head(frames).number THEN Unused ELSE bsb[a]]
        /\ UNCHANGED <<p_bsb_cur, feeder, pieces, request, p_frame_start, written, number>>
    BY <1>8 DEF Consume
  <2>2. frames' \in Seq(Intervals)
    BY <2>1, HeadTailProperties DEF FifoTypes
  <2>3. bsb' \in [Addresses -> Int \X Int]
    BY <2>1 DEF Unused, FifoTypes
  <2>4. \A i \in DOMAIN frames' : frames'[i] \in Intervals
    BY <2>2, ElementOfSeq, LenProperties
  <2>5. \A i \in DOMAIN frames' :
          frames'[i].start \in 0 .. bsb_size /\ frames'[i].end \in 0 .. bsb_size
    BY <2>4 DEF Intervals
  <2>6. FifoTypes'
    BY <2>1, <2>2, <2>3, <2>5 DEF FifoTypes, FifoTypeOK
  <2>7. Total(pieces') = Total(pieces)
    BY <2>1 DEF Total, PartOf
  <2> QED BY <2>1, <2>6, <2>7 DEF Fits
<1> QED BY <1>1, <1>2, <1>3, <1>4, <1>5, <1>6, <1>7, <1>8 DEF FifoNext

-----------------------------------------------------------------------------
(* The theorems *)

FifoSpec == FifoInit /\ [][FifoNext]_fifoVars

LEMMA FifoInvKept ==
  bsb_size <= Numbers /\ FifoInv /\ unasked = 0 /\ unasked' = 0 /\ [FifoNext]_fifoVars => FifoInv'
<1> SUFFICES ASSUME bsb_size <= Numbers, FifoInv, unasked = 0, unasked' = 0, [FifoNext]_fifoVars
             PROVE  FifoInv'
  OBVIOUS
<1>1. CASE UNCHANGED fifoVars
  BY <1>1 DEF fifoVars, FifoInv, FifoTypes, FifoTypeOK, Writing, Total, PartOf, RoomKept, Used,
         Behind, FramesInOrder, Numbered, Given
<1>2. ~ RequestFails
  BY DEF RequestFails
<1>3. FeedAgain => frames = <<>>
  BY DEF FeedAgain
<1> QED BY <1>1, <1>2, <1>3, NextFrameKeeps, RequestKeeps, CopyKeeps, DecodeKeeps,
           DecodeFailsKeeps, FeedAgainKeeps, ConsumeKeeps DEF FifoNext

\* A thread that begins a frame and finds everything read: nothing of what went before
\* matters.
LEMMA FreshStart == FifoTypes /\ Fits /\ NextFrame /\ frames = <<>> => FifoInv'
<1> SUFFICES ASSUME FifoTypes, Fits, NextFrame, frames = <<>> PROVE FifoInv'
  OBVIOUS
<1>1. /\ feeder = "next" /\ frames = <<>> /\ written = 0 /\ Len(frames) = 0
  BY EmptySeq DEF NextFrame, Fits
<1>2. RoomKept
  BY <1>1, SizesFit DEF RoomKept, Used
<1>3. FramesInOrder /\ Numbered /\ Given
  BY <1>1 DEF FramesInOrder, Numbered, Given
<1>4. Writing
  BY <1>1 DEF Writing
<1>5. FifoInv
  BY <1>2, <1>3, <1>4 DEF FifoInv
<1> QED BY <1>5, NextFrameKeeps

LEMMA FedInvInductive ==
  bsb_size <= Numbers /\ FedInv /\ [FifoNext]_fifoVars => FedInv'
<1> SUFFICES ASSUME bsb_size <= Numbers, FedInv, [FifoNext]_fifoVars PROVE FedInv'
  OBVIOUS
<1>1. FifoTypes' /\ Fits'
  BY TypesKept DEF FedInv
<1>2. unasked' \in Nat
  BY DEF FedInv, FifoNext, fifoVars, NextFrame, RequestBitsFifo, RequestFails, CopyToBsb,
         UdecDecode, UdecDecodeFails, FeedAgain, Consume
<1>3. ASSUME unasked' = 0 PROVE FifoInv'
  <2>1. CASE unasked = 0
    BY <1>3, <2>1, FifoInvKept DEF FedInv
  <2>2. CASE unasked # 0
    <3>1. ~ UNCHANGED unasked /\ unasked' # unasked + 1
      BY <1>3, <2>2 DEF FedInv
    <3>2. NextFrame
      BY <3>1 DEF FifoNext, fifoVars, RequestBitsFifo, RequestFails, CopyToBsb, UdecDecode,
         UdecDecodeFails, FeedAgain, Consume
    <3>3. frames = <<>>
      BY <3>1, <3>2 DEF NextFrame
    <3> QED BY <3>2, <3>3, FreshStart DEF FedInv
  <2> QED BY <2>1, <2>2
<1> QED BY <1>1, <1>2, <1>3 DEF FedInv

\* What the invariant says of a frame is that it is intact.
LEMMA InvIntact == FifoInv => FramesIntact
<1> SUFFICES ASSUME FifoInv, NEW i \in 1 .. Len(frames)
             PROVE  /\ IntervalLength(frames[i]) = frames[i].length
                    /\ \A k \in 0 .. frames[i].length - 1 :
                         bsb[Address(frames[i].start, k)] = <<frames[i].number, k>>
  BY LenProperties DEF FramesIntact, FifoInv, FifoTypes
<1>1. frames[i].start \in 0 .. bsb_size /\ frames[i].length \in 1 .. bsb_size
  BY FrameFacts DEF FifoInv
<1>2. /\ frames[i].end = AfterCopy(frames[i].start, frames[i].length)
      /\ \A k \in 0 .. frames[i].length - 1 :
           bsb[Address(frames[i].start, k)] = <<frames[i].number, k>>
  BY DEF FifoInv, Given
<1>3. IntervalLength(frames[i]) = Distance(frames[i].start, frames[i].end)
  BY DEF IntervalLength, Distance
<1> QED BY <1>1, <1>2, <1>3, CopyLength

LEMMA FedInvInit == FifoInit => FedInv
<1> SUFFICES ASSUME FifoInit PROVE FedInv
  OBVIOUS
<1>1. FifoInv
  BY FifoInitInv
<1>2. feeder = "next" /\ written = 0 /\ unasked = 0
  BY DEF FifoInit, FifoStart
<1> QED BY <1>1, <1>2 DEF FedInv, Fits, FifoInv

\* udec_instance_decode_es_file and its decoder (mudec.c), for any ring, headers and
\* frames of the sizes that BitsFifoAssumption allows: a frame that was handed to the
\* decoder and is not read yet is as long as what was written, and no byte of it has been
\* written over, except by a thread whose request for room failed or that was told to
\* begin the file again over unread frames.  With as many numbers as the ring has bytes
\* no two frames in it have the same one.
THEOREM FedFramesIntact ==
  ASSUME bsb_size <= Numbers
  PROVE  FifoSpec => []FramesIntact
<1>1. FedInv /\ [FifoNext]_fifoVars => FedInv'
  BY FedInvInductive
<1>2. FedInv => FramesIntact
  BY InvIntact DEF FedInv, FramesIntact
<1> QED BY <1>1, <1>2, FedInvInit, PTL DEF FifoSpec

\* In the same way the write address and the addresses handed to the decoder are in the
\* ring or at its end, and a frame is never longer than the ring: after a request that
\* failed and a restart over unread frames too.
THEOREM FifoTyped ==
  ASSUME bsb_size <= Numbers
  PROVE  FifoSpec => []FifoTypeOK
<1>1. FedInv /\ [FifoNext]_fifoVars => FedInv'
  BY FedInvInductive
<1>2. FedInv => FifoTypeOK
  BY DEF FedInv, FifoTypes
<1> QED BY <1>1, <1>2, FedInvInit, PTL DEF FifoSpec

-----------------------------------------------------------------------------
(* bitswriter_t and its headers                                             *)

Names ==
  {"prefix", "startcode", "signature", "v_format", "time_scale", "frame_tick", "mark",
   "width", "height", "padding", "pts_low", "pts_high", "au_datalen"}
Fields == [of : Names, hi : 0 .. 31, lo : 0 .. 31, bits : 1 .. 32]
Bits == (Names \cup {"zero"}) \X Int

\* Layout[k] is written from bit Starts[k] on; the last entry is the end of the header.
Starts ==
  [useq |-> <<0, 16, 24, 32, 64, 72, 80, 88, 89, 97, 105, 106, 114, 122, 123, 131, 139,
              140, 160>>,
   useq_ex |-> <<0, 16, 24, 32, 64, 72, 80, 88, 89, 97, 105, 106, 114, 122, 123, 131, 139,
                 140, 147, 155, 157, 164, 172, 192>>,
   upes |-> <<0, 1, 9, 17, 18, 26, 34, 35, 43, 51, 52, 60, 68, 69, 70, 97, 105, 113, 114,
              117, 125, 128>>,
   upes_nopts |-> <<0, 1, 9, 17, 18, 21, 29, 32>>]

Layout == Layouts[header]
FieldStart == Starts[header]
Size == Sizes[header]
End == FieldStart[Len(Layout) + 1]

WellLaid(layout, start, len) ==
  /\ layout \in Seq(Fields)
  /\ start[1] = 0 /\ start[Len(layout) + 1] <= 8 * len
  /\ \A k \in 1 .. Len(layout) + 1 : start[k] \in Nat
  /\ \A j, k \in 1 .. Len(layout) + 1 : j <= k => start[j] <= start[k]
  /\ \A k \in 1 .. Len(layout) : start[k + 1] = start[k] + layout[k].bits

Taken == Len(Layout) - Len(fields)
BitOf(f, b) == Word(f)[32 - f.bits + b]
Pos == p_cur_bit + 8 - left_bits

\* The fields still to be asked for are the last ones of the layout.
FieldsLeft ==
  /\ fields \in Seq(Fields) /\ Taken \in 0 .. Len(Layout)
  /\ \A j \in 1 .. Len(fields) : fields[j] = Layout[Taken + j]

\* What was asked for are the bits of the fields taken, one behind the other.
FieldsAsked ==
  /\ asked \in Seq(Bits)
  /\ Len(asked) = FieldStart[Taken + 1]
  /\ \A k \in 1 .. Taken : \A b \in 1 .. Layout[k].bits :
       asked[FieldStart[k] + b] = BitOf(Layout[k], b)
  /\ \A i \in 1 .. Len(asked) : \E k \in 1 .. Taken :
       \E b \in 1 .. Layout[k].bits : i = FieldStart[k] + b

Counts ==
  /\ bits \in 0 .. 32 /\ left_bits \in 1 .. 8 /\ left_bytes \in 0 .. Size
  /\ full = FALSE
  /\ Len(asked) = Pos + bits

\* The bits asked for are in the buffer as far as the writer has come and the rest of
\* them are the low bits of the value.
InBuffer ==
  /\ \A b \in 1 .. bits : value[32 - bits + b] = asked[Pos + b]
  /\ DOMAIN buffer = 1 .. 8 * Size + Slack
  /\ \A i \in DOMAIN buffer : buffer[i] = IF i <= Pos THEN asked[i] ELSE Zero

LEMMA AlignedAre ==
  ASSUME bits \in 1 .. 32, left_bits \in 1 .. 8, NEW w, NEW d \in 1 .. 8
  PROVE  Aligned(w)[24 + d] =
           IF 8 - left_bits < d /\ d - 8 + left_bits <= bits
           THEN w[32 - bits + (d - 8 + left_bits)] ELSE Zero
BY SMT DEF Aligned, ShiftRight, ShiftLeft

LEMMA RestAre ==
  ASSUME bits \in 1 .. 32, left_bits \in 1 .. 8, NEW w, NEW b \in 1 .. bits - left_bits
  PROVE  Rest(w)[32 - (bits - left_bits) + b] = w[32 - bits + (left_bits + b)]
BY SMT DEF Rest, ShiftRight, ShiftLeft

LEMMA WordIs ==
  ASSUME NEW f \in Fields
  PROVE  /\ \A i \in 1 .. 32 : Word(f)[i] \in Bits
         /\ \A i \in 1 .. 32 : Word(f)[i] =
              IF 32 - i <= f.hi - f.lo THEN <<f.of, f.lo + 32 - i>> ELSE Zero
BY SMT DEF Word, Fields, Bits, Zero

LEMMA FieldBits == \A f \in Fields : f.bits \in 1 .. 32
BY SMT DEF Fields

LEMMA WriteBitsKeeps ==
  ASSUME header \in DOMAIN Layouts, WellLaid(Layout, FieldStart, Size), Size \in 1 .. 24,
         FieldsLeft, FieldsAsked, Counts, InBuffer, WriteBits
  PROVE  FieldsLeft' /\ FieldsAsked' /\ Counts' /\ InBuffer'
<1>a. /\ bits = 0 /\ fields # <<>> /\ value' = Word(Head(fields)) /\ bits' = Head(fields).bits
      /\ asked' = asked \o SubSeq(value', 33 - bits', 32) /\ fields' = Tail(fields)
      /\ buffer' = buffer /\ left_bits' = left_bits /\ left_bytes' = left_bytes
      /\ full' = full /\ header' = header
  BY Zenon DEF WriteBits
<1>b. /\ fields \in Seq(Fields) /\ Taken \in 0 .. Len(Layout)
      /\ \A j \in 1 .. Len(fields) : fields[j] = Layout[Taken + j]
  BY Zenon DEF FieldsLeft
<1>c. /\ Layout \in Seq(Fields) /\ Len(Layout) \in Nat
      /\ \A k \in 1 .. Len(Layout) + 1 : FieldStart[k] \in Nat
      /\ \A j, k \in 1 .. Len(Layout) + 1 : j <= k => FieldStart[j] <= FieldStart[k]
      /\ FieldStart[Len(Layout) + 1] \in Nat
      /\ \A k \in 1 .. Len(Layout) : FieldStart[k + 1] = FieldStart[k] + Layout[k].bits
      /\ \A k \in 1 .. Len(Layout) : Layout[k] \in Fields
  <2>1. Layout \in Seq(Fields) /\ Len(Layout) \in Nat
    BY LenProperties DEF WellLaid
  <2>2. \A k \in 1 .. Len(Layout) : Layout[k] \in Fields
    BY <2>1, ElementOfSeq
  <2>3. FieldStart[Len(Layout) + 1] \in Nat
    <3>1. Len(Layout) + 1 \in 1 .. Len(Layout) + 1
      BY <2>1, SMT
    <3> QED BY <3>1, Zenon DEF WellLaid
  <2> QED BY <2>1, <2>2, <2>3, Zenon DEF WellLaid
<1>d. /\ Head(fields) \in Fields /\ Tail(fields) \in Seq(Fields)
      /\ Len(Tail(fields)) = Len(fields) - 1 /\ Len(fields) \in Nat \ {0}
      /\ \A i \in 1 .. Len(Tail(fields)) : Tail(fields)[i] = fields[i + 1]
      /\ Head(fields) = fields[1]
  <2>1. Head(fields) \in Fields /\ Tail(fields) \in Seq(Fields)
        /\ Len(Tail(fields)) = Len(fields) - 1
        /\ \A i \in 1 .. Len(Tail(fields)) : Tail(fields)[i] = fields[i + 1]
    BY <1>a, <1>b, HeadTailProperties, Zenon
  <2>2. Len(fields) \in Nat \ {0} /\ Head(fields) = fields[1]
    BY <1>a, <1>b, EmptySeq, SMT
  <2> QED BY <2>1, <2>2
<1>e. /\ asked \in Seq(Bits) /\ Len(asked) \in Nat /\ Len(asked) = FieldStart[Taken + 1]
      /\ \A k \in 1 .. Taken : \A b \in 1 .. Layout[k].bits :
           asked[FieldStart[k] + b] = BitOf(Layout[k], b)
      /\ \A i \in 1 .. Len(asked) : \E k \in 1 .. Taken :
           \E b \in 1 .. Layout[k].bits : i = FieldStart[k] + b
  <2>1. asked \in Seq(Bits)
    BY Zenon DEF FieldsAsked
  <2>2. Len(asked) \in Nat
    BY <2>1, LenProperties
  <2> QED BY <2>1, <2>2, Zenon DEF FieldsAsked
<1>f. /\ left_bits \in 1 .. 8 /\ left_bytes \in 0 .. Size /\ full = FALSE
      /\ Len(asked) = Pos + bits /\ Size \in 1 .. 24
  BY Zenon DEF Counts
<1>1. PICK f : f = Head(fields) /\ f \in Fields
  BY <1>d
<1>2. PICK n : n \in 0 .. Len(Layout) /\ n = Taken /\ n = Len(Layout) - Len(fields)
  BY <1>b DEF Taken
<1>3. n < Len(Layout) /\ f = Layout[n + 1]
  <2>1. n < Len(Layout) /\ 1 \in 1 .. Len(fields)
    BY <1>c, <1>d, <1>2, SMT
  <2>2. fields[1] = Layout[n + 1]
    BY <2>1, <1>b, <1>2
  <2> QED BY <2>1, <2>2, <1>1, <1>d
<1>5. Layout' = Layout /\ FieldStart' = FieldStart /\ Size' = Size
  BY <1>a DEF Layout, FieldStart, Size
<1>6. Taken' = n + 1
  BY <1>2, <1>5, <1>a, <1>c, <1>d, SMT DEF Taken
<1>7. FieldsLeft'
  <2>1. ASSUME NEW j \in 1 .. Len(Tail(fields)) PROVE Tail(fields)[j] = Layout[(n + 1) + j]
    <3>1. j + 1 \in 1 .. Len(fields) /\ n + (j + 1) = (n + 1) + j
      BY <2>1, <1>c, <1>d, <1>2, SMT
    <3>2. fields[j + 1] = Layout[n + (j + 1)]
      BY <3>1, <1>b, <1>2
    <3> QED BY <3>1, <3>2, <1>d
  <2>2. n + 1 \in 0 .. Len(Layout)
    BY <1>3, <1>2, <1>c, SMT
  <2> QED BY <2>1, <2>2, <1>a, <1>d, <1>5, <1>6, Zenon DEF FieldsLeft
<1>8. /\ f.bits \in 1 .. 32 /\ bits' = f.bits /\ bits = 0
      /\ \A b \in 1 .. 32 : value'[b] \in Bits
      /\ value' = Word(f)
  <2>1. f.bits \in 1 .. 32
    BY <1>1, FieldBits
  <2> QED BY <2>1, <1>a, <1>1, WordIs, Zenon
<1>80. PICK m : m \in 1 .. 32 /\ m = f.bits
  BY <1>8
<1>81. m \in Nat /\ m > 0 /\ m \in 0 .. 32
  BY <1>80, SMT
<1>9. PICK s : s \in Seq(Bits) /\ Len(s) = f.bits /\ s = SubSeq(value', 33 - bits', 32)
               /\ \A b \in 1 .. f.bits : s[b] = BitOf(f, b)
  <2>1. \A i \in 33 - bits' .. 32 : value'[i] \in Bits
    BY <1>8, SMT
  <2>2. 33 - bits' \in Int /\ 32 \in Int /\ 33 - bits' <= 32 /\ 32 - (33 - bits') + 1 = f.bits
    BY <1>8, SMT
  <2>3. /\ SubSeq(value', 33 - bits', 32) \in Seq(Bits)
        /\ Len(SubSeq(value', 33 - bits', 32)) = f.bits
        /\ \A i \in 1 .. f.bits :
             SubSeq(value', 33 - bits', 32)[i] = value'[33 - bits' + i - 1]
    BY <2>1, <2>2, SubSeqProperties, SMT
  <2>4. \A b \in 1 .. f.bits : value'[33 - bits' + b - 1] = BitOf(f, b)
    BY <1>8, SMT DEF BitOf
  <2>5. \A b \in 1 .. f.bits : SubSeq(value', 33 - bits', 32)[b] = BitOf(f, b)
    BY <2>3, <2>4
  <2> QED BY <2>3, <2>5, Zenon
<1>10. asked' = asked \o s
  BY <1>9, <1>a, Zenon
<1>11. /\ asked \in Seq(Bits) /\ asked' \in Seq(Bits) /\ Len(asked') = Len(asked) + f.bits
       /\ Len(asked) \in Nat
       /\ \A i \in 1 .. Len(asked) : asked'[i] = asked[i]
       /\ \A i \in 1 .. f.bits : asked'[Len(asked) + i] = s[i]
  <2>1. asked \in Seq(Bits) /\ Len(asked) \in Nat
    BY LenProperties DEF FieldsAsked
  <2>2. /\ asked \o s \in Seq(Bits) /\ Len(asked \o s) = Len(asked) + Len(s)
        /\ \A i \in 1 .. Len(asked) + Len(s) :
             (asked \o s)[i] = IF i <= Len(asked) THEN asked[i] ELSE s[i - Len(asked)]
    BY <2>1, <1>9, ConcatProperties
  <2>3. \A i \in 1 .. Len(asked) : asked'[i] = asked[i]
    BY <2>1, <2>2, <1>8, <1>9, <1>10, SMT
  <2>4. ASSUME NEW i \in 1 .. f.bits PROVE asked'[Len(asked) + i] = s[i]
    <3>1. Len(asked) + i \in 1 .. Len(asked) + Len(s) /\ ~ (Len(asked) + i <= Len(asked))
          /\ Len(asked) + i - Len(asked) = i
      <4>1. Len(asked) \in Nat /\ f.bits \in Nat /\ Len(s) = f.bits
        BY <2>1, <1>80, <1>81, <1>9, Zenon
      <4> QED BY <4>1, SMT
    <3> QED BY <3>1, <2>2, <1>10
  <2> QED BY <2>1, <2>2, <2>3, <2>4, <1>9, <1>10
<1>12. /\ Len(asked) = FieldStart[n + 1] /\ FieldStart[n + 2] = FieldStart[n + 1] + f.bits
       /\ FieldStart[n + 1] \in Nat
  <2>1. n + 1 \in 1 .. Len(Layout) /\ (n + 1) + 1 = n + 2
    BY <1>2, <1>3, <1>c, SMT
  <2>2. FieldStart[(n + 1) + 1] = FieldStart[n + 1] + Layout[n + 1].bits
    BY <2>1, <1>c
  <2> QED BY <2>1, <2>2, <1>2, <1>3, <1>e
<1>13. FieldsAsked'
  <2>1. Len(asked') = FieldStart'[Taken' + 1]
    BY <1>2, <1>5, <1>6, <1>11, <1>12, SMT
  <2>2. ASSUME NEW k \in 1 .. n + 1, NEW b \in 1 .. Layout[k].bits
        PROVE  asked'[FieldStart[k] + b] = BitOf(Layout[k], b)
    <3>1. CASE k = n + 1
      BY <2>2, <3>1, <1>3, <1>9, <1>11, <1>12
    <3>2. CASE k \in 1 .. n
      <4>1. FieldStart[k] + b \in 1 .. Len(asked)
        <5>1. FieldStart[k + 1] = FieldStart[k] + Layout[k].bits /\ Layout[k].bits \in Nat
              /\ FieldStart[k] \in Nat
          <6>1. k \in 1 .. Len(Layout) /\ k \in 1 .. Len(Layout) + 1
            BY <3>2, <1>2, <1>3, <1>c, SMT
          <6>2. Layout[k].bits \in Nat
            <7>1. Layout[k].bits \in 1 .. 32
              BY <6>1, <1>c, FieldBits, Zenon
            <7> QED BY <7>1, SMT
          <6>3. FieldStart[k] \in Nat
            BY <6>1, <1>c, SMT
          <6> QED BY <6>1, <6>2, <6>3, <1>c
        <5>2. FieldStart[k + 1] <= Len(asked)
          <6>1. k + 1 \in 1 .. Len(Layout) + 1 /\ n + 1 \in 1 .. Len(Layout) + 1 /\ k + 1 <= n + 1
            BY <3>2, <1>2, <1>3, <1>c, SMT
          <6> QED BY <6>1, <1>12, <1>c, Zenon
        <5> QED BY <5>1, <5>2, <1>11, SMT
      <4>2. asked[FieldStart[k] + b] = BitOf(Layout[k], b)
        BY <3>2, <1>2, <1>e
      <4> QED BY <4>1, <4>2, <1>11
    <3> QED BY <3>1, <3>2, <1>2, SMT
  <2>3. ASSUME NEW i \in 1 .. Len(asked')
        PROVE  \E k \in 1 .. n + 1 : \E b \in 1 .. Layout[k].bits : i = FieldStart[k] + b
    <3>1. CASE i \in 1 .. Len(asked)
      <4>1. PICK k \in 1 .. n : \E b \in 1 .. Layout[k].bits : i = FieldStart[k] + b
        BY <3>1, <1>2, <1>e, ZenonT(60)
      <4>2. k \in 1 .. n + 1
        BY <1>2, SMT
      <4> QED BY <4>1, <4>2
    <3>2. CASE i - Len(asked) \in 1 .. f.bits
      BY <3>2, <1>2, <1>3, <1>11, <1>12, SMTT(60)
    <3>3. i \in 1 .. Len(asked) \/ i - Len(asked) \in 1 .. f.bits
      <4>1. PICK a : a \in Nat /\ a = Len(asked)
        BY <1>11
      <4>2. i \in 1 .. a + m
        BY <1>11, <4>1, <1>80
      <4>3. i \in 1 .. a \/ i - a \in 1 .. m
        BY <4>1, <4>2, <1>81, SMT
      <4> QED BY <4>1, <4>3, <1>80
    <3> QED BY <3>1, <3>2, <3>3
  <2> QED BY <1>5, <1>6, <1>11, <2>1, <2>2, <2>3, Zenon DEF FieldsAsked
<1>14. Pos' = Pos /\ Pos = Len(asked)
  <2>1. Pos' = Pos
    BY <1>a, Zenon DEF Pos, p_cur_bit
  <2>2. Pos \in Int
    <3>1. PICK z : z \in 1 .. 24 /\ z = Size
      BY <1>f
    <3>2. left_bytes \in 0 .. z /\ Pos = 8 * (z - left_bytes) + 8 - left_bits
      BY <1>f, <3>1, Zenon DEF Pos, p_cur_bit, Size
    <3> QED BY <3>1, <3>2, <1>f, SMT
  <2> QED BY <2>1, <2>2, <1>f, <1>8, SMT
<1>15. Counts'
  <2>1. bits' \in 0 .. 32 /\ Len(asked') = Pos' + bits'
    BY <1>8, <1>11, <1>14, SMT
  <2> QED BY <2>1, <1>a, <1>5, <1>f, Zenon DEF Counts
<1>16. InBuffer'
  <2>1. \A b \in 1 .. bits' : value'[32 - bits' + b] = asked'[Pos' + b]
    BY <1>8, <1>9, <1>11, <1>14, SMT DEF BitOf
  <2>2. buffer' = buffer
    BY DEF WriteBits
  <2>3. \A i \in DOMAIN buffer : buffer[i] = IF i <= Pos' THEN asked'[i] ELSE Zero
    BY <1>11, <1>14, SMT DEF InBuffer
  <2> QED BY <1>5, <2>1, <2>2, <2>3, Zenon DEF InBuffer
<1> QED BY <1>7, <1>13, <1>15, <1>16

LEMMA WriteByteKeeps ==
  ASSUME header \in DOMAIN Layouts, WellLaid(Layout, FieldStart, Size), Size \in 1 .. 24,
         FieldsLeft, FieldsAsked, Counts, InBuffer, WriteByte
  PROVE  FieldsLeft' /\ FieldsAsked' /\ Counts' /\ InBuffer'
<1>1. /\ bits > 0 /\ value' = Rest(value)
      /\ buffer' = [i \in DOMAIN buffer |->
                      IF i - p_cur_bit \in 1 .. 8
                      THEN Ored(buffer[i], Aligned(value)[24 + i - p_cur_bit]) ELSE buffer[i]]
      /\ full' = (bits >= left_bits /\ left_bytes = 0)
      /\ left_bytes' = IF bits >= left_bits /\ left_bytes > 0 THEN left_bytes - 1
                       ELSE left_bytes
      /\ left_bits' = IF ~ (bits >= left_bits) THEN left_bits - bits
                      ELSE IF left_bytes > 0 THEN 8
                      ELSE IF bits = left_bits THEN 0 ELSE left_bits
      /\ bits' = IF bits > left_bits THEN bits - left_bits ELSE 0
      /\ fields' = fields /\ header' = header /\ asked' = asked
  BY Zenon DEF WriteByte
<1>2. Layout' = Layout /\ FieldStart' = FieldStart /\ Size' = Size
  BY <1>1 DEF Layout, FieldStart, Size
<1>3. FieldsLeft'
  BY <1>1, <1>2, Zenon DEF FieldsLeft, Taken
<1>4. FieldsAsked'
  BY <1>1, <1>2, ZenonT(60) DEF FieldsAsked, Taken
<1>5. PICK z : z \in 1 .. 24 /\ z = Size
  OBVIOUS
<1>6. PICK a : a \in 0 .. 8 * z /\ a = Len(asked)
  <2>1. Len(Layout) \in Nat
    BY LenProperties DEF WellLaid
  <2>2. Len(asked) \in Nat
    BY LenProperties DEF FieldsAsked
  <2>3. PICK e : e = FieldStart[Len(Layout) + 1] /\ e <= 8 * z
    BY <1>5 DEF WellLaid
  <2>4. PICK n : n \in 0 .. Len(Layout) /\ n = Taken
    BY DEF FieldsLeft
  <2>5. n + 1 \in 1 .. Len(Layout) + 1 /\ Len(Layout) + 1 \in 1 .. Len(Layout) + 1
        /\ n + 1 <= Len(Layout) + 1
    BY <2>1, <2>4, SMT
  <2>6. FieldStart[n + 1] <= e /\ e \in Nat /\ Len(asked) = FieldStart[n + 1]
    BY <2>3, <2>4, <2>5, Zenon DEF WellLaid, FieldsAsked
  <2> QED BY <1>5, <2>2, <2>3, <2>6, SMT
<1>7. PICK c : c = p_cur_bit /\ c = 8 * (z - left_bytes) /\ c \in Nat
  <2>1. left_bytes \in 0 .. z
    BY <1>5 DEF Counts
  <2>2. p_cur_bit = 8 * (z - left_bytes)
    BY <1>5 DEF p_cur_bit, Size
  <2>3. 8 * (z - left_bytes) \in Nat
    BY <2>1, <1>5, SMT
  <2> QED BY <2>2, <2>3
<1>8. /\ bits \in 1 .. 32 /\ left_bits \in 1 .. 8 /\ left_bytes \in 0 .. z
      /\ Pos = c + 8 - left_bits /\ a = Pos + bits
  <2>1. bits \in 0 .. 32 /\ left_bits \in 1 .. 8 /\ left_bytes \in 0 .. z /\ a = Pos + bits
    BY <1>5, <1>6 DEF Counts
  <2>2. Pos = c + 8 - left_bits
    BY <1>7 DEF Pos
  <2> QED BY <2>1, <2>2, <1>1, SMT
<1>9. bits >= left_bits => left_bytes > 0
  BY <1>5, <1>6, <1>7, <1>8, SMT
<1>10. /\ full' = FALSE
       /\ bits < left_bits =>
            left_bytes' = left_bytes /\ left_bits' = left_bits - bits /\ bits' = 0
       /\ bits >= left_bits =>
            left_bytes' = left_bytes - 1 /\ left_bits' = 8 /\ bits' = bits - left_bits
  <2>1. /\ full' = (bits >= left_bits /\ left_bytes = 0)
        /\ left_bytes' = IF bits >= left_bits /\ left_bytes > 0 THEN left_bytes - 1
                         ELSE left_bytes
        /\ left_bits' = IF ~ (bits >= left_bits) THEN left_bits - bits
                        ELSE IF left_bytes > 0 THEN 8
                        ELSE IF bits = left_bits THEN 0 ELSE left_bits
        /\ bits' = IF bits > left_bits THEN bits - left_bits ELSE 0
    BY <1>1, Zenon
  <2>2. full' = FALSE
    <3>1. ~ (bits >= left_bits /\ left_bytes = 0)
      BY <1>8, <1>9, SMT
    <3> QED BY <2>1, <3>1, Zenon
  <2>3. CASE bits < left_bits
    <3>1. ~ (bits >= left_bits) /\ ~ (bits > left_bits)
      BY <2>3, <1>8, SMT
    <3> QED BY <2>1, <2>2, <2>3, <3>1, Zenon
  <2>4. CASE bits >= left_bits
    <3>1. left_bytes > 0 /\ ~ (bits < left_bits)
      BY <2>4, <1>8, <1>9, SMT
    <3>2. bits' = bits - left_bits
      BY <2>1, <2>4, <1>8, SMT
    <3> QED BY <2>1, <2>2, <2>4, <3>1, <3>2, Zenon
  <2>5. bits < left_bits \/ bits >= left_bits
    BY <1>8, SMT
  <2>6. bits < left_bits => ~ (bits >= left_bits)
    BY <1>8, SMT
  <2> QED BY <2>2, <2>3, <2>4, <2>5, <2>6, Zenon
<1>11. PICK q : /\ q = Pos' /\ q = IF bits >= left_bits THEN Pos + left_bits ELSE Pos + bits
                /\ q + bits' = a /\ q \in Nat
  <2>1. Pos' = 8 * (z - left_bytes') + 8 - left_bits'
    BY <1>2, <1>5 DEF Pos, p_cur_bit, Size
  <2>2. PICK q : q = Pos'
    OBVIOUS
  <2>3. CASE bits < left_bits
    <3>1. left_bytes' = left_bytes /\ left_bits' = left_bits - bits /\ bits' = 0
      BY <2>3, <1>10
    <3>2. q = Pos + bits /\ q + bits' = a /\ q \in Nat /\ ~ (bits >= left_bits)
      BY <2>1, <2>2, <2>3, <3>1, <1>5, <1>7, <1>8, SMT
    <3> QED BY <3>2, <2>2
  <2>4. CASE bits >= left_bits
    <3>1. left_bytes' = left_bytes - 1 /\ left_bits' = 8 /\ bits' = bits - left_bits
      BY <2>4, <1>10
    <3>2. q = Pos + left_bits /\ q + bits' = a /\ q \in Nat
      BY <2>1, <2>2, <2>4, <3>1, <1>5, <1>7, <1>8, SMT
    <3> QED BY <3>2, <2>2, <2>4
  <2>5. bits < left_bits \/ bits >= left_bits
    BY <1>8, SMT
  <2> QED BY <2>3, <2>4, <2>5, Zenon
<1>12. Counts'
  <2>1. bits' \in 0 .. 32 /\ left_bits' \in 1 .. 8 /\ left_bytes' \in 0 .. z
    BY <1>5, <1>8, <1>9, <1>10, SMT
  <2> QED BY <2>1, <1>1, <1>2, <1>5, <1>6, <1>10, <1>11, Zenon DEF Counts
<1>13. ASSUME NEW b \in 1 .. bits'
       PROVE  value'[32 - bits' + b] = asked'[Pos' + b]
  <2>1. bits >= left_bits /\ bits' = bits - left_bits
    BY <1>8, <1>10, <1>13, SMT
  <2>2. b \in 1 .. bits - left_bits /\ left_bits + b \in 1 .. bits
        /\ Pos + (left_bits + b) = q + b
    BY <2>1, <1>8, <1>11, <1>7, <1>13, SMT
  <2>3. value[32 - bits + (left_bits + b)] = asked[Pos + (left_bits + b)]
    BY <2>2 DEF InBuffer
  <2>4. Rest(value)[32 - (bits - left_bits) + b] = value[32 - bits + (left_bits + b)]
    BY <2>2, <1>8, RestAre
  <2> QED BY <2>1, <2>2, <2>3, <2>4, <1>1, <1>11
<1>14. DOMAIN buffer' = 1 .. 8 * Size' + Slack
  BY <1>1, <1>2, Zenon DEF InBuffer
<1>15. ASSUME NEW i \in DOMAIN buffer
       PROVE  buffer'[i] = IF i <= q THEN asked[i] ELSE Zero
  <2>1. i \in Nat
    <3>1. i \in 1 .. 8 * z + 8
      BY <1>5, <1>15 DEF InBuffer, Slack
    <3> QED BY <3>1, SMT
  <2>2. buffer[i] = IF i <= Pos THEN asked[i] ELSE Zero
    BY <1>15 DEF InBuffer
  <2>3. buffer'[i] = IF i - c \in 1 .. 8
                     THEN Ored(buffer[i], Aligned(value)[24 + i - c]) ELSE buffer[i]
    BY <1>1, <1>7, <1>15, Zenon
  <2>4. CASE i - c \in 1 .. 8
    <3>1. PICK d : d \in 1 .. 8 /\ d = i - c /\ i = c + d /\ 24 + i - c = 24 + d
      BY <2>1, <2>4, <1>7, SMT
    <3>2. Aligned(value)[24 + d] =
            IF 8 - left_bits < d /\ d - 8 + left_bits <= bits
            THEN value[32 - bits + (d - 8 + left_bits)] ELSE Zero
      BY <3>1, <1>8, AlignedAre
    <3>3. CASE i <= Pos
      <4>1. ~ (8 - left_bits < d) /\ i <= q
        BY <3>1, <3>3, <1>7, <1>8, <1>11, SMT
      <4>2. Aligned(value)[24 + i - c] = Zero
        BY <4>1, <3>1, <3>2
      <4> QED BY <4>1, <4>2, <3>3, <2>2, <2>3, <2>4, Zenon DEF Ored
    <3>4. CASE ~ (i <= Pos) /\ i <= a
      <4>1. /\ 8 - left_bits < d /\ d - 8 + left_bits <= bits
            /\ d - 8 + left_bits \in 1 .. bits /\ Pos + (d - 8 + left_bits) = i /\ i <= q
        BY <3>1, <3>4, <1>7, <1>8, <1>11, SMT
      <4>2. value[32 - bits + (d - 8 + left_bits)] = asked[i]
        BY <4>1 DEF InBuffer
      <4>3. Aligned(value)[24 + i - c] = asked[i]
        BY <4>1, <4>2, <3>1, <3>2
      <4> QED BY <4>1, <4>3, <3>4, <2>2, <2>3, <2>4, Zenon DEF Ored
    <3>5. CASE ~ (i <= Pos) /\ ~ (i <= a)
      <4>1. ~ (d - 8 + left_bits <= bits) /\ ~ (i <= q)
        BY <3>1, <3>5, <1>7, <1>8, <1>11, SMT
      <4>2. Aligned(value)[24 + i - c] = Zero
        BY <4>1, <3>1, <3>2
      <4> QED BY <4>1, <4>2, <3>5, <2>2, <2>3, <2>4, Zenon DEF Ored
    <3> QED BY <3>3, <3>4, <3>5
  <2>5. CASE ~ (i - c \in 1 .. 8)
    <3>1. (i <= Pos) <=> (i <= q)
      BY <2>1, <2>5, <1>7, <1>8, <1>11, SMT
    <3> QED BY <3>1, <2>2, <2>3, <2>5, Zenon
  <2> QED BY <2>4, <2>5
<1>16. DOMAIN buffer' = DOMAIN buffer
  BY <1>1, Zenon
<1> QED BY <1>1, <1>3, <1>4, <1>11, <1>12, <1>13, <1>14, <1>15, <1>16, Zenon DEF InBuffer

LEMMA MarkAre ==
  ASSUME NEW k \in 1 .. 32
  PROVE  Mark(k) \in Fields
<1>1. "mark" \in Names
  BY Zenon DEF Names
<1> QED BY <1>1, SMT DEF Mark, Field, Fields

LEMMA FieldsJoined ==
  ASSUME NEW s \in Seq(Fields), NEW t \in Seq(Fields)
  PROVE  \A u : u = s \o t =>
         /\ u \in Seq(Fields) /\ Len(u) = Len(s) + Len(t)
         /\ \A i \in 1 .. Len(s) : u[i] = s[i]
         /\ \A j \in Len(s) + 1 .. Len(s) + Len(t) : u[j] = t[j - Len(s)]
<1> TAKE u
<1> HAVE u = s \o t
<1>1. /\ u \in Seq(Fields) /\ Len(u) = Len(s) + Len(t)
      /\ \A i \in 1 .. Len(s) + Len(t) : u[i] = IF i <= Len(s) THEN s[i] ELSE t[i - Len(s)]
  BY ConcatProperties, Zenon
<1>2. Len(s) \in Nat /\ Len(t) \in Nat
  BY LenProperties
<1>3. /\ \A i \in 1 .. Len(s) : i \in 1 .. Len(s) + Len(t) /\ i <= Len(s)
      /\ \A j \in Len(s) + 1 .. Len(s) + Len(t) : j \in 1 .. Len(s) + Len(t) /\ ~ (j <= Len(s))
  BY <1>2, SMT
<1> QED BY <1>1, <1>3, Zenon

LEMMA OneIs ==
  ASSUME NEW a \in Fields
  PROVE  <<a>> \in Seq(Fields) /\ Len(<<a>>) = 1 /\ <<a>>[1] = a
BY SMT

LEMMA FiveAre ==
  ASSUME NEW a \in Fields, NEW b \in Fields, NEW c \in Fields, NEW d \in Fields,
         NEW e \in Fields
  PROVE  /\ <<a, b, c, d, e>> \in Seq(Fields) /\ Len(<<a, b, c, d, e>>) = 5
         /\ <<a, b, c, d, e>>[1] = a /\ <<a, b, c, d, e>>[2] = b
         /\ <<a, b, c, d, e>>[3] = c /\ <<a, b, c, d, e>>[4] = d
         /\ <<a, b, c, d, e>>[5] = e
BY SMT
LEMMA ThreeAre ==
  ASSUME NEW a \in Fields, NEW b \in Fields, NEW c \in Fields
  PROVE  /\ <<a, b, c>> \in Seq(Fields) /\ Len(<<a, b, c>>) = 3
         /\ <<a, b, c>>[1] = a /\ <<a, b, c>>[2] = b /\ <<a, b, c>>[3] = c
BY SMT

LEMMA SixAre ==
  ASSUME NEW a \in Fields, NEW b \in Fields, NEW c \in Fields, NEW d \in Fields,
         NEW e \in Fields, NEW f \in Fields
  PROVE  /\ <<a, b, c, d, e, f>> \in Seq(Fields) /\ Len(<<a, b, c, d, e, f>>) = 6
         /\ <<a, b, c, d, e, f>>[1] = a /\ <<a, b, c, d, e, f>>[2] = b
         /\ <<a, b, c, d, e, f>>[3] = c /\ <<a, b, c, d, e, f>>[4] = d
         /\ <<a, b, c, d, e, f>>[5] = e /\ <<a, b, c, d, e, f>>[6] = f
BY SMT
LEMMA NumbersIn == {0, 7, 8, 14, 15, 16, 23, 24, 26, 31} \subseteq 0 .. 31
                   /\ {1, 2, 3, 7, 8, 16, 20, 27, 32} \subseteq 1 .. 32
BY SMT

LEMMA HalvesAre ==
  ASSUME NEW n \in Names
  PROVE  /\ Halves(n) \in Seq(Fields) /\ Len(Halves(n)) = 5
         /\ Halves(n)[1] = Field(n, 15, 8, 8) /\ Halves(n)[2] = Field(n, 7, 0, 8)
         /\ Halves(n)[3] = Mark(1)
         /\ Halves(n)[4] = Field(n, 31, 24, 8) /\ Halves(n)[5] = Field(n, 23, 16, 8)
<1>1. /\ Field(n, 15, 8, 8) \in Fields /\ Field(n, 7, 0, 8) \in Fields
      /\ Field(n, 31, 24, 8) \in Fields /\ Field(n, 23, 16, 8) \in Fields
  BY SMT DEF Field, Fields
<1>2. Mark(1) \in Fields
  BY MarkAre, NumbersIn
<1>3. Halves(n) = <<Field(n, 15, 8, 8), Field(n, 7, 0, 8), Mark(1),
                    Field(n, 31, 24, 8), Field(n, 23, 16, 8)>>
  BY DEF Halves
<1>4. PICK a : a = Field(n, 15, 8, 8) /\ a \in Fields
  BY <1>1
<1>5. PICK b : b = Field(n, 7, 0, 8) /\ b \in Fields
  BY <1>1
<1>6. PICK c : c = Mark(1) /\ c \in Fields
  BY <1>2
<1>7. PICK d : d = Field(n, 31, 24, 8) /\ d \in Fields
  BY <1>1
<1>8. PICK e : e = Field(n, 23, 16, 8) /\ e \in Fields
  BY <1>1
<1>9. PICK h : h = <<a, b, c, d, e>>
  OBVIOUS
<1>10. h \in Seq(Fields) /\ Len(h) = 5 /\ h[1] = a /\ h[2] = b /\ h[3] = c /\ h[4] = d /\ h[5] = e
  BY <1>4, <1>5, <1>6, <1>7, <1>8, <1>9, FiveAre, ZenonT(60)
<1>11. Halves(n) = h
  BY <1>3, <1>4, <1>5, <1>6, <1>7, <1>8, <1>9, Zenon
<1> QED BY <1>4, <1>5, <1>6, <1>7, <1>8, <1>10, <1>11, Zenon

\* The first 17 fields of the two USEQ headers.
UseqHead ==
  <<Field("prefix", 23, 8, 16), Field("prefix", 7, 0, 8), Field("startcode", 7, 0, 8),
    Field("signature", 31, 0, 32), Field("v_format", 7, 0, 8)>>
  \o Halves("time_scale") \o <<Mark(1)>> \o Halves("frame_tick") \o <<Mark(1)>>

Common(u) ==
  /\ u[1] = Field("prefix", 23, 8, 16) /\ u[2] = Field("prefix", 7, 0, 8)
  /\ u[3] = Field("startcode", 7, 0, 8) /\ u[4] = Field("signature", 31, 0, 32)
  /\ u[5] = Field("v_format", 7, 0, 8)
  /\ u[6] = Field("time_scale", 15, 8, 8) /\ u[7] = Field("time_scale", 7, 0, 8)
  /\ u[8] = Mark(1)
  /\ u[9] = Field("time_scale", 31, 24, 8) /\ u[10] = Field("time_scale", 23, 16, 8)
  /\ u[11] = Mark(1)
  /\ u[12] = Field("frame_tick", 15, 8, 8) /\ u[13] = Field("frame_tick", 7, 0, 8)
  /\ u[14] = Mark(1)
  /\ u[15] = Field("frame_tick", 31, 24, 8) /\ u[16] = Field("frame_tick", 23, 16, 8)
  /\ u[17] = Mark(1)

LEMMA UseqHeadIs == UseqHead \in Seq(Fields) /\ Len(UseqHead) = 17 /\ Common(UseqHead)
<1>0. {"prefix", "startcode", "signature", "v_format", "time_scale", "frame_tick"}
         \subseteq Names
  BY Zenon DEF Names
<1>1. /\ Field("prefix", 23, 8, 16) \in Fields /\ Field("prefix", 7, 0, 8) \in Fields
      /\ Field("startcode", 7, 0, 8) \in Fields /\ Field("signature", 31, 0, 32) \in Fields
      /\ Field("v_format", 7, 0, 8) \in Fields
  BY <1>0, SMT DEF Field, Fields
<1>2. PICK a : a = <<Field("prefix", 23, 8, 16), Field("prefix", 7, 0, 8),
                     Field("startcode", 7, 0, 8), Field("signature", 31, 0, 32),
                     Field("v_format", 7, 0, 8)>>
  OBVIOUS
<1>3. /\ a \in Seq(Fields) /\ Len(a) = 5
      /\ a[1] = Field("prefix", 23, 8, 16) /\ a[2] = Field("prefix", 7, 0, 8)
      /\ a[3] = Field("startcode", 7, 0, 8) /\ a[4] = Field("signature", 31, 0, 32)
      /\ a[5] = Field("v_format", 7, 0, 8)
  BY <1>1, <1>2, FiveAre, Zenon
<1>4. PICK b : b = Halves("time_scale") /\ b \in Seq(Fields) /\ Len(b) = 5
  BY <1>0, HalvesAre, Zenon
<1>5. PICK c : c = Halves("frame_tick") /\ c \in Seq(Fields) /\ Len(c) = 5
  BY <1>0, HalvesAre, Zenon
<1>6. PICK d : d = <<Mark(1)>> /\ d \in Seq(Fields) /\ Len(d) = 1 /\ d[1] = Mark(1)
  BY MarkAre, OneIs, NumbersIn
<1>7. PICK u1 : u1 = a \o b
  OBVIOUS
<1>8. /\ u1 \in Seq(Fields) /\ Len(u1) = 10
      /\ \A i \in 1 .. 5 : u1[i] = a[i]
      /\ \A j \in 6 .. 10 : u1[j] = b[j - 5]
  <2>1. a \in Seq(Fields) /\ b \in Seq(Fields) /\ u1 = a \o b
    BY <1>3, <1>4, <1>7, Zenon
  <2>2. Len(a) = 5 /\ Len(b) = 5
    BY <1>3, <1>4, Zenon
  <2>3. /\ u1 \in Seq(Fields) /\ Len(u1) = Len(a) + Len(b)
        /\ \A i \in 1 .. Len(a) : u1[i] = a[i]
        /\ \A j \in Len(a) + 1 .. Len(a) + Len(b) : u1[j] = b[j - Len(a)]
    BY <2>1, FieldsJoined, ZenonT(60)
  <2> QED BY <2>2, <2>3, SMT
<1>9. PICK u2 : u2 = u1 \o d
  OBVIOUS
<1>10. /\ u2 \in Seq(Fields) /\ Len(u2) = 11
      /\ \A i \in 1 .. 10 : u2[i] = u1[i]
      /\ \A j \in 11 .. 11 : u2[j] = d[j - 10]
  <2>1. u1 \in Seq(Fields) /\ d \in Seq(Fields) /\ u2 = u1 \o d
    BY <1>6, <1>8, <1>9, Zenon
  <2>2. Len(u1) = 10 /\ Len(d) = 1
    BY <1>6, <1>8, Zenon
  <2>3. /\ u2 \in Seq(Fields) /\ Len(u2) = Len(u1) + Len(d)
        /\ \A i \in 1 .. Len(u1) : u2[i] = u1[i]
        /\ \A j \in Len(u1) + 1 .. Len(u1) + Len(d) : u2[j] = d[j - Len(u1)]
    BY <2>1, FieldsJoined, ZenonT(60)
  <2> QED BY <2>2, <2>3, SMT
<1>11. PICK u3 : u3 = u2 \o c
  OBVIOUS
<1>12. /\ u3 \in Seq(Fields) /\ Len(u3) = 16
      /\ \A i \in 1 .. 11 : u3[i] = u2[i]
      /\ \A j \in 12 .. 16 : u3[j] = c[j - 11]
  <2>1. u2 \in Seq(Fields) /\ c \in Seq(Fields) /\ u3 = u2 \o c
    BY <1>5, <1>10, <1>11, Zenon
  <2>2. Len(u2) = 11 /\ Len(c) = 5
    BY <1>5, <1>10, Zenon
  <2>3. /\ u3 \in Seq(Fields) /\ Len(u3) = Len(u2) + Len(c)
        /\ \A i \in 1 .. Len(u2) : u3[i] = u2[i]
        /\ \A j \in Len(u2) + 1 .. Len(u2) + Len(c) : u3[j] = c[j - Len(u2)]
    BY <2>1, FieldsJoined, ZenonT(60)
  <2> QED BY <2>2, <2>3, SMT
<1>13. PICK u4 : u4 = u3 \o d
  OBVIOUS
<1>14. /\ u4 \in Seq(Fields) /\ Len(u4) = 17
      /\ \A i \in 1 .. 16 : u4[i] = u3[i]
      /\ \A j \in 17 .. 17 : u4[j] = d[j - 16]
  <2>1. u3 \in Seq(Fields) /\ d \in Seq(Fields) /\ u4 = u3 \o d
    BY <1>6, <1>12, <1>13, Zenon
  <2>2. Len(u3) = 16 /\ Len(d) = 1
    BY <1>6, <1>12, Zenon
  <2>3. /\ u4 \in Seq(Fields) /\ Len(u4) = Len(u3) + Len(d)
        /\ \A i \in 1 .. Len(u3) : u4[i] = u3[i]
        /\ \A j \in Len(u3) + 1 .. Len(u3) + Len(d) : u4[j] = d[j - Len(u3)]
    BY <2>1, FieldsJoined, ZenonT(60)
  <2> QED BY <2>2, <2>3, SMT
<1>15. UseqHead = u4
  BY <1>2, <1>4, <1>5, <1>6, <1>7, <1>9, <1>11, <1>13, Zenon DEF UseqHead
<1>16. /\ u4[1] = a[1] /\ u4[2] = a[2] /\ u4[3] = a[3] /\ u4[4] = a[4] /\ u4[5] = a[5]
       /\ u4[6] = b[1] /\ u4[7] = b[2] /\ u4[8] = b[3] /\ u4[9] = b[4] /\ u4[10] = b[5]
       /\ u4[11] = d[1]
       /\ u4[12] = c[1] /\ u4[13] = c[2] /\ u4[14] = c[3] /\ u4[15] = c[4] /\ u4[16] = c[5]
       /\ u4[17] = d[1]
  BY <1>8, <1>10, <1>12, <1>14, SMT
<1>17. Common(u4)
  BY <1>0, <1>3, <1>4, <1>5, <1>6, <1>16, HalvesAre, Zenon DEF Common
<1> QED BY <1>14, <1>15, <1>17

\* The parts of a field.
LEMMA FieldParts ==
  \A n, hi, lo, k : /\ Field(n, hi, lo, k).of = n /\ Field(n, hi, lo, k).hi = hi
                    /\ Field(n, hi, lo, k).lo = lo /\ Field(n, hi, lo, k).bits = k
BY DEF Field

LEMMA MarkParts == \A k : Mark(k).of = "mark" /\ Mark(k).bits = k
BY DEF Mark, Field

\* The numbers that are written in halves; HalvesAt: those of n are fields p .. p + 4 of l.
SplitNumbers == {"time_scale", "frame_tick", "pts_low", "pts_high"}
HalvesAt(l, n, p) ==
  /\ l[p] = Field(n, 15, 8, 8) /\ l[p + 1] = Field(n, 7, 0, 8)
  /\ l[p + 3] = Field(n, 31, 24, 8) /\ l[p + 4] = Field(n, 23, 16, 8)
  /\ \A k \in 1 .. Len(l) : l[k].of = n => k \in {p, p + 1, p + 3, p + 4}
SplitIn(l) ==
  \A n \in SplitNumbers : \A k \in 1 .. Len(l) :
    l[k].of = n => \E p \in 1 .. Len(l) - 4 : HalvesAt(l, n, p)

LEMMA CommonParts ==
  ASSUME NEW u, Common(u)
  PROVE  /\ u[1].bits = 16 /\ u[2].bits = 8 /\ u[3].bits = 8 /\ u[4].bits = 32
         /\ u[5].bits = 8 /\ u[6].bits = 8 /\ u[7].bits = 8 /\ u[8].bits = 1
         /\ u[9].bits = 8 /\ u[10].bits = 8 /\ u[11].bits = 1 /\ u[12].bits = 8
         /\ u[13].bits = 8 /\ u[14].bits = 1 /\ u[15].bits = 8 /\ u[16].bits = 8
         /\ u[17].bits = 1 /\ u[1].of = "prefix" /\ u[2].of = "prefix"
         /\ u[3].of = "startcode" /\ u[4].of = "signature" /\ u[5].of = "v_format"
         /\ u[6].of = "time_scale" /\ u[7].of = "time_scale" /\ u[8].of = "mark"
         /\ u[9].of = "time_scale" /\ u[10].of = "time_scale" /\ u[11].of = "mark"
         /\ u[12].of = "frame_tick" /\ u[13].of = "frame_tick" /\ u[14].of = "mark"
         /\ u[15].of = "frame_tick" /\ u[16].of = "frame_tick" /\ u[17].of = "mark"
<1>1. /\ u[1].bits = 16 /\ u[2].bits = 8 /\ u[3].bits = 8 /\ u[4].bits = 32 /\ u[5].bits = 8
      /\ u[6].bits = 8 /\ u[7].bits = 8 /\ u[8].bits = 1 /\ u[9].bits = 8 /\ u[10].bits = 8
      /\ u[11].bits = 1 /\ u[12].bits = 8 /\ u[13].bits = 8 /\ u[14].bits = 1
      /\ u[15].bits = 8 /\ u[16].bits = 8 /\ u[17].bits = 1
  BY FieldParts, MarkParts, SMT DEF Common
<1>2. /\ u[1].of = "prefix" /\ u[2].of = "prefix" /\ u[3].of = "startcode"
      /\ u[4].of = "signature" /\ u[5].of = "v_format" /\ u[6].of = "time_scale"
      /\ u[7].of = "time_scale" /\ u[8].of = "mark" /\ u[9].of = "time_scale"
      /\ u[10].of = "time_scale" /\ u[11].of = "mark" /\ u[12].of = "frame_tick"
      /\ u[13].of = "frame_tick" /\ u[14].of = "mark" /\ u[15].of = "frame_tick"
      /\ u[16].of = "frame_tick" /\ u[17].of = "mark"
  BY FieldParts, MarkParts, SMT DEF Common
<1> QED BY <1>1, <1>2, Zenon

LEMMA UseqLaid ==
  /\ WellLaid(Useq(FALSE), Starts["useq"], 20) /\ SplitIn(Useq(FALSE))
  /\ Len(Useq(FALSE)) = 18 /\ Starts["useq"][19] = 160
<1>1. UseqHead \in Seq(Fields) /\ Len(UseqHead) = 17 /\ Common(UseqHead)
  BY UseqHeadIs
<1>2. PICK h : h = UseqHead
  OBVIOUS
<1>3. PICK a : a = <<Field("padding", 31, 0, 20)>> /\ a \in Seq(Fields) /\ Len(a) = 1
               /\ a[1] = Field("padding", 31, 0, 20)
  <2>1. "padding" \in Names
    BY Zenon DEF Names
  <2>2. Field("padding", 31, 0, 20) \in Fields
    BY <2>1, SMT DEF Field, Fields
  <2> QED BY <2>2, OneIs
<1>4. PICK u : u = h \o a
  OBVIOUS
<1>5. /\ u \in Seq(Fields) /\ Len(u) = 18
      /\ \A i \in 1 .. 17 : u[i] = h[i]
      /\ \A j \in 18 .. 18 : u[j] = a[j - 17]
  <2>1. h \in Seq(Fields) /\ a \in Seq(Fields) /\ u = h \o a
    BY <1>1, <1>2, <1>3, <1>4, Zenon
  <2>2. Len(h) = 17 /\ Len(a) = 1
    BY <1>1, <1>2, <1>3, Zenon
  <2>3. /\ u \in Seq(Fields) /\ Len(u) = Len(h) + Len(a)
        /\ \A i \in 1 .. Len(h) : u[i] = h[i]
        /\ \A j \in Len(h) + 1 .. Len(h) + Len(a) : u[j] = a[j - Len(h)]
    BY <2>1, FieldsJoined, ZenonT(60)
  <2> QED BY <2>2, <2>3, SMT
<1>6. Useq(FALSE) = u
  <2>1. UseqHead \o <<>> = UseqHead
    BY <1>1, ConcatEmptySeq
  <2>2. Useq(FALSE) = UseqHead \o <<>> \o <<Field("padding", 31, 0, 20)>>
    BY Zenon DEF Useq, UseqHead
  <2> QED BY <2>1, <2>2, <1>2, <1>3, <1>4, Zenon
<1>7. Common(u) /\ u[18] = Field("padding", 31, 0, 20)
  <2>1. /\ u[1] = h[1] /\ u[2] = h[2] /\ u[3] = h[3] /\ u[4] = h[4] /\ u[5] = h[5]
        /\ u[6] = h[6] /\ u[7] = h[7] /\ u[8] = h[8] /\ u[9] = h[9] /\ u[10] = h[10]
        /\ u[11] = h[11] /\ u[12] = h[12] /\ u[13] = h[13] /\ u[14] = h[14] /\ u[15] = h[15]
        /\ u[16] = h[16] /\ u[17] = h[17] /\ u[18] = a[1]
    BY <1>5, SMT
  <2> QED BY <2>1, <1>1, <1>2, <1>3, Zenon DEF Common
<1>8. /\ u[1].bits = 16 /\ u[2].bits = 8 /\ u[3].bits = 8 /\ u[4].bits = 32 /\ u[5].bits = 8
      /\ u[6].bits = 8 /\ u[7].bits = 8 /\ u[8].bits = 1 /\ u[9].bits = 8 /\ u[10].bits = 8
      /\ u[11].bits = 1 /\ u[12].bits = 8 /\ u[13].bits = 8 /\ u[14].bits = 1
      /\ u[15].bits = 8 /\ u[16].bits = 8 /\ u[17].bits = 1 /\ u[18].bits = 20
  BY <1>7, CommonParts, FieldParts, SMT
<1>9. /\ u[1].of = "prefix" /\ u[2].of = "prefix" /\ u[3].of = "startcode"
      /\ u[4].of = "signature" /\ u[5].of = "v_format" /\ u[6].of = "time_scale"
      /\ u[7].of = "time_scale" /\ u[8].of = "mark" /\ u[9].of = "time_scale"
      /\ u[10].of = "time_scale" /\ u[11].of = "mark" /\ u[12].of = "frame_tick"
      /\ u[13].of = "frame_tick" /\ u[14].of = "mark" /\ u[15].of = "frame_tick"
      /\ u[16].of = "frame_tick" /\ u[17].of = "mark" /\ u[18].of = "padding"
  BY <1>7, CommonParts, FieldParts, SMT
<1>10. u \in Seq(Fields) /\ Len(u) = 18
  BY <1>5
<1>11. /\ u[6] = Field("time_scale", 15, 8, 8) /\ u[7] = Field("time_scale", 7, 0, 8)
       /\ u[9] = Field("time_scale", 31, 24, 8) /\ u[10] = Field("time_scale", 23, 16, 8)
       /\ u[12] = Field("frame_tick", 15, 8, 8) /\ u[13] = Field("frame_tick", 7, 0, 8)
       /\ u[15] = Field("frame_tick", 31, 24, 8) /\ u[16] = Field("frame_tick", 23, 16, 8)
  BY <1>7, Zenon DEF Common
<1>12. WellLaid(u, Starts["useq"], 20)
  <2>1. /\ Starts["useq"][1] = 0 /\ Starts["useq"][18 + 1] <= 8 * 20
        /\ \A k \in 1 .. 18 + 1 : Starts["useq"][k] \in Nat
        /\ \A j, k \in 1 .. 18 + 1 : j <= k => Starts["useq"][j] <= Starts["useq"][k]
    BY SMT DEF Starts
  <2>2. \A k \in 1 .. 18 : Starts["useq"][k + 1] = Starts["useq"][k] + u[k].bits
    BY <1>8, SMT DEF Starts
  <2>3. Len(u) = 18 /\ u \in Seq(Fields)
    BY <1>10
  <2> QED BY <2>1, <2>2, <2>3, Zenon DEF WellLaid
<1>13. ASSUME NEW k \in 1 .. 18
    PROVE  /\ u[k].of = "time_scale" => k \in {6, 7, 9, 10}
           /\ u[k].of = "frame_tick" => k \in {12, 13, 15, 16}
           /\ u[k].of # "pts_low"
           /\ u[k].of # "pts_high"
  BY <1>9, <1>13, SMT
<1>14. HalvesAt(u, "time_scale", 6)
  <2>1. 6 + 1 = 7 /\ 6 + 3 = 9 /\ 6 + 4 = 10 /\ Len(u) = 18
    BY <1>10
  <2>2. /\ u[6] = Field("time_scale", 15, 8, 8) /\ u[7] = Field("time_scale", 7, 0, 8)
        /\ u[9] = Field("time_scale", 31, 24, 8) /\ u[10] = Field("time_scale", 23, 16, 8)
    BY <1>11
  <2>3. ASSUME NEW k \in 1 .. Len(u), u[k].of = "time_scale"
        PROVE  k \in {6, 6 + 1, 6 + 3, 6 + 4}
    <3>1. k \in 1 .. 18
      BY <2>1, <2>3
    <3>2. k \in {6, 7, 9, 10}
      BY <2>3, <3>1, <1>13, Zenon
    <3> QED BY <3>2, SMT
  <2> QED BY <2>1, <2>2, <2>3, Zenon DEF HalvesAt
<1>15. HalvesAt(u, "frame_tick", 12)
  <2>1. 12 + 1 = 13 /\ 12 + 3 = 15 /\ 12 + 4 = 16 /\ Len(u) = 18
    BY <1>10
  <2>2. /\ u[12] = Field("frame_tick", 15, 8, 8) /\ u[13] = Field("frame_tick", 7, 0, 8)
        /\ u[15] = Field("frame_tick", 31, 24, 8) /\ u[16] = Field("frame_tick", 23, 16, 8)
    BY <1>11
  <2>3. ASSUME NEW k \in 1 .. Len(u), u[k].of = "frame_tick"
        PROVE  k \in {12, 12 + 1, 12 + 3, 12 + 4}
    <3>1. k \in 1 .. 18
      BY <2>1, <2>3
    <3>2. k \in {12, 13, 15, 16}
      BY <2>3, <3>1, <1>13, Zenon
    <3> QED BY <3>2, SMT
  <2> QED BY <2>1, <2>2, <2>3, Zenon DEF HalvesAt
<1>16. SplitIn(u)
  <2>1. Len(u) = 18 /\ 6 \in 1 .. 18 - 4 /\ 12 \in 1 .. 18 - 4
    BY <1>10
  <2>2. ASSUME NEW n \in SplitNumbers, NEW k \in 1 .. Len(u), u[k].of = n
        PROVE  \E p \in 1 .. Len(u) - 4 : HalvesAt(u, n, p)
    <3>1. k \in 1 .. 18
      BY <2>1, <2>2
    <3>2. n = "time_scale" \/ n = "frame_tick"
      BY <2>2, <3>1, <1>13, Zenon DEF SplitNumbers
    <3> QED BY <2>1, <3>2, <1>14, <1>15, Zenon
  <2> QED BY <2>2, Zenon DEF SplitIn
<1>17. Starts["useq"][19] = 160
  BY SMT DEF Starts
<1> QED BY <1>6, <1>10, <1>12, <1>16, <1>17, Zenon

LEMMA UseqExLaid ==
  /\ WellLaid(Useq(TRUE), Starts["useq_ex"], 24) /\ SplitIn(Useq(TRUE))
  /\ Len(Useq(TRUE)) = 23 /\ Starts["useq_ex"][24] = 192
<1>1. UseqHead \in Seq(Fields) /\ Len(UseqHead) = 17 /\ Common(UseqHead)
  BY UseqHeadIs
<1>2. PICK h : h = UseqHead
  OBVIOUS
<1>3. PICK e : e = <<Field("width", 14, 8, 7), Field("width", 7, 0, 8),
                    Mark(2), Field("height", 14, 8, 7),
                    Field("height", 7, 0, 8)>>
  OBVIOUS
<1>4. /\ e \in Seq(Fields) /\ Len(e) = 5 /\ e[1] = Field("width", 14, 8, 7)
      /\ e[2] = Field("width", 7, 0, 8) /\ e[3] = Mark(2)
      /\ e[4] = Field("height", 14, 8, 7) /\ e[5] = Field("height", 7, 0, 8)
  <2>1. {"height", "width"} \subseteq Names
    BY Zenon DEF Names
  <2>2. /\ Field("width", 14, 8, 7) \in Fields /\ Field("width", 7, 0, 8) \in Fields
        /\ Field("height", 14, 8, 7) \in Fields /\ Field("height", 7, 0, 8) \in Fields
    BY <2>1, SMT DEF Field, Fields
  <2>3. /\ Mark(2) \in Fields
    BY MarkAre, NumbersIn
  <2> QED BY <2>2, <2>3, <1>3, FiveAre, Zenon
<1>5. PICK a : a = <<Field("padding", 31, 0, 20)>>
  OBVIOUS
<1>6. /\ a \in Seq(Fields) /\ Len(a) = 1 /\ a[1] = Field("padding", 31, 0, 20)
  <2>1. {"padding"} \subseteq Names
    BY Zenon DEF Names
  <2>2. /\ Field("padding", 31, 0, 20) \in Fields
    BY <2>1, SMT DEF Field, Fields
  <2> QED BY <2>2, <1>5, OneIs, Zenon
<1>7. PICK v : v = h \o e
  OBVIOUS
<1>8. /\ v \in Seq(Fields) /\ Len(v) = 22
      /\ \A i \in 1 .. 17 : v[i] = h[i]
      /\ \A j \in 18 .. 22 : v[j] = e[j - 17]
  <2>1. h \in Seq(Fields) /\ e \in Seq(Fields) /\ v = h \o e
    BY <1>1, <1>2, <1>4, <1>7, Zenon
  <2>2. Len(h) = 17 /\ Len(e) = 5
    BY <1>1, <1>2, <1>4, Zenon
  <2>3. /\ v \in Seq(Fields) /\ Len(v) = Len(h) + Len(e)
        /\ \A i \in 1 .. Len(h) : v[i] = h[i]
        /\ \A j \in Len(h) + 1 .. Len(h) + Len(e) : v[j] = e[j - Len(h)]
    BY <2>1, FieldsJoined, ZenonT(60)
  <2> QED BY <2>2, <2>3, SMT
<1>9. PICK u : u = v \o a
  OBVIOUS
<1>10. /\ u \in Seq(Fields) /\ Len(u) = 23
      /\ \A i \in 1 .. 22 : u[i] = v[i]
      /\ \A j \in 23 .. 23 : u[j] = a[j - 22]
  <2>1. v \in Seq(Fields) /\ a \in Seq(Fields) /\ u = v \o a
    BY <1>6, <1>8, <1>9, Zenon
  <2>2. Len(v) = 22 /\ Len(a) = 1
    BY <1>6, <1>8, Zenon
  <2>3. /\ u \in Seq(Fields) /\ Len(u) = Len(v) + Len(a)
        /\ \A i \in 1 .. Len(v) : u[i] = v[i]
        /\ \A j \in Len(v) + 1 .. Len(v) + Len(a) : u[j] = a[j - Len(v)]
    BY <2>1, FieldsJoined, ZenonT(60)
  <2> QED BY <2>2, <2>3, SMT
<1>11. Useq(TRUE) = u
  <2>1. Useq(TRUE) = UseqHead
          \o <<Field("width", 14, 8, 7), Field("width", 7, 0, 8), Mark(2),
               Field("height", 14, 8, 7), Field("height", 7, 0, 8)>>
          \o <<Field("padding", 31, 0, 20)>>
    BY Zenon DEF Useq, UseqHead
  <2> QED BY <2>1, <1>2, <1>3, <1>5, <1>7, <1>9, Zenon
<1>12. /\ Common(u) /\ u[18] = Field("width", 14, 8, 7) /\ u[19] = Field("width", 7, 0, 8)
       /\ u[20] = Mark(2) /\ u[21] = Field("height", 14, 8, 7)
       /\ u[22] = Field("height", 7, 0, 8) /\ u[23] = Field("padding", 31, 0, 20)
  <2>1. /\ u[1] = h[1] /\ u[2] = h[2] /\ u[3] = h[3] /\ u[4] = h[4] /\ u[5] = h[5]
        /\ u[6] = h[6] /\ u[7] = h[7] /\ u[8] = h[8] /\ u[9] = h[9] /\ u[10] = h[10]
        /\ u[11] = h[11] /\ u[12] = h[12] /\ u[13] = h[13] /\ u[14] = h[14] /\ u[15] = h[15]
        /\ u[16] = h[16] /\ u[17] = h[17]
    BY <1>8, <1>10, SMT
  <2>2. /\ u[18] = e[1] /\ u[19] = e[2] /\ u[20] = e[3] /\ u[21] = e[4] /\ u[22] = e[5]
        /\ u[23] = a[1]
    BY <1>8, <1>10, SMT
  <2>3. Common(u)
    BY <2>1, <1>1, <1>2, Zenon DEF Common
  <2> QED BY <2>2, <2>3, <1>4, <1>6, Zenon
<1>13. /\ u[1].bits = 16 /\ u[2].bits = 8 /\ u[3].bits = 8 /\ u[4].bits = 32
       /\ u[5].bits = 8 /\ u[6].bits = 8 /\ u[7].bits = 8 /\ u[8].bits = 1 /\ u[9].bits = 8
       /\ u[10].bits = 8 /\ u[11].bits = 1 /\ u[12].bits = 8 /\ u[13].bits = 8
       /\ u[14].bits = 1 /\ u[15].bits = 8 /\ u[16].bits = 8 /\ u[17].bits = 1
       /\ u[18].bits = 7 /\ u[19].bits = 8 /\ u[20].bits = 2 /\ u[21].bits = 7
       /\ u[22].bits = 8 /\ u[23].bits = 20
  BY <1>12, CommonParts, FieldParts, MarkParts, SMT
<1>14. /\ u[1].of = "prefix" /\ u[2].of = "prefix" /\ u[3].of = "startcode"
       /\ u[4].of = "signature" /\ u[5].of = "v_format" /\ u[6].of = "time_scale"
       /\ u[7].of = "time_scale" /\ u[8].of = "mark" /\ u[9].of = "time_scale"
       /\ u[10].of = "time_scale" /\ u[11].of = "mark" /\ u[12].of = "frame_tick"
       /\ u[13].of = "frame_tick" /\ u[14].of = "mark" /\ u[15].of = "frame_tick"
       /\ u[16].of = "frame_tick" /\ u[17].of = "mark" /\ u[18].of = "width"
       /\ u[19].of = "width" /\ u[20].of = "mark" /\ u[21].of = "height"
       /\ u[22].of = "height" /\ u[23].of = "padding"
  BY <1>12, CommonParts, FieldParts, MarkParts, SMT
<1>15. u \in Seq(Fields) /\ Len(u) = 23
  BY <1>10
<1>16. /\ u[6] = Field("time_scale", 15, 8, 8) /\ u[7] = Field("time_scale", 7, 0, 8)
       /\ u[9] = Field("time_scale", 31, 24, 8) /\ u[10] = Field("time_scale", 23, 16, 8)
       /\ u[12] = Field("frame_tick", 15, 8, 8) /\ u[13] = Field("frame_tick", 7, 0, 8)
       /\ u[15] = Field("frame_tick", 31, 24, 8) /\ u[16] = Field("frame_tick", 23, 16, 8)
  BY <1>12, Zenon DEF Common
<1>17. WellLaid(u, Starts["useq_ex"], 24)
  <2>1. /\ Starts["useq_ex"][1] = 0 /\ Starts["useq_ex"][23 + 1] <= 8 * 24
        /\ \A k \in 1 .. 23 + 1 : Starts["useq_ex"][k] \in Nat
        /\ \A j, k \in 1 .. 23 + 1 : j <= k => Starts["useq_ex"][j] <= Starts["useq_ex"][k]
    BY SMT DEF Starts
  <2>2. \A k \in 1 .. 23 : Starts["useq_ex"][k + 1] = Starts["useq_ex"][k] + u[k].bits
    BY <1>13, SMT DEF Starts
  <2>3. Len(u) = 23 /\ u \in Seq(Fields)
    BY <1>15
  <2> QED BY <2>1, <2>2, <2>3, Zenon DEF WellLaid
<1>18. ASSUME NEW k \in 1 .. 23
    PROVE  /\ u[k].of = "time_scale" => k \in {6, 7, 9, 10}
           /\ u[k].of = "frame_tick" => k \in {12, 13, 15, 16}
           /\ u[k].of # "pts_low"
           /\ u[k].of # "pts_high"
  BY <1>14, <1>18, SMT
<1>19. HalvesAt(u, "time_scale", 6)
  <2>1. 6 + 1 = 7 /\ 6 + 3 = 9 /\ 6 + 4 = 10 /\ Len(u) = 23
    BY <1>15
  <2>2. /\ u[6] = Field("time_scale", 15, 8, 8) /\ u[7] = Field("time_scale", 7, 0, 8)
        /\ u[9] = Field("time_scale", 31, 24, 8) /\ u[10] = Field("time_scale", 23, 16, 8)
    BY <1>16
  <2>3. ASSUME NEW k \in 1 .. Len(u), u[k].of = "time_scale"
        PROVE  k \in {6, 6 + 1, 6 + 3, 6 + 4}
    <3>1. k \in 1 .. 23
      BY <2>1, <2>3
    <3>2. k \in {6, 7, 9, 10}
      BY <2>3, <3>1, <1>18, Zenon
    <3> QED BY <3>2, SMT
  <2> QED BY <2>1, <2>2, <2>3, Zenon DEF HalvesAt
<1>20. HalvesAt(u, "frame_tick", 12)
  <2>1. 12 + 1 = 13 /\ 12 + 3 = 15 /\ 12 + 4 = 16 /\ Len(u) = 23
    BY <1>15
  <2>2. /\ u[12] = Field("frame_tick", 15, 8, 8) /\ u[13] = Field("frame_tick", 7, 0, 8)
        /\ u[15] = Field("frame_tick", 31, 24, 8) /\ u[16] = Field("frame_tick", 23, 16, 8)
    BY <1>16
  <2>3. ASSUME NEW k \in 1 .. Len(u), u[k].of = "frame_tick"
        PROVE  k \in {12, 12 + 1, 12 + 3, 12 + 4}
    <3>1. k \in 1 .. 23
      BY <2>1, <2>3
    <3>2. k \in {12, 13, 15, 16}
      BY <2>3, <3>1, <1>18, Zenon
    <3> QED BY <3>2, SMT
  <2> QED BY <2>1, <2>2, <2>3, Zenon DEF HalvesAt
<1>21. SplitIn(u)
  <2>1. Len(u) = 23 /\ 6 \in 1 .. 23 - 4 /\ 12 \in 1 .. 23 - 4
    BY <1>15
  <2>2. ASSUME NEW n \in SplitNumbers, NEW k \in 1 .. Len(u), u[k].of = n
        PROVE  \E p \in 1 .. Len(u) - 4 : HalvesAt(u, n, p)
    <3>1. k \in 1 .. 23
      BY <2>1, <2>2
    <3>2. n = "time_scale" \/ n = "frame_tick"
      BY <2>2, <3>1, <1>18, Zenon DEF SplitNumbers
    <3> QED BY <2>1, <3>2, <1>19, <1>20, Zenon
  <2> QED BY <2>2, Zenon DEF SplitIn
<1>22. Starts["useq_ex"][24] = 192
  BY SMT DEF Starts
<1> QED BY <1>11, <1>15, <1>17, <1>21, <1>22, Zenon

LEMMA UpesLaid ==
  /\ WellLaid(Upes(TRUE), Starts["upes"], 16) /\ SplitIn(Upes(TRUE))
  /\ Len(Upes(TRUE)) = 21 /\ Starts["upes"][22] = 128
<1>1. PICK d : d = <<Mark(1)>> /\ d \in Seq(Fields) /\ Len(d) = 1 /\ d[1] = Mark(1)
  BY MarkAre, OneIs, NumbersIn
<1>2. /\ Halves("pts_low") \in Seq(Fields) /\ Len(Halves("pts_low")) = 5
      /\ Halves("pts_low")[1] = Field("pts_low", 15, 8, 8)
      /\ Halves("pts_low")[2] = Field("pts_low", 7, 0, 8) /\ Halves("pts_low")[3] = Mark(1)
      /\ Halves("pts_low")[4] = Field("pts_low", 31, 24, 8)
      /\ Halves("pts_low")[5] = Field("pts_low", 23, 16, 8)
  <2>1. "pts_low" \in Names
    BY Zenon DEF Names
  <2> QED BY <2>1, HalvesAre, Zenon
<1>3. PICK b : b = Halves("pts_low")
  OBVIOUS
<1>4. /\ b \in Seq(Fields) /\ Len(b) = 5 /\ b[1] = Field("pts_low", 15, 8, 8)
      /\ b[2] = Field("pts_low", 7, 0, 8) /\ b[3] = Mark(1)
      /\ b[4] = Field("pts_low", 31, 24, 8) /\ b[5] = Field("pts_low", 23, 16, 8)
  BY <1>2, <1>3, Zenon
<1>5. /\ Halves("pts_high") \in Seq(Fields) /\ Len(Halves("pts_high")) = 5
      /\ Halves("pts_high")[1] = Field("pts_high", 15, 8, 8)
      /\ Halves("pts_high")[2] = Field("pts_high", 7, 0, 8)
      /\ Halves("pts_high")[3] = Mark(1)
      /\ Halves("pts_high")[4] = Field("pts_high", 31, 24, 8)
      /\ Halves("pts_high")[5] = Field("pts_high", 23, 16, 8)
  <2>1. "pts_high" \in Names
    BY Zenon DEF Names
  <2> QED BY <2>1, HalvesAre, Zenon
<1>6. PICK c : c = Halves("pts_high")
  OBVIOUS
<1>7. /\ c \in Seq(Fields) /\ Len(c) = 5 /\ c[1] = Field("pts_high", 15, 8, 8)
      /\ c[2] = Field("pts_high", 7, 0, 8) /\ c[3] = Mark(1)
      /\ c[4] = Field("pts_high", 31, 24, 8) /\ c[5] = Field("pts_high", 23, 16, 8)
  BY <1>5, <1>6, Zenon
<1>8. PICK e : e = <<Mark(1), Mark(1),
                    Field("padding", 31, 0, 27)>>
  OBVIOUS
<1>9. /\ e \in Seq(Fields) /\ Len(e) = 3 /\ e[1] = Mark(1) /\ e[2] = Mark(1)
      /\ e[3] = Field("padding", 31, 0, 27)
  <2>1. {"padding"} \subseteq Names
    BY Zenon DEF Names
  <2>2. /\ Field("padding", 31, 0, 27) \in Fields
    BY <2>1, SMT DEF Field, Fields
  <2>3. /\ Mark(1) \in Fields
    BY MarkAre, NumbersIn
  <2> QED BY <2>2, <2>3, <1>8, ThreeAre, ZenonT(60)
<1>10. PICK a : a = <<Field("au_datalen", 15, 8, 8), Field("au_datalen", 7, 0, 8),
                    Mark(1), Field("au_datalen", 26, 24, 3),
                    Field("au_datalen", 23, 16, 8), Mark(3)>>
  OBVIOUS
<1>11. /\ a \in Seq(Fields) /\ Len(a) = 6 /\ a[1] = Field("au_datalen", 15, 8, 8)
      /\ a[2] = Field("au_datalen", 7, 0, 8) /\ a[3] = Mark(1)
      /\ a[4] = Field("au_datalen", 26, 24, 3) /\ a[5] = Field("au_datalen", 23, 16, 8)
      /\ a[6] = Mark(3)
  <2>1. {"au_datalen"} \subseteq Names
    BY Zenon DEF Names
  <2>2. /\ Field("au_datalen", 15, 8, 8) \in Fields
        /\ Field("au_datalen", 7, 0, 8) \in Fields
        /\ Field("au_datalen", 26, 24, 3) \in Fields
        /\ Field("au_datalen", 23, 16, 8) \in Fields
    BY <2>1, SMT DEF Field, Fields
  <2>3. /\ Mark(1) \in Fields /\ Mark(3) \in Fields
    BY MarkAre, NumbersIn
  <2> QED BY <2>2, <2>3, <1>10, SixAre, Zenon
<1>12. PICK v1 : v1 = b \o d
  OBVIOUS
<1>13. /\ v1 \in Seq(Fields) /\ Len(v1) = 6
      /\ \A i \in 1 .. 5 : v1[i] = b[i]
      /\ \A j \in 6 .. 6 : v1[j] = d[j - 5]
  <2>1. b \in Seq(Fields) /\ d \in Seq(Fields) /\ v1 = b \o d
    BY <1>4, <1>1, <1>12, Zenon
  <2>2. Len(b) = 5 /\ Len(d) = 1
    BY <1>4, <1>1, Zenon
  <2>3. /\ v1 \in Seq(Fields) /\ Len(v1) = Len(b) + Len(d)
        /\ \A i \in 1 .. Len(b) : v1[i] = b[i]
        /\ \A j \in Len(b) + 1 .. Len(b) + Len(d) : v1[j] = d[j - Len(b)]
    BY <2>1, FieldsJoined, ZenonT(60)
  <2> QED BY <2>2, <2>3, SMT
<1>14. PICK v2 : v2 = v1 \o c
  OBVIOUS
<1>15. /\ v2 \in Seq(Fields) /\ Len(v2) = 11
      /\ \A i \in 1 .. 6 : v2[i] = v1[i]
      /\ \A j \in 7 .. 11 : v2[j] = c[j - 6]
  <2>1. v1 \in Seq(Fields) /\ c \in Seq(Fields) /\ v2 = v1 \o c
    BY <1>13, <1>7, <1>14, Zenon
  <2>2. Len(v1) = 6 /\ Len(c) = 5
    BY <1>13, <1>7, Zenon
  <2>3. /\ v2 \in Seq(Fields) /\ Len(v2) = Len(v1) + Len(c)
        /\ \A i \in 1 .. Len(v1) : v2[i] = v1[i]
        /\ \A j \in Len(v1) + 1 .. Len(v1) + Len(c) : v2[j] = c[j - Len(v1)]
    BY <2>1, FieldsJoined, ZenonT(60)
  <2> QED BY <2>2, <2>3, SMT
<1>16. PICK v3 : v3 = v2 \o e
  OBVIOUS
<1>17. /\ v3 \in Seq(Fields) /\ Len(v3) = 14
      /\ \A i \in 1 .. 11 : v3[i] = v2[i]
      /\ \A j \in 12 .. 14 : v3[j] = e[j - 11]
  <2>1. v2 \in Seq(Fields) /\ e \in Seq(Fields) /\ v3 = v2 \o e
    BY <1>15, <1>9, <1>16, Zenon
  <2>2. Len(v2) = 11 /\ Len(e) = 3
    BY <1>15, <1>9, Zenon
  <2>3. /\ v3 \in Seq(Fields) /\ Len(v3) = Len(v2) + Len(e)
        /\ \A i \in 1 .. Len(v2) : v3[i] = v2[i]
        /\ \A j \in Len(v2) + 1 .. Len(v2) + Len(e) : v3[j] = e[j - Len(v2)]
    BY <2>1, FieldsJoined, ZenonT(60)
  <2> QED BY <2>2, <2>3, SMT
<1>18. PICK v4 : v4 = d \o v3
  OBVIOUS
<1>19. /\ v4 \in Seq(Fields) /\ Len(v4) = 15
      /\ \A i \in 1 .. 1 : v4[i] = d[i]
      /\ \A j \in 2 .. 15 : v4[j] = v3[j - 1]
  <2>1. d \in Seq(Fields) /\ v3 \in Seq(Fields) /\ v4 = d \o v3
    BY <1>1, <1>17, <1>18, Zenon
  <2>2. Len(d) = 1 /\ Len(v3) = 14
    BY <1>1, <1>17, Zenon
  <2>3. /\ v4 \in Seq(Fields) /\ Len(v4) = Len(d) + Len(v3)
        /\ \A i \in 1 .. Len(d) : v4[i] = d[i]
        /\ \A j \in Len(d) + 1 .. Len(d) + Len(v3) : v4[j] = v3[j - Len(d)]
    BY <2>1, FieldsJoined, ZenonT(60)
  <2> QED BY <2>2, <2>3, SMT
<1>20. PICK u : u = v4 \o a
  OBVIOUS
<1>21. /\ u \in Seq(Fields) /\ Len(u) = 21
      /\ \A i \in 1 .. 15 : u[i] = v4[i]
      /\ \A j \in 16 .. 21 : u[j] = a[j - 15]
  <2>1. v4 \in Seq(Fields) /\ a \in Seq(Fields) /\ u = v4 \o a
    BY <1>19, <1>11, <1>20, Zenon
  <2>2. Len(v4) = 15 /\ Len(a) = 6
    BY <1>19, <1>11, Zenon
  <2>3. /\ u \in Seq(Fields) /\ Len(u) = Len(v4) + Len(a)
        /\ \A i \in 1 .. Len(v4) : u[i] = v4[i]
        /\ \A j \in Len(v4) + 1 .. Len(v4) + Len(a) : u[j] = a[j - Len(v4)]
    BY <2>1, FieldsJoined, ZenonT(60)
  <2> QED BY <2>2, <2>3, SMT
<1>22. Upes(TRUE) = u
  <2>1. Upes(TRUE) = d \o (b \o d \o c \o e) \o a
    BY <1>1, <1>3, <1>6, <1>8, <1>10, Zenon DEF Upes
  <2> QED BY <2>1, <1>12, <1>14, <1>16, <1>18, <1>20, Zenon
<1>23. /\ u[1] = Mark(1) /\ u[2] = Field("pts_low", 15, 8, 8)
       /\ u[3] = Field("pts_low", 7, 0, 8) /\ u[4] = Mark(1)
       /\ u[5] = Field("pts_low", 31, 24, 8) /\ u[6] = Field("pts_low", 23, 16, 8)
       /\ u[7] = Mark(1) /\ u[8] = Field("pts_high", 15, 8, 8)
       /\ u[9] = Field("pts_high", 7, 0, 8) /\ u[10] = Mark(1)
       /\ u[11] = Field("pts_high", 31, 24, 8) /\ u[12] = Field("pts_high", 23, 16, 8)
       /\ u[13] = Mark(1) /\ u[14] = Mark(1) /\ u[15] = Field("padding", 31, 0, 27)
       /\ u[16] = Field("au_datalen", 15, 8, 8) /\ u[17] = Field("au_datalen", 7, 0, 8)
       /\ u[18] = Mark(1) /\ u[19] = Field("au_datalen", 26, 24, 3)
       /\ u[20] = Field("au_datalen", 23, 16, 8) /\ u[21] = Mark(3)
  <2>1. /\ u[1] = d[1] /\ u[2] = b[1] /\ u[3] = b[2] /\ u[4] = b[3] /\ u[5] = b[4]
        /\ u[6] = b[5] /\ u[7] = d[1]
    BY <1>13, <1>15, <1>17, <1>19, <1>21, SMTT(60)
  <2>2. /\ v3[7] = c[1] /\ v3[8] = c[2] /\ v3[9] = c[3] /\ v3[10] = c[4] /\ v3[11] = c[5]
        /\ v3[12] = e[1] /\ v3[13] = e[2] /\ v3[14] = e[3]
    BY <1>15, <1>17, SMT
  <2>6. /\ u[8] = v3[7] /\ u[9] = v3[8] /\ u[10] = v3[9] /\ u[11] = v3[10] /\ u[12] = v3[11]
        /\ u[13] = v3[12] /\ u[14] = v3[13] /\ u[15] = v3[14]
    BY <1>19, <1>21, SMTT(60)
  <2>7. /\ u[16] = a[1] /\ u[17] = a[2] /\ u[18] = a[3] /\ u[19] = a[4] /\ u[20] = a[5]
        /\ u[21] = a[6]
    BY <1>21, SMT
  <2>3. /\ u[1] = Mark(1) /\ u[2] = Field("pts_low", 15, 8, 8)
        /\ u[3] = Field("pts_low", 7, 0, 8) /\ u[4] = Mark(1)
        /\ u[5] = Field("pts_low", 31, 24, 8) /\ u[6] = Field("pts_low", 23, 16, 8)
        /\ u[7] = Mark(1)
    BY <2>1, <1>1, <1>4, Zenon
  <2>4. /\ u[8] = Field("pts_high", 15, 8, 8) /\ u[9] = Field("pts_high", 7, 0, 8)
        /\ u[10] = Mark(1) /\ u[11] = Field("pts_high", 31, 24, 8)
        /\ u[12] = Field("pts_high", 23, 16, 8) /\ u[13] = Mark(1) /\ u[14] = Mark(1)
        /\ u[15] = Field("padding", 31, 0, 27)
    BY <2>2, <2>6, <1>7, <1>9, Zenon
  <2>5. /\ u[16] = Field("au_datalen", 15, 8, 8) /\ u[17] = Field("au_datalen", 7, 0, 8)
        /\ u[18] = Mark(1) /\ u[19] = Field("au_datalen", 26, 24, 3)
        /\ u[20] = Field("au_datalen", 23, 16, 8) /\ u[21] = Mark(3)
    BY <2>7, <1>11, Zenon
  <2> QED BY <2>3, <2>4, <2>5, Zenon
<1>24. /\ u[1].bits = 1 /\ u[2].bits = 8 /\ u[3].bits = 8 /\ u[4].bits = 1 /\ u[5].bits = 8
       /\ u[6].bits = 8 /\ u[7].bits = 1 /\ u[8].bits = 8 /\ u[9].bits = 8 /\ u[10].bits = 1
       /\ u[11].bits = 8 /\ u[12].bits = 8 /\ u[13].bits = 1 /\ u[14].bits = 1
       /\ u[15].bits = 27 /\ u[16].bits = 8 /\ u[17].bits = 8 /\ u[18].bits = 1
       /\ u[19].bits = 3 /\ u[20].bits = 8 /\ u[21].bits = 3
  BY <1>23, FieldParts, MarkParts, SMT
<1>25. /\ u[1].of = "mark" /\ u[2].of = "pts_low" /\ u[3].of = "pts_low" /\ u[4].of = "mark"
       /\ u[5].of = "pts_low" /\ u[6].of = "pts_low" /\ u[7].of = "mark"
       /\ u[8].of = "pts_high" /\ u[9].of = "pts_high" /\ u[10].of = "mark"
       /\ u[11].of = "pts_high" /\ u[12].of = "pts_high" /\ u[13].of = "mark"
       /\ u[14].of = "mark" /\ u[15].of = "padding" /\ u[16].of = "au_datalen"
       /\ u[17].of = "au_datalen" /\ u[18].of = "mark" /\ u[19].of = "au_datalen"
       /\ u[20].of = "au_datalen" /\ u[21].of = "mark"
  BY <1>23, FieldParts, MarkParts, SMT
<1>26. u \in Seq(Fields) /\ Len(u) = 21
  BY <1>21
<1>27. WellLaid(u, Starts["upes"], 16)
  <2>1. /\ Starts["upes"][1] = 0 /\ Starts["upes"][21 + 1] <= 8 * 16
        /\ \A k \in 1 .. 21 + 1 : Starts["upes"][k] \in Nat
        /\ \A j, k \in 1 .. 21 + 1 : j <= k => Starts["upes"][j] <= Starts["upes"][k]
    BY SMT DEF Starts
  <2>2. \A k \in 1 .. 21 : Starts["upes"][k + 1] = Starts["upes"][k] + u[k].bits
    BY <1>24, SMT DEF Starts
  <2>3. Len(u) = 21 /\ u \in Seq(Fields)
    BY <1>26
  <2> QED BY <2>1, <2>2, <2>3, Zenon DEF WellLaid
<1>28. ASSUME NEW k \in 1 .. 21
    PROVE  /\ u[k].of = "pts_low" => k \in {2, 3, 5, 6}
           /\ u[k].of = "pts_high" => k \in {8, 9, 11, 12}
           /\ u[k].of # "time_scale"
           /\ u[k].of # "frame_tick"
  BY <1>25, <1>28, SMT
<1>29. HalvesAt(u, "pts_low", 2)
  <2>1. 2 + 1 = 3 /\ 2 + 3 = 5 /\ 2 + 4 = 6 /\ Len(u) = 21
    BY <1>26
  <2>2. /\ u[2] = Field("pts_low", 15, 8, 8) /\ u[3] = Field("pts_low", 7, 0, 8)
        /\ u[5] = Field("pts_low", 31, 24, 8) /\ u[6] = Field("pts_low", 23, 16, 8)
    BY <1>23
  <2>3. ASSUME NEW k \in 1 .. Len(u), u[k].of = "pts_low"
        PROVE  k \in {2, 2 + 1, 2 + 3, 2 + 4}
    <3>1. k \in 1 .. 21
      BY <2>1, <2>3
    <3>2. k \in {2, 3, 5, 6}
      BY <2>3, <3>1, <1>28, Zenon
    <3> QED BY <3>2, SMT
  <2> QED BY <2>1, <2>2, <2>3, Zenon DEF HalvesAt
<1>30. HalvesAt(u, "pts_high", 8)
  <2>1. 8 + 1 = 9 /\ 8 + 3 = 11 /\ 8 + 4 = 12 /\ Len(u) = 21
    BY <1>26
  <2>2. /\ u[8] = Field("pts_high", 15, 8, 8) /\ u[9] = Field("pts_high", 7, 0, 8)
        /\ u[11] = Field("pts_high", 31, 24, 8) /\ u[12] = Field("pts_high", 23, 16, 8)
    BY <1>23
  <2>3. ASSUME NEW k \in 1 .. Len(u), u[k].of = "pts_high"
        PROVE  k \in {8, 8 + 1, 8 + 3, 8 + 4}
    <3>1. k \in 1 .. 21
      BY <2>1, <2>3
    <3>2. k \in {8, 9, 11, 12}
      BY <2>3, <3>1, <1>28, Zenon
    <3> QED BY <3>2, SMT
  <2> QED BY <2>1, <2>2, <2>3, Zenon DEF HalvesAt
<1>31. SplitIn(u)
  <2>1. Len(u) = 21 /\ 2 \in 1 .. 21 - 4 /\ 8 \in 1 .. 21 - 4
    BY <1>26
  <2>2. ASSUME NEW n \in SplitNumbers, NEW k \in 1 .. Len(u), u[k].of = n
        PROVE  \E p \in 1 .. Len(u) - 4 : HalvesAt(u, n, p)
    <3>1. k \in 1 .. 21
      BY <2>1, <2>2
    <3>2. n = "pts_low" \/ n = "pts_high"
      BY <2>2, <3>1, <1>28, Zenon DEF SplitNumbers
    <3> QED BY <2>1, <3>2, <1>29, <1>30, Zenon
  <2> QED BY <2>2, Zenon DEF SplitIn
<1>32. Starts["upes"][22] = 128
  BY SMT DEF Starts
<1> QED BY <1>22, <1>26, <1>27, <1>31, <1>32, Zenon

LEMMA UpesNoptsLaid ==
  /\ WellLaid(Upes(FALSE), Starts["upes_nopts"], 16) /\ SplitIn(Upes(FALSE))
  /\ Len(Upes(FALSE)) = 7 /\ Starts["upes_nopts"][8] = 32
<1>1. PICK d : d = <<Mark(1)>> /\ d \in Seq(Fields) /\ Len(d) = 1 /\ d[1] = Mark(1)
  BY MarkAre, OneIs, NumbersIn
<1>2. PICK a : a = <<Field("au_datalen", 15, 8, 8), Field("au_datalen", 7, 0, 8),
                    Mark(1), Field("au_datalen", 26, 24, 3),
                    Field("au_datalen", 23, 16, 8), Mark(3)>>
  OBVIOUS
<1>3. /\ a \in Seq(Fields) /\ Len(a) = 6 /\ a[1] = Field("au_datalen", 15, 8, 8)
      /\ a[2] = Field("au_datalen", 7, 0, 8) /\ a[3] = Mark(1)
      /\ a[4] = Field("au_datalen", 26, 24, 3) /\ a[5] = Field("au_datalen", 23, 16, 8)
      /\ a[6] = Mark(3)
  <2>1. {"au_datalen"} \subseteq Names
    BY Zenon DEF Names
  <2>2. /\ Field("au_datalen", 15, 8, 8) \in Fields
        /\ Field("au_datalen", 7, 0, 8) \in Fields
        /\ Field("au_datalen", 26, 24, 3) \in Fields
        /\ Field("au_datalen", 23, 16, 8) \in Fields
    BY <2>1, SMT DEF Field, Fields
  <2>3. /\ Mark(1) \in Fields /\ Mark(3) \in Fields
    BY MarkAre, NumbersIn
  <2> QED BY <2>2, <2>3, <1>2, SixAre, Zenon
<1>4. PICK u : u = d \o a
  OBVIOUS
<1>5. /\ u \in Seq(Fields) /\ Len(u) = 7
      /\ \A i \in 1 .. 1 : u[i] = d[i]
      /\ \A j \in 2 .. 7 : u[j] = a[j - 1]
  <2>1. d \in Seq(Fields) /\ a \in Seq(Fields) /\ u = d \o a
    BY <1>1, <1>3, <1>4, Zenon
  <2>2. Len(d) = 1 /\ Len(a) = 6
    BY <1>1, <1>3, Zenon
  <2>3. /\ u \in Seq(Fields) /\ Len(u) = Len(d) + Len(a)
        /\ \A i \in 1 .. Len(d) : u[i] = d[i]
        /\ \A j \in Len(d) + 1 .. Len(d) + Len(a) : u[j] = a[j - Len(d)]
    BY <2>1, FieldsJoined, ZenonT(60)
  <2> QED BY <2>2, <2>3, SMT
<1>6. Upes(FALSE) = u
  <2>1. Upes(FALSE) = d \o <<>> \o a
    BY <1>1, <1>2, Zenon DEF Upes
  <2>2. d \o <<>> = d
    BY <1>1, ConcatEmptySeq
  <2> QED BY <2>1, <2>2, <1>4, Zenon
<1>7. /\ u[1] = Mark(1) /\ u[2] = Field("au_datalen", 15, 8, 8)
      /\ u[3] = Field("au_datalen", 7, 0, 8) /\ u[4] = Mark(1)
      /\ u[5] = Field("au_datalen", 26, 24, 3) /\ u[6] = Field("au_datalen", 23, 16, 8)
      /\ u[7] = Mark(3)
  <2>1. /\ u[1] = d[1] /\ u[2] = a[1] /\ u[3] = a[2] /\ u[4] = a[3] /\ u[5] = a[4]
        /\ u[6] = a[5] /\ u[7] = a[6]
    BY <1>5, SMT
  <2> QED BY <2>1, <1>1, <1>3, Zenon
<1>8. /\ u[1].bits = 1 /\ u[2].bits = 8 /\ u[3].bits = 8 /\ u[4].bits = 1 /\ u[5].bits = 3
      /\ u[6].bits = 8 /\ u[7].bits = 3
  BY <1>7, FieldParts, MarkParts, SMT
<1>9. /\ u[1].of = "mark" /\ u[2].of = "au_datalen" /\ u[3].of = "au_datalen"
      /\ u[4].of = "mark" /\ u[5].of = "au_datalen" /\ u[6].of = "au_datalen"
      /\ u[7].of = "mark"
  BY <1>7, FieldParts, MarkParts, SMT
<1>10. u \in Seq(Fields) /\ Len(u) = 7
  BY <1>5
<1>11. WellLaid(u, Starts["upes_nopts"], 16)
  <2>1. /\ Starts["upes_nopts"][1] = 0 /\ Starts["upes_nopts"][7 + 1] <= 8 * 16
        /\ \A k \in 1 .. 7 + 1 : Starts["upes_nopts"][k] \in Nat
        /\ \A j, k \in 1 .. 7 + 1 : j <= k => Starts["upes_nopts"][j] <= Starts["upes_nopts"][k]
    BY SMT DEF Starts
  <2>2. \A k \in 1 .. 7 : Starts["upes_nopts"][k + 1] = Starts["upes_nopts"][k] + u[k].bits
    BY <1>8, SMT DEF Starts
  <2>3. Len(u) = 7 /\ u \in Seq(Fields)
    BY <1>10
  <2> QED BY <2>1, <2>2, <2>3, Zenon DEF WellLaid
<1>12. SplitIn(u)
  <2>1. \A k \in 1 .. 7 : u[k].of \notin SplitNumbers
    BY <1>9, SMT DEF SplitNumbers
  <2>2. Len(u) = 7
    BY <1>10
  <2> QED BY <2>1, <2>2, Zenon DEF SplitIn
<1>13. Starts["upes_nopts"][8] = 32
  BY SMT DEF Starts
<1> QED BY <1>6, <1>10, <1>11, <1>12, <1>13, Zenon

UnusedBytes(h) == IF h = "upes_nopts" THEN 12 ELSE 0

LEMMA LayoutsLaid ==
  ASSUME NEW h \in DOMAIN Layouts
  PROVE  /\ WellLaid(Layouts[h], Starts[h], Sizes[h]) /\ SplitIn(Layouts[h])
         /\ Sizes[h] \in 1 .. 24 /\ UnusedBytes(h) \in 0 .. Sizes[h] - 1
         /\ Starts[h][Len(Layouts[h]) + 1] = 8 * (Sizes[h] - UnusedBytes(h))
<1>1. h \in {"useq", "useq_ex", "upes", "upes_nopts"}
  BY DEF Layouts
<1>2. CASE h = "useq"
  <2>1. Layouts[h] = Useq(FALSE) /\ Sizes[h] = 20 /\ UnusedBytes(h) = 0
    BY <1>2 DEF Layouts, Sizes, UnusedBytes
  <2>2. 18 + 1 = 19 /\ 8 * (20 - 0) = 160 /\ 20 \in 1 .. 24 /\ 0 \in 0 .. 20 - 1
    BY SMT
  <2>3. WellLaid(Layouts[h], Starts[h], Sizes[h]) /\ SplitIn(Layouts[h])
    BY <1>2, <2>1, UseqLaid, Zenon
  <2>4. Starts[h][Len(Layouts[h]) + 1] = 8 * (Sizes[h] - UnusedBytes(h))
    <3>1. Starts["useq"][18 + 1] = 160
      BY <2>2, UseqLaid, SMT
    <3>2. Len(Layouts[h]) = 18
      BY <2>1, UseqLaid, Zenon
    <3>3. 8 * (20 - 0) = 160
      BY SMT
    <3> QED BY <1>2, <2>1, <3>1, <3>2, <3>3, Zenon
  <2> QED BY <2>1, <2>2, <2>3, <2>4, Zenon
<1>3. CASE h = "useq_ex"
  <2>1. Layouts[h] = Useq(TRUE) /\ Sizes[h] = 24 /\ UnusedBytes(h) = 0
    BY <1>3 DEF Layouts, Sizes, UnusedBytes
  <2>2. 23 + 1 = 24 /\ 8 * (24 - 0) = 192 /\ 24 \in 1 .. 24 /\ 0 \in 0 .. 24 - 1
    BY SMT
  <2>3. WellLaid(Layouts[h], Starts[h], Sizes[h]) /\ SplitIn(Layouts[h])
    BY <1>3, <2>1, UseqExLaid, Zenon
  <2>4. Starts[h][Len(Layouts[h]) + 1] = 8 * (Sizes[h] - UnusedBytes(h))
    <3>1. Starts["useq_ex"][23 + 1] = 192
      BY <2>2, UseqExLaid, SMT
    <3>2. Len(Layouts[h]) = 23
      BY <2>1, UseqExLaid, Zenon
    <3>3. 8 * (24 - 0) = 192
      BY SMT
    <3> QED BY <1>3, <2>1, <3>1, <3>2, <3>3, ZenonT(60)
  <2> QED BY <2>1, <2>2, <2>3, <2>4, Zenon
<1>4. CASE h = "upes"
  <2>1. Layouts[h] = Upes(TRUE) /\ Sizes[h] = 16 /\ UnusedBytes(h) = 0
    BY <1>4 DEF Layouts, Sizes, UnusedBytes
  <2>2. 21 + 1 = 22 /\ 8 * (16 - 0) = 128 /\ 16 \in 1 .. 24 /\ 0 \in 0 .. 16 - 1
    BY SMT
  <2>3. WellLaid(Layouts[h], Starts[h], Sizes[h]) /\ SplitIn(Layouts[h])
    BY <1>4, <2>1, UpesLaid, Zenon
  <2>4. Starts[h][Len(Layouts[h]) + 1] = 8 * (Sizes[h] - UnusedBytes(h))
    <3>1. Starts["upes"][21 + 1] = 128
      BY <2>2, UpesLaid, SMT
    <3>2. Len(Layouts[h]) = 21
      BY <2>1, UpesLaid, Zenon
    <3>3. 8 * (16 - 0) = 128
      BY SMT
    <3> QED BY <1>4, <2>1, <3>1, <3>2, <3>3, Zenon
  <2> QED BY <2>1, <2>2, <2>3, <2>4, Zenon
<1>5. CASE h = "upes_nopts"
  <2>1. Layouts[h] = Upes(FALSE) /\ Sizes[h] = 16 /\ UnusedBytes(h) = 12
    BY <1>5 DEF Layouts, Sizes, UnusedBytes
  <2>2. 7 + 1 = 8 /\ 8 * (16 - 12) = 32 /\ 16 \in 1 .. 24 /\ 12 \in 0 .. 16 - 1
    BY SMT
  <2>3. WellLaid(Layouts[h], Starts[h], Sizes[h]) /\ SplitIn(Layouts[h])
    BY <1>5, <2>1, UpesNoptsLaid, Zenon
  <2>4. Starts[h][Len(Layouts[h]) + 1] = 8 * (Sizes[h] - UnusedBytes(h))
    <3>1. Starts["upes_nopts"][7 + 1] = 32
      BY <2>2, UpesNoptsLaid, SMT
    <3>2. Len(Layouts[h]) = 7
      BY <2>1, UpesNoptsLaid, Zenon
    <3>3. 8 * (16 - 12) = 32
      BY SMT
    <3> QED BY <1>5, <2>1, <3>1, <3>2, <3>3, Zenon
  <2> QED BY <2>1, <2>2, <2>3, <2>4, Zenon
<1> QED BY <1>1, <1>2, <1>3, <1>4, <1>5

WriterInv ==
  /\ header \in DOMAIN Layouts /\ FieldsLeft /\ FieldsAsked /\ Counts /\ InBuffer

WriterSpec == WriterInit /\ [][WriterNext]_writerVars

LEMMA WriterInitInv == WriterInit => WriterInv
<1> SUFFICES ASSUME WriterInit PROVE WriterInv
  OBVIOUS
<1>1. /\ header \in DOMAIN Layouts /\ fields = Layout /\ bits = 0 /\ asked = <<>>
      /\ buffer = [i \in 1 .. 8 * Size + Slack |-> Zero]
      /\ left_bits = 8 /\ left_bytes = Size /\ full = FALSE
  BY Zenon DEF WriterInit, Layout, Size
<1>2. Layout \in Seq(Fields) /\ FieldStart[1] = 0 /\ Size \in 1 .. 24 /\ Len(Layout) \in Nat
  <2>1. WellLaid(Layout, FieldStart, Size) /\ Size \in 1 .. 24
    BY <1>1, LayoutsLaid, Zenon DEF Layout, FieldStart, Size
  <2> QED BY <2>1, LenProperties, Zenon DEF WellLaid
<1>3. Taken = 0
  BY <1>1, <1>2, SMT DEF Taken
<1>4. FieldsLeft
  <2>1. 0 \in 0 .. Len(Layout) /\ \A j \in 1 .. Len(Layout) : 0 + j = j
    BY <1>2, SMT
  <2> QED BY <2>1, <1>1, <1>2, <1>3, Zenon DEF FieldsLeft
<1>5. asked \in Seq(Bits) /\ Len(asked) = 0
  BY <1>1, EmptySeq, Zenon
<1>6. FieldsAsked
  <2>1. 0 + 1 = 1 /\ (\A k \in 1 .. 0 : FALSE)
    BY SMT
  <2> QED BY <2>1, <1>2, <1>3, <1>5, Zenon DEF FieldsAsked
<1>7. Pos = 0
  <2>1. PICK z : z \in 1 .. 24 /\ z = Size
    BY <1>2
  <2>2. Pos = 8 * (z - z) + 8 - 8
    BY <1>1, <2>1, Zenon DEF Pos, p_cur_bit, Size
  <2> QED BY <2>1, <2>2, SMT
<1>8. Counts
  <2>1. PICK z : z \in 1 .. 24 /\ z = Size
    BY <1>2
  <2>2. 0 \in 0 .. 32 /\ 8 \in 1 .. 8 /\ z \in 0 .. z /\ 0 = 0 + 0
    BY <2>1, SMT
  <2> QED BY <2>1, <2>2, <1>1, <1>5, <1>7, Zenon DEF Counts
<1>9. InBuffer
  <2>1. \A i \in 1 .. 8 * Size + Slack : ~ (i <= 0)
    <3>1. PICK z : z \in 1 .. 24 /\ z = Size
      BY <1>2
    <3>2. \A i \in 1 .. 8 * z + 8 : ~ (i <= 0)
      BY <3>1, SMT
    <3> QED BY <3>1, <3>2 DEF Slack
  <2>2. \A b \in 1 .. bits : FALSE
    BY <1>1, SMT
  <2>3. DOMAIN buffer = 1 .. 8 * Size + Slack
    BY <1>1, Zenon
  <2>4. \A i \in DOMAIN buffer : buffer[i] = IF i <= Pos THEN asked[i] ELSE Zero
    BY <2>1, <2>3, <1>1, <1>7, Zenon
  <2> QED BY <2>2, <2>3, <2>4, Zenon DEF InBuffer
<1> QED BY <1>1, <1>4, <1>6, <1>8, <1>9 DEF WriterInv

LEMMA WriterInvInductive == WriterInv /\ [WriterNext]_writerVars => WriterInv'
<1> SUFFICES ASSUME WriterInv, [WriterNext]_writerVars PROVE WriterInv'
  OBVIOUS
<1>1. /\ header \in DOMAIN Layouts /\ WellLaid(Layout, FieldStart, Size) /\ Size \in 1 .. 24
      /\ FieldsLeft /\ FieldsAsked /\ Counts /\ InBuffer
  BY LayoutsLaid, Zenon DEF WriterInv, Layout, FieldStart, Size
<1>2. CASE WriteBits
  <2>1. FieldsLeft' /\ FieldsAsked' /\ Counts' /\ InBuffer'
    BY <1>1, <1>2, WriteBitsKeeps
  <2>2. header' = header
    BY <1>2, Zenon DEF WriteBits
  <2> QED BY <1>1, <2>1, <2>2 DEF WriterInv
<1>3. CASE WriteByte
  <2>1. FieldsLeft' /\ FieldsAsked' /\ Counts' /\ InBuffer'
    BY <1>1, <1>3, WriteByteKeeps
  <2>2. header' = header
    BY <1>3, Zenon DEF WriteByte
  <2> QED BY <1>1, <2>1, <2>2 DEF WriterInv
<1>4. CASE UNCHANGED writerVars
  <2>1. /\ header' = header /\ fields' = fields /\ value' = value /\ bits' = bits
        /\ buffer' = buffer /\ left_bits' = left_bits /\ left_bytes' = left_bytes
        /\ full' = full /\ asked' = asked
    BY <1>4, Zenon DEF writerVars
  <2>2. Layout' = Layout /\ FieldStart' = FieldStart /\ Size' = Size /\ Taken' = Taken /\ Pos' = Pos
    BY <2>1, Zenon DEF Layout, FieldStart, Size, Taken, Pos, p_cur_bit
  <2>3. FieldsLeft' /\ FieldsAsked'
    BY <1>1, <2>1, <2>2, Zenon DEF FieldsLeft, FieldsAsked
  <2>4. Counts' /\ InBuffer'
    BY <1>1, <2>1, <2>2, Zenon DEF Counts, InBuffer
  <2> QED BY <1>1, <2>1, <2>3, <2>4 DEF WriterInv
<1> QED BY <1>2, <1>3, <1>4 DEF WriterNext

\* What the invariant says once the last bit is written.
LEMMA AllWritten ==
  ASSUME WriterInv, bits = 0
  PROVE  /\ Pos = Len(asked) /\ Len(asked) \in Nat
         /\ \A i \in DOMAIN buffer : buffer[i] = IF i <= Len(asked) THEN asked[i] ELSE Zero
<1>1. Len(asked) = Pos + bits /\ asked \in Seq(Bits)
      /\ \A i \in DOMAIN buffer : buffer[i] = IF i <= Pos THEN asked[i] ELSE Zero
  BY Zenon DEF WriterInv, Counts, FieldsAsked, InBuffer
<1>2. Len(asked) \in Nat
  BY <1>1, LenProperties
<1>3. PICK q : q = Pos
  OBVIOUS
<1>4. q \in Int
  <2>1. /\ left_bits \in 1 .. 8 /\ left_bytes \in 0 .. Size
    BY Zenon DEF WriterInv, Counts
  <2>2. PICK z : z \in 1 .. 24 /\ z = Size
    BY LayoutsLaid, Zenon DEF WriterInv, Size
  <2>3. q = 8 * (z - left_bytes) + 8 - left_bits
    BY <1>3, <2>2, Zenon DEF Pos, p_cur_bit, Size
  <2> QED BY <2>1, <2>2, <2>3, SMT
<1>5. Pos = Len(asked)
  BY <1>1, <1>3, <1>4, SMT
<1> QED BY <1>1, <1>2, <1>5

LEMMA PlacedBits == WriterInv => BitsInPlace
BY AllWritten, Zenon DEF BitsInPlace

LEMMA FilledHeader == WriterInv => HeaderFilled
<1> SUFFICES ASSUME WriterInv PROVE HeaderFilled
  OBVIOUS
<1>1. full = FALSE
  BY DEF WriterInv, Counts
<1>2. ASSUME fields = <<>>, bits = 0
      PROVE  left_bits = 8 /\ left_bytes = IF header = "upes_nopts" THEN 12 ELSE 0
  <2>1. PICK z : z \in 1 .. 24 /\ z = Size /\ UnusedBytes(header) \in 0 .. z - 1
                 /\ FieldStart[Len(Layout) + 1] = 8 * (z - UnusedBytes(header))
                 /\ WellLaid(Layout, FieldStart, Size)
    BY LayoutsLaid, Zenon DEF WriterInv, Size, Layout, FieldStart
  <2>2. Taken = Len(Layout)
    <3>1. Len(Layout) \in Nat
      BY <2>1, LenProperties DEF WellLaid
    <3>2. Len(fields) = 0
      BY <1>2, EmptySeq
    <3> QED BY <3>1, <3>2, SMT DEF Taken
  <2>3. Len(asked) = 8 * (z - UnusedBytes(header))
    BY <2>1, <2>2 DEF WriterInv, FieldsAsked
  <2>4. Pos = 8 * (z - left_bytes) + 8 - left_bits
    BY <2>1, Zenon DEF Pos, p_cur_bit, Size
  <2>5. left_bits \in 1 .. 8 /\ left_bytes \in 0 .. z
    BY <2>1, Zenon DEF WriterInv, Counts
  <2>6. PICK w : w = UnusedBytes(header) /\ w \in 0 .. z - 1
    BY <2>1
  <2>7. 8 * (z - left_bytes) + 8 - left_bits = 8 * (z - w)
    BY <1>2, <2>3, <2>4, <2>6, AllWritten, Zenon
  <2>8. left_bits = 8 /\ left_bytes = w
    BY <2>1, <2>5, <2>6, <2>7, SMT
  <2> QED BY <2>6, <2>8 DEF UnusedBytes
<1> QED BY <1>1, <1>2 DEF HeaderFilled

\* The bit in place i of a finished header: of which field it is and which of its bits.
LEMMA Origin ==
  ASSUME WriterInv, fields = <<>>, bits = 0
  PROVE  /\ Layout \in Seq(Fields) /\ Len(Layout) \in Nat
         /\ \A k \in 1 .. Len(Layout) : \A b \in 1 .. Layout[k].bits :
              /\ FieldStart[k] + b \in DOMAIN buffer
              /\ buffer[FieldStart[k] + b] = BitOf(Layout[k], b)
         /\ \A i \in DOMAIN buffer :
              \/ buffer[i] = Zero
              \/ \E k \in 1 .. Len(Layout) : \E b \in 1 .. Layout[k].bits :
                   i = FieldStart[k] + b /\ buffer[i] = BitOf(Layout[k], b)
<1>1. PICK z : z \in 1 .. 24 /\ z = Size /\ WellLaid(Layout, FieldStart, Size)
  BY LayoutsLaid, Zenon DEF WriterInv, Size, Layout, FieldStart
<1>2. Layout \in Seq(Fields) /\ Len(Layout) \in Nat
  BY <1>1, LenProperties DEF WellLaid
<1>3. Taken = Len(Layout)
  <2>1. Len(fields) = 0
    BY EmptySeq
  <2> QED BY <1>2, <2>1, SMT DEF Taken
<1>4. PICK l : l = Len(asked) /\ l \in Nat /\ l <= 8 * z
  <2>1. Len(asked) = FieldStart[Len(Layout) + 1]
    BY <1>3, Zenon DEF WriterInv, FieldsAsked
  <2> QED BY <2>1, <1>1, AllWritten, Zenon DEF WellLaid
<1>5. DOMAIN buffer = 1 .. 8 * z + 8
  BY <1>1, Zenon DEF WriterInv, InBuffer, Slack
<1>6. \A i \in DOMAIN buffer : buffer[i] = IF i <= l THEN asked[i] ELSE Zero
  BY <1>4, AllWritten, Zenon
<1>7. /\ \A k \in 1 .. Len(Layout) : \A b \in 1 .. Layout[k].bits :
           asked[FieldStart[k] + b] = BitOf(Layout[k], b)
      /\ \A i \in 1 .. l : \E k \in 1 .. Len(Layout) :
           \E b \in 1 .. Layout[k].bits : i = FieldStart[k] + b
  BY <1>3, <1>4, Zenon DEF WriterInv, FieldsAsked
<1>8. ASSUME NEW k \in 1 .. Len(Layout), NEW b \in 1 .. Layout[k].bits
      PROVE  /\ FieldStart[k] + b \in DOMAIN buffer
             /\ buffer[FieldStart[k] + b] = BitOf(Layout[k], b)
  <2>1. k \in 1 .. Len(Layout) + 1 /\ k + 1 \in 1 .. Len(Layout) + 1
        /\ Len(Layout) + 1 \in 1 .. Len(Layout) + 1 /\ k + 1 <= Len(Layout) + 1
    BY <1>2, SMT
  <2>2. PICK n : n = Layout[k].bits /\ n \in 1 .. 32
    BY <1>2, ElementOfSeq, FieldBits, Zenon
  <2>3. PICK s : s = FieldStart[k] /\ s \in Nat
    BY <2>1, <1>1, Zenon DEF WellLaid
  <2>4. s + n <= l
    <3>1. FieldStart[k + 1] = s + n
      BY <2>2, <2>3, <1>1, Zenon DEF WellLaid
    <3>2. FieldStart[k + 1] <= FieldStart[Len(Layout) + 1]
      BY <2>1, <1>1, Zenon DEF WellLaid
    <3>3. l = FieldStart[Len(Layout) + 1]
      BY <1>3, <1>4, Zenon DEF WriterInv, FieldsAsked
    <3> QED BY <3>1, <3>2, <3>3
  <2>5. s + b \in 1 .. 8 * z + 8 /\ s + b <= l
    BY <1>1, <1>4, <2>2, <2>3, <2>4, SMTT(60)
  <2> QED BY <1>5, <1>6, <1>7, <2>3, <2>5, Zenon
<1>9. ASSUME NEW i \in DOMAIN buffer
      PROVE  \/ buffer[i] = Zero
             \/ \E k \in 1 .. Len(Layout) : \E b \in 1 .. Layout[k].bits :
                  i = FieldStart[k] + b /\ buffer[i] = BitOf(Layout[k], b)
  <2>1. CASE i <= l
    <3>1. i \in 1 .. l
      BY <2>1, <1>4, <1>5, <1>1, <1>9, SMT
    <3>2. PICK k \in 1 .. Len(Layout) : \E b \in 1 .. Layout[k].bits : i = FieldStart[k] + b
      BY <3>1, <1>7, Zenon
    <3>3. PICK b \in 1 .. Layout[k].bits : i = FieldStart[k] + b
      BY <3>2
    <3> QED BY <3>2, <3>3, <1>8, Zenon
  <2>2. CASE ~ (i <= l)
    BY <2>2, <1>6, <1>9, Zenon
  <2> QED BY <2>1, <2>2
<1> QED BY <1>2, <1>8, <1>9

\* Which bit of which number a bit of a field is.
LEMMA BitOfIs ==
  ASSUME NEW f \in Fields, NEW b \in 1 .. f.bits, f.hi - f.lo + 1 = f.bits
  PROVE  BitOf(f, b) = <<f.of, f.lo + f.bits - b>>
<1>1. f.bits \in 1 .. 32 /\ f.lo \in 0 .. 31 /\ f.hi \in 0 .. 31
  BY SMT DEF Fields
<1>2. PICK n, lo, hi : /\ n \in 1 .. 32 /\ n = f.bits /\ lo \in 0 .. 31 /\ lo = f.lo
                       /\ hi \in 0 .. 31 /\ hi = f.hi /\ hi - lo + 1 = n /\ b \in 1 .. n
  BY <1>1, Zenon
<1>3. PICK i : i = 32 - n + b /\ i \in 1 .. 32 /\ 32 - i <= hi - lo /\ lo + 32 - i = lo + n - b
  BY <1>2, SMT
<1>4. Word(f)[i] = <<f.of, f.lo + 32 - i>>
  <2>1. Word(f)[i] = IF 32 - i <= f.hi - f.lo THEN <<f.of, f.lo + 32 - i>> ELSE Zero
    BY <1>3, WordIs, Zenon
  <2>2. 32 - i <= f.hi - f.lo
    BY <1>2, <1>3, Zenon
  <2> QED BY <2>1, <2>2, Zenon
<1> QED BY <1>2, <1>3, <1>4 DEF BitOf

LEMMA OfBit ==
  ASSUME NEW f \in Fields, NEW b \in 1 .. f.bits
  PROVE  BitOf(f, b)[1] = f.of \/ BitOf(f, b) = Zero
<1>1. f.bits \in 1 .. 32 /\ f.lo \in 0 .. 31 /\ f.hi \in 0 .. 31
  BY SMT DEF Fields
<1>2. PICK n : n \in 1 .. 32 /\ n = f.bits /\ b \in 1 .. n
  BY <1>1, Zenon
<1>3. PICK i : i = 32 - n + b /\ i \in 1 .. 32
  BY <1>2, SMT
<1>4. Word(f)[i] = IF 32 - i <= f.hi - f.lo THEN <<f.of, f.lo + 32 - i>> ELSE Zero
  BY <1>3, WordIs
<1> QED BY <1>2, <1>3, <1>4 DEF BitOf

\* Which bits the fields of HalvesAt begin with.
Low(k, p) == IF k = p THEN 8 ELSE IF k = p + 1 THEN 0 ELSE IF k = p + 3 THEN 24 ELSE 16

\* A field of a number of which 8 bits from bit lo on are written.
Eight(f, n, lo) == f = Field(n, lo + 7, lo, 8)

LEMMA EightBits ==
  ASSUME NEW f \in Fields, NEW n, NEW lo \in {0, 8, 16, 24}, Eight(f, n, lo)
  PROVE  /\ f.of = n /\ f.bits = 8
         /\ \A b \in 1 .. 8 : BitOf(f, b) = <<n, lo + 8 - b>>
<1>1. f.of = n /\ f.hi = lo + 7 /\ f.lo = lo /\ f.bits = 8
  BY FieldParts DEF Eight
<1>2. f.hi - f.lo + 1 = f.bits
  <2>1. PICK l : l = f.lo /\ l \in Int /\ l = lo
    BY <1>1, SMT
  <2>2. PICK h : h = f.hi /\ h = l + 7
    BY <1>1, <2>1, Zenon
  <2>3. h - l + 1 = 8
    BY <2>1, <2>2, SMT
  <2> QED BY <1>1, <2>1, <2>2, <2>3, Zenon
<1>3. \A b \in 1 .. 8 : BitOf(f, b) = <<f.of, f.lo + f.bits - b>>
  BY <1>1, <1>2, BitOfIs, Zenon
<1> QED BY <1>1, <1>3, Zenon

LEMMA WholeNumbers == WriterInv => NumbersWhole
<1> SUFFICES ASSUME WriterInv, fields = <<>>, bits = 0,
                    NEW num \in {"time_scale", "frame_tick", "pts_low", "pts_high"},
                    NEW at \in DOMAIN buffer, num = buffer[at][1],
                    NEW place \in 0 .. 31
             PROVE  \E i \in DOMAIN buffer :
                      /\ buffer[i] = <<num, place>>
                      /\ \A j \in DOMAIN buffer : buffer[j] = buffer[i] => j = i
  BY Zenon DEF NumbersWhole
<1>1. /\ Layout \in Seq(Fields) /\ Len(Layout) \in Nat
      /\ \A k \in 1 .. Len(Layout) : Layout[k] \in Fields
  BY Origin, ElementOfSeq
<1>2. num # "zero" /\ Zero[1] = "zero" /\ num \in SplitNumbers
  BY SMT DEF Zero, SplitNumbers
<1>3. ASSUME NEW j \in DOMAIN buffer, buffer[j][1] = num
      PROVE  \E k \in 1 .. Len(Layout) : \E b \in 1 .. Layout[k].bits :
               /\ j = FieldStart[k] + b /\ buffer[j] = BitOf(Layout[k], b)
               /\ Layout[k].of = num
  <2>1. buffer[j] # Zero
    BY <1>2, <1>3
  <2>2. PICK k \in 1 .. Len(Layout) : \E b \in 1 .. Layout[k].bits :
          j = FieldStart[k] + b /\ buffer[j] = BitOf(Layout[k], b)
    BY <2>1, Origin, Zenon
  <2>3. PICK b \in 1 .. Layout[k].bits : j = FieldStart[k] + b /\ buffer[j] = BitOf(Layout[k], b)
    BY <2>2
  <2>4. Layout[k].of = num
    BY <1>1, <1>3, <2>1, <2>3, OfBit, Zenon
  <2> QED BY <2>3, <2>4
<1>4. PICK p \in 1 .. Len(Layout) - 4 : HalvesAt(Layout, num, p)
  <2>1. \E k \in 1 .. Len(Layout) : Layout[k].of = num
    BY <1>3, Zenon
  <2>2. SplitIn(Layout)
    BY LayoutsLaid, Zenon DEF WriterInv, Layout
  <2> QED BY <2>1, <2>2, <1>2, Zenon DEF SplitIn
<1>5. /\ p \in Nat
      /\ Low(p, p) = 8 /\ Low(p + 1, p) = 0 /\ Low(p + 3, p) = 24 /\ Low(p + 4, p) = 16
  BY SMT DEF Low
<1>6. ASSUME NEW k \in {p, p + 1, p + 3, p + 4}
      PROVE  /\ k \in 1 .. Len(Layout) /\ Low(k, p) \in {0, 8, 16, 24}
             /\ Eight(Layout[k], num, Low(k, p))
  <2>1. k \in 1 .. Len(Layout)
    BY <1>1, SMT
  <2>3. /\ Layout[p] = Field(num, 8 + 7, 8, 8) /\ Layout[p + 1] = Field(num, 0 + 7, 0, 8)
        /\ Layout[p + 3] = Field(num, 24 + 7, 24, 8)
        /\ Layout[p + 4] = Field(num, 16 + 7, 16, 8)
    <3>1. 8 + 7 = 15 /\ 0 + 7 = 7 /\ 24 + 7 = 31 /\ 16 + 7 = 23
      BY SMT
    <3> QED BY <3>1, <1>4 DEF HalvesAt
  <2> QED BY <2>1, <2>3, <1>5, Zenon DEF Eight
<1>7. \A j, k \in {p, p + 1, p + 3, p + 4} : Low(j, p) = Low(k, p) => j = k
  BY <1>5, SMT DEF Low
<1>8. PICK k : k \in {p, p + 1, p + 3, p + 4} /\ Low(k, p) <= place /\ place < Low(k, p) + 8
  <2>1. place \in 8 .. 15 \/ place \in 0 .. 7 \/ place \in 24 .. 31 \/ place \in 16 .. 23
    BY SMT
  <2> QED BY <2>1, <1>5, SMT
<1>9. PICK b : b \in 1 .. 8 /\ b = Low(k, p) + 8 - place /\ Low(k, p) + 8 - b = place
  <2>1. Low(k, p) \in {0, 8, 16, 24}
    BY <1>6, <1>8, Zenon
  <2> QED BY <2>1, <1>8, SMTT(60)
<1>10. PICK i : i = FieldStart[k] + b /\ i \in DOMAIN buffer /\ buffer[i] = <<num, place>>
  <2>1. Layout[k].bits = 8 /\ BitOf(Layout[k], b) = <<num, place>> /\ k \in 1 .. Len(Layout)
    <3>1. Layout[k] \in Fields /\ Low(k, p) \in {0, 8, 16, 24} /\ k \in 1 .. Len(Layout)
          /\ Eight(Layout[k], num, Low(k, p))
      BY <1>1, <1>6, <1>8, Zenon
    <3>2. Layout[k].bits = 8 /\ BitOf(Layout[k], b) = <<num, Low(k, p) + 8 - b>>
      BY <3>1, <1>9, EightBits, ZenonT(60)
    <3> QED BY <3>1, <3>2, <1>9, Zenon
  <2>2. b \in 1 .. Layout[k].bits
    BY <2>1, <1>9, Zenon
  <2>3. FieldStart[k] + b \in DOMAIN buffer /\ buffer[FieldStart[k] + b] = BitOf(Layout[k], b)
    BY <2>1, <2>2, Origin, Zenon
  <2> QED BY <2>1, <2>3, Zenon
<1>11. ASSUME NEW j \in DOMAIN buffer, buffer[j] = buffer[i]
       PROVE  j = i
  <2>1. buffer[j][1] = num
    BY <1>10, <1>11
  <2>2. PICK m \in 1 .. Len(Layout) : \E c \in 1 .. Layout[m].bits :
          j = FieldStart[m] + c /\ buffer[j] = BitOf(Layout[m], c) /\ Layout[m].of = num
    BY <2>1, <1>3, Zenon
  <2>3. PICK c \in 1 .. Layout[m].bits :
          j = FieldStart[m] + c /\ buffer[j] = BitOf(Layout[m], c) /\ Layout[m].of = num
    BY <2>2
  <2>4. m \in {p, p + 1, p + 3, p + 4}
    BY <2>3, <1>4 DEF HalvesAt
  <2>5. Layout[m].bits = 8 /\ \A d \in 1 .. 8 : BitOf(Layout[m], d) = <<num, Low(m, p) + 8 - d>>
    <3>1. Layout[m] \in Fields /\ Low(m, p) \in {0, 8, 16, 24}
          /\ Eight(Layout[m], num, Low(m, p))
      BY <2>4, <1>1, <1>6, Zenon
    <3> QED BY <3>1, EightBits, ZenonT(60)
  <2>6. c \in 1 .. 8 /\ <<num, Low(m, p) + 8 - c>> = <<num, place>>
    BY <2>3, <2>5, <1>10, <1>11
  <2>7. Low(m, p) + 8 - c = place
    BY <2>6
  <2>8. Low(m, p) \in {0, 8, 16, 24} /\ Low(k, p) \in {0, 8, 16, 24}
    BY <2>4, <1>6, <1>8
  <2>9. Low(m, p) = Low(k, p) /\ c = b
    <3>1. PICK x, y : x = Low(m, p) /\ y = Low(k, p) /\ x \in {0, 8, 16, 24} /\ y \in {0, 8, 16, 24}
      BY <2>8
    <3>2. /\ x + 8 - c = place /\ y + 8 - b = place /\ c \in 1 .. 8 /\ b \in 1 .. 8
      BY <3>1, <2>6, <2>7, <1>9, Zenon
    <3>3. x = y /\ c = b
      BY <3>1, <3>2, SMTT(60)
    <3> QED BY <3>1, <3>3
  <2>10. m = k
    BY <2>4, <2>9, <1>7, <1>8
  <2> QED BY <2>3, <2>9, <2>10, <1>10
<1> QED BY <1>10, <1>11

LEMMA WriterInvariant == WriterSpec => []WriterInv
BY WriterInitInv, WriterInvInductive, PTL DEF WriterSpec

\* bitswriter_t (mudec.c): whatever fields cross a byte, the USEQ and UPES headers hold
\* the bits that were asked for, one behind the other, they fill the header exactly, and
\* each number that the decoder puts together from two halves is there whole and once.
THEOREM HeadersAsLaidOut == WriterSpec => []HeadersWritten
<1>1. WriterInv => HeadersWritten
  BY PlacedBits, FilledHeader, WholeNumbers DEF HeadersWritten
<1> QED BY WriterInvariant, <1>1, PTL

LEMMA WriterInvTyped == WriterInv => WriterTypeOK
<1> SUFFICES ASSUME WriterInv PROVE WriterTypeOK
  OBVIOUS
<1>1. PICK z : z \in 1 .. 24 /\ z = Size
  BY LayoutsLaid, Zenon DEF WriterInv, Size
<1>2. bits \in 0 .. 32 /\ left_bits \in 1 .. 8 /\ left_bytes \in 0 .. z /\ full = FALSE
  BY <1>1, Zenon DEF WriterInv, Counts
<1>3. left_bits \in 0 .. 8 /\ left_bytes \in 0 .. 24
  BY <1>1, <1>2, SMT
<1> QED BY <1>2, <1>3, Zenon DEF WriterTypeOK

\* Every variable of the writer has its type.
LEMMA WriterTypesKept == WriterSpec => []WriterTypeOK
BY WriterInvariant, WriterInvTyped, PTL

-----------------------------------------------------------------------------
(* The file reader *)

\* Induction over the numbers of a set: the least number outside it would be a successor of
\* one inside.
LEMMA NatSetInduction ==
  ASSUME NEW S, 0 \in S, \A n \in Nat : n \in S => n + 1 \in S
  PROVE  \A n \in Nat : n \in S
<1> DEFINE T == {n \in Nat : n \notin S}
           R == OpToRel(<, Nat)
<1>1. R = {ss \in Nat \X Nat : ss[1] < ss[2]}
  BY DEF OpToRel
<1>2. IsWellFoundedOn(R, Nat)
  BY NatLessThanWellFounded
<1>3. ASSUME T # {} PROVE FALSE
  <2>1. PICK x \in T : \A y \in T : ~ (<<y, x>> \in R)
    <3>1. T \subseteq Nat
      OBVIOUS
    <3> HIDE DEF T, R
    <3> QED BY <1>2, <1>3, <3>1, WFMin
  <2>2. x \in Nat /\ x # 0
    OBVIOUS
  <2>3. PICK y \in Nat : x = y + 1
    <3>1. x - 1 \in Nat /\ x = (x - 1) + 1
      BY <2>2, SMT
    <3> QED BY <3>1
  <2>4. y \in T
    BY <2>2, <2>3
  <2>5. <<y, x>> \in R
    <3>1. y < x /\ <<y, x>> \in Nat \X Nat
      BY <2>2, <2>3, SMT
    <3> QED BY <1>1, <3>1
  <2> QED BY <2>1, <2>4, <2>5
<1> QED BY <1>3

\* There is a function that takes the turns of a loop: of the finite runs, which agree where
\* they overlap, it takes the last states.
LEMMA Iteration ==
  ASSUME NEW S, NEW first \in S, NEW next \in [Nat -> [S -> S]]
  PROVE  \E f \in [Nat -> S] : f[0] = first /\ \A k \in Nat : f[k + 1] = next[k][f[k]]
<1> DEFINE Runs(n) == {g \in [0 .. n -> S] :
                         g[0] = first /\ \A k \in 0 .. n - 1 : g[k + 1] = next[k][g[k]]}
<1>1. \A n \in Nat : Runs(n) # {}
  <2> DEFINE N == {n \in Nat : Runs(n) # {}}
  <2>1. 0 \in N
    <3>1. [k \in 0 .. 0 |-> first] \in Runs(0)
      OBVIOUS
    <3> QED BY <3>1
  <2>2. ASSUME NEW n \in Nat, n \in N PROVE n + 1 \in N
    <3>1. PICK g \in [0 .. n -> S] :
            g[0] = first /\ \A k \in 0 .. n - 1 : g[k + 1] = next[k][g[k]]
      BY <2>2
    <3>2. PICK last \in S : last = next[n][g[n]]
      BY <3>1
    <3> DEFINE h == [k \in 0 .. n + 1 |-> IF k = n + 1 THEN last ELSE g[k]]
    <3>3. h \in [0 .. n + 1 -> S]
      <4>1. \A k \in 0 .. n + 1 : k # n + 1 => k \in 0 .. n
        OBVIOUS
      <4> QED BY <3>1, <4>1
    <3>4. /\ 0 \in 0 .. n + 1 /\ 0 # n + 1
          /\ \A k \in 0 .. n : k \in 0 .. n + 1 /\ k # n + 1 /\ k + 1 \in 0 .. n + 1
                               /\ (k + 1 = n + 1 <=> k = n)
          /\ \A k \in 0 .. n : k # n => k \in 0 .. n - 1
      OBVIOUS
    <3>5. h[0] = first
      BY <3>1, <3>4
    <3>6. \A k \in 0 .. n : h[k + 1] = next[k][h[k]]
      <4>1. SUFFICES ASSUME NEW k \in 0 .. n PROVE h[k + 1] = next[k][h[k]]
        OBVIOUS
      <4>2. h[k] = g[k] /\ h[k + 1] = IF k = n THEN last ELSE g[k + 1]
        BY <3>4
      <4> HIDE DEF h
      <4> QED BY <3>1, <3>2, <3>4, <4>2
    <3>7. (n + 1) - 1 = n
      OBVIOUS
    <3> HIDE DEF h
    <3>8. h \in Runs(n + 1)
      BY <3>3, <3>5, <3>6, <3>7
    <3> HIDE DEF Runs
    <3> QED BY <3>8
  <2>3. \A n \in Nat : n \in N
    <3> HIDE DEF N
    <3> QED BY <2>1, <2>2, NatSetInduction
  <2> QED BY <2>3
<1>2. ASSUME NEW m \in Nat, NEW n \in Nat, NEW g \in Runs(m), NEW h \in Runs(n), NEW k \in Nat,
             k <= m, k <= n
      PROVE  g[k] = h[k]
  <2> DEFINE K == {i \in Nat : i <= m /\ i <= n => g[i] = h[i]}
  <2>1. 0 \in K
    OBVIOUS
  <2>2. ASSUME NEW i \in Nat, i \in K PROVE i + 1 \in K
    <3>1. ASSUME i + 1 <= m, i + 1 <= n PROVE g[i + 1] = h[i + 1]
      <4>1. i <= m /\ i <= n /\ i \in 0 .. m - 1 /\ i \in 0 .. n - 1
        BY <3>1
      <4>2. g[i] = h[i]
        BY <2>2, <4>1
      <4> QED BY <4>1, <4>2
    <3> QED BY <3>1
  <2>3. \A i \in Nat : i \in K
    <3> HIDE DEF K
    <3> QED BY <2>1, <2>2, NatSetInduction
  <2> QED BY <1>2, <2>3
<1> DEFINE run == [n \in Nat |-> CHOOSE g \in Runs(n) : TRUE]
<1>3. \A n \in Nat : run[n] \in Runs(n)
  <2> HIDE DEF Runs
  <2> QED BY <1>1
<1>4. \A n \in Nat : n \in 0 .. n /\ 0 \in 0 .. n /\ n \in 0 .. (n + 1) - 1 /\ n <= n /\ n <= n + 1
                     /\ n + 1 \in Nat
  OBVIOUS
<1> DEFINE f == [n \in Nat |-> run[n][n]]
<1> HIDE DEF run
<1>5. \A n \in Nat : run[n] \in [0 .. n -> S] /\ run[n][0] = first
                     /\ \A k \in 0 .. n - 1 : run[n][k + 1] = next[k][run[n][k]]
  BY <1>3
<1>6. f \in [Nat -> S]
  BY <1>4, <1>5
<1>7. f[0] = first
  BY <1>5
<1>8. ASSUME NEW k \in Nat PROVE f[k + 1] = next[k][f[k]]
  <2>1. run[k + 1][k + 1] = next[k][run[k + 1][k]]
    BY <1>4, <1>5
  <2>2. run[k + 1][k] = run[k][k]
    <3>1. run[k] \in Runs(k) /\ run[k + 1] \in Runs(k + 1)
      BY <1>3, <1>4
    <3> HIDE DEF Runs
    <3> QED BY <1>2, <1>4, <3>1
  <2>3. f[k] = run[k][k] /\ f[k + 1] = run[k + 1][k + 1]
    BY <1>4
  <2> HIDE DEF f
  <2> QED BY <2>1, <2>2, <2>3
<1> HIDE DEF f
<1> QED BY <1>6, <1>7, <1>8

\* The recursive function of AfterTurns is such a function.
LEMMA TurnsTaken ==
  ASSUME NEW S, NEW first \in S, NEW turn \in [Nat -> [S -> S]]
  PROVE  /\ AfterTurns(first, turn) \in [Nat -> S]
         /\ AfterTurns(first, turn)[0] = first
         /\ \A k \in Nat : AfterTurns(first, turn)[k + 1] = turn[k][AfterTurns(first, turn)[k]]
<1> DEFINE f[k \in Nat] == IF k = 0 THEN first ELSE turn[k - 1][f[k - 1]]
<1>1. PICK g \in [Nat -> S] : g[0] = first /\ \A k \in Nat : g[k + 1] = turn[k][g[k]]
  <2>1. first \in S /\ turn \in [Nat -> [S -> S]]
    OBVIOUS
  <2> QED BY Iteration, Z3
<1>2. g = [k \in Nat |-> IF k = 0 THEN first ELSE turn[k - 1][g[k - 1]]]
  <2>1. ASSUME NEW k \in Nat PROVE g[k] = IF k = 0 THEN first ELSE turn[k - 1][g[k - 1]]
    <3>1. CASE k = 0
      BY <1>1, <3>1
    <3>2. CASE k # 0
      <4>1. PICK i \in Nat : k = i + 1 /\ k - 1 = i
        <5>1. k - 1 \in Nat /\ k = (k - 1) + 1
          BY <3>2
        <5> QED BY <5>1
      <4> QED BY <1>1, <3>2, <4>1
    <3> QED BY <3>1, <3>2
  <2> QED BY <1>1, <2>1
<1>3. f = [k \in Nat |-> IF k = 0 THEN first ELSE turn[k - 1][f[k - 1]]]
  BY <1>2, Zenon
<1> HIDE DEF f
<1>4. \A k \in Nat : k + 1 \in Nat /\ k + 1 # 0 /\ (k + 1) - 1 = k
  OBVIOUS
<1>5. f[0] = first /\ \A k \in Nat : f[k + 1] = turn[k][f[k]]
  BY <1>3, <1>4
<1>6. f \in [Nat -> S]
  <2> DEFINE K == {k \in Nat : f[k] \in S}
  <2>1. 0 \in K
    BY <1>5
  <2>2. ASSUME NEW k \in Nat, k \in K PROVE k + 1 \in K
    BY <1>5, <2>2
  <2>3. \A k \in Nat : k \in K
    <3> HIDE DEF K
    <3> QED BY <2>1, <2>2, NatSetInduction
  <2> QED BY <1>3, <2>3
<1>7. AfterTurns(first, turn) = f
  BY Zenon DEF f, AfterTurns
<1> QED BY <1>5, <1>6, <1>7

ScanStart == [state |-> 0, cnt |-> 2, amba |-> FALSE, size |-> 0]

\* The byte behind 0 0 1 ends the frame at its offset or lets the scan go on.
LEMMA StartCodeTyped ==
  ASSUME NEW type, NEW r \in ScanStates, NEW b, NEW at \in Int, NEW first
  PROVE  /\ StartCode(type, r, b, at, first) \in ScanStates
         /\ StartCode(type, r, b, at, first).size \in {r.size, at}
         /\ StartCode(type, r, b, at, first).state \in {0, 1}
            \/ (r.cnt = 1 /\ StartCode(type, r, b, at, first).size = at)
<1> DEFINE c == Codes[type]
           amba == r.amba \/ b \in {c.seq, c.pic}
           pic == b = c.pic \/ (~ r.amba /\ b \in c.spec_pic)
           seq == b = c.seq \/ (~ r.amba /\ b \in c.spec_seq)
           zero == IF ~ amba /\ type = "H264" THEN first ELSE b
           last == IF pic \/ zero # 0 \/ (seq /\ type # "H264") \/ b = c.seq THEN 0 ELSE 1
           num == IF pic THEN 1 ELSE r.cnt
           out == StartCode(type, r, b, at, first)
<1>1. out = IF r.cnt = 1 /\ (pic \/ seq) THEN [r EXCEPT !.size = at]
            ELSE [state |-> last, cnt |-> num, amba |-> amba, size |-> r.size]
  BY Zenon DEF StartCode
<1>2. amba \in BOOLEAN
  BY DEF ScanStates
<1>3. last \in {0, 1}
  OBVIOUS
<1>4. num \in 1 .. 2 /\ r.size \in Int /\ last \in 0 .. 3
  BY <1>3 DEF ScanStates
<1> HIDE DEF amba, pic, seq, last, num, out
<1>5. CASE r.cnt = 1 /\ (pic \/ seq)
  <2>1. out = [r EXCEPT !.size = at]
    BY <1>1, <1>5
  <2>2. out \in ScanStates /\ out.size = at
    BY <2>1 DEF ScanStates
  <2> QED BY <1>5, <2>1, <2>2, Zenon DEF out
<1>6. CASE ~ (r.cnt = 1 /\ (pic \/ seq))
  <2>1. out = [state |-> last, cnt |-> num, amba |-> amba, size |-> r.size]
    BY <1>1, <1>6
  <2>2. out \in ScanStates
    BY <1>2, <1>4, <2>1, Zenon DEF ScanStates
  <2>3. out.size = r.size /\ out.state = last
    BY <2>1, Zenon
  <2> QED BY <1>3, <2>2, <2>3, Zenon DEF out
<1> QED BY <1>5, <1>6, Zenon

\* One turn of the scan.
LEMMA ScanTurn ==
  ASSUME NEW type, NEW buf, NEW pstart, NEW k \in Nat, NEW r \in ScanStates,
         NEW out, out = ScanByte(type, buf, pstart)[k][r]
  PROVE  /\ out \in ScanStates
         /\ r.size # 0 => out = r
         /\ r.size = 0 /\ out.size # 0 => r.state = 3 /\ out.size = k - 3
         /\ r.size = 0 /\ r.state = 3 => out.state \in {0, 1} \/ (r.cnt = 1 /\ out.size = k - 3)
         /\ r.size = 0 /\ out.state = 3 => r.state = 2 \/ r.state = 3
         /\ r.size = 0 => out.state <= r.state + 1
         /\ r.size = 0 /\ out.cnt = 1 => r.cnt = 1 \/ r.state = 3
<1> DEFINE b == buf[pstart + k]
           code == StartCode(type, r, b, k - 3, buf[pstart])
           st == IF b = 0 THEN IF r.state = 2 THEN 2 ELSE r.state + 1
                 ELSE IF r.state = 2 /\ b = 1 THEN 3 ELSE 0
<1>1. out = IF r.size # 0 THEN r ELSE IF r.state = 3 THEN code ELSE [r EXCEPT !.state = st]
  BY Zenon DEF ScanByte
<1>2. k - 3 \in Int
  OBVIOUS
<1>3. /\ code \in ScanStates
      /\ code.size \in {r.size, k - 3}
      /\ code.state \in {0, 1} \/ (r.cnt = 1 /\ code.size = k - 3)
  <2>1. PICK at \in Int : at = k - 3
    BY <1>2
  <2>2. /\ StartCode(type, r, b, at, buf[pstart]) \in ScanStates
        /\ StartCode(type, r, b, at, buf[pstart]).size \in {r.size, at}
        /\ StartCode(type, r, b, at, buf[pstart]).state \in {0, 1}
           \/ (r.cnt = 1 /\ StartCode(type, r, b, at, buf[pstart]).size = at)
    BY StartCodeTyped
  <2> QED BY <2>1, <2>2, Zenon
<1>4. r.state # 3 => st \in 0 .. 3 /\ (st = 3 => r.state = 2) /\ st <= r.state + 1
  BY DEF ScanStates
<1> HIDE DEF code, st, b
<1>5. CASE r.size # 0
  BY <1>1, <1>5
<1>6. CASE r.size = 0 /\ r.state = 3
  <2>1. out = code
    BY <1>1, <1>6
  <2>2. out \in ScanStates /\ (out.size # 0 => out.size = k - 3)
        /\ (out.state \in {0, 1} \/ (r.cnt = 1 /\ out.size = k - 3))
    BY <1>3, <1>6, <2>1
  <2>3. out.state \in 0 .. 3
    BY <2>2 DEF ScanStates
  <2> QED BY <1>6, <2>2, <2>3
<1>7. CASE r.size = 0 /\ r.state # 3
  <2>1. out = [r EXCEPT !.state = st]
    BY <1>1, <1>7
  <2>2. out \in ScanStates /\ out.size = r.size /\ out.state = st /\ out.cnt = r.cnt
    BY <1>4, <1>7, <2>1 DEF ScanStates
  <2> QED BY <1>4, <1>7, <2>2
<1> QED BY <1>5, <1>6, <1>7

\* get_next_start_code as the states of its loop.
LEMMA ScanIs ==
  ASSUME NEW type, NEW buf, NEW pstart, NEW F, F = Scan(type, buf, pstart)
  PROVE  /\ F \in [Nat -> ScanStates] /\ F[0] = ScanStart
         /\ \A k \in Nat : F[k + 1] = ScanByte(type, buf, pstart)[k][F[k]]
<1> DEFINE turn == ScanByte(type, buf, pstart)
<1>1. ScanStart \in ScanStates
  BY DEF ScanStates, ScanStart
<1>2. turn \in [Nat -> [ScanStates -> ScanStates]]
  <2> DEFINE body(k, r) ==
        LET b == buf[pstart + k]
        IN  IF r.size # 0 THEN r
            ELSE IF r.state = 3 THEN StartCode(type, r, b, k - 3, buf[pstart])
            ELSE [r EXCEPT !.state = IF b = 0 THEN IF r.state = 2 THEN 2 ELSE r.state + 1
                                     ELSE IF r.state = 2 /\ b = 1 THEN 3 ELSE 0]
  <2>1. turn = [k \in Nat |-> [r \in ScanStates |-> body(k, r)]]
    BY Zenon DEF ScanByte
  <2> HIDE DEF body, turn
  <2>2. \A k \in Nat : \A r \in ScanStates : turn[k][r] = body(k, r)
    BY <2>1, Zenon
  <2>3. \A k \in Nat : \A r \in ScanStates : turn[k][r] \in ScanStates
    <3>1. SUFFICES ASSUME NEW k \in Nat, NEW r \in ScanStates PROVE turn[k][r] \in ScanStates
      OBVIOUS
    <3>2. PICK out : out = ScanByte(type, buf, pstart)[k][r]
      OBVIOUS
    <3>3. out \in ScanStates
      BY <3>2, ScanTurn, Zenon
    <3> QED BY <3>2, <3>3, Zenon DEF turn
  <2>4. \A k \in Nat : \A r \in ScanStates : body(k, r) \in ScanStates
    BY <2>2, <2>3, Zenon
  <2>5. \A k \in Nat : [r \in ScanStates |-> body(k, r)] \in [ScanStates -> ScanStates]
    BY <2>4, Zenon
  <2> QED BY <2>1, <2>5, Zenon
<1>3. Scan(type, buf, pstart) = AfterTurns(ScanStart, turn)
  BY Zenon DEF Scan, ScanStart
<1> HIDE DEF turn
<1>4. /\ AfterTurns(ScanStart, turn) \in [Nat -> ScanStates]
      /\ AfterTurns(ScanStart, turn)[0] = ScanStart
      /\ \A k \in Nat : AfterTurns(ScanStart, turn)[k + 1] = turn[k][AfterTurns(ScanStart, turn)[k]]
  BY <1>1, <1>2, TurnsTaken, SMTT(60)
<1> QED BY <1>3, <1>4, Zenon DEF turn

\* The scan F goes from k to k + 1 as one turn does.
LEMMA ScanSteps ==
  ASSUME NEW type, NEW buf, NEW pstart, NEW F, F = Scan(type, buf, pstart), NEW k \in Nat
  PROVE  /\ F[k] \in ScanStates /\ F[k + 1] \in ScanStates
         /\ F[k].size # 0 => F[k + 1] = F[k]
         /\ F[k].size = 0 /\ F[k + 1].size # 0 => F[k].state = 3 /\ F[k + 1].size = k - 3
         /\ F[k].size = 0 /\ F[k].state = 3 =>
              F[k + 1].state \in {0, 1} \/ (F[k].cnt = 1 /\ F[k + 1].size = k - 3)
         /\ F[k].size = 0 /\ F[k + 1].state = 3 => F[k].state = 2 \/ F[k].state = 3
         /\ F[k].size = 0 => F[k + 1].state <= F[k].state + 1
         /\ F[k].size = 0 /\ F[k + 1].cnt = 1 => F[k].cnt = 1 \/ F[k].state = 3
<1>1. F \in [Nat -> ScanStates] /\ F[k + 1] = ScanByte(type, buf, pstart)[k][F[k]]
  BY ScanIs
<1>2. F[k] \in ScanStates /\ k + 1 \in Nat
  BY <1>1
<1>3. F[k + 1] \in ScanStates
  BY <1>1, <1>2
<1>4. PICK r \in ScanStates : r = F[k]
  BY <1>2, Zenon
<1>5. PICK out : out = F[k + 1]
  OBVIOUS
<1>6. out = ScanByte(type, buf, pstart)[k][r]
  BY <1>1, <1>4, <1>5, Zenon
<1>7. /\ r.size # 0 => out = r
      /\ r.size = 0 /\ out.size # 0 => r.state = 3 /\ out.size = k - 3
      /\ r.size = 0 /\ r.state = 3 => out.state \in {0, 1} \/ (r.cnt = 1 /\ out.size = k - 3)
      /\ r.size = 0 /\ out.state = 3 => r.state = 2 \/ r.state = 3
      /\ r.size = 0 => out.state <= r.state + 1
      /\ r.size = 0 /\ out.cnt = 1 => r.cnt = 1 \/ r.state = 3
  BY <1>6, ScanTurn
<1> QED BY <1>2, <1>3, <1>4, <1>5, <1>7, Zenon

\* The second start code and the first picture take their bytes.
LEMMA ScanWarmsUp ==
  ASSUME NEW type, NEW buf, NEW pstart, NEW F, F = Scan(type, buf, pstart)
  PROVE  \A k \in Nat : F[k].size = 0 => F[k].state <= k /\ (F[k].cnt = 1 => k >= 4)
<1> DEFINE K == {k \in Nat : F[k].size = 0 => F[k].state <= k /\ (F[k].cnt = 1 => k >= 4)}
<1>1. 0 \in K
  <2>1. F[0] = ScanStart
    BY ScanIs
  <2>2. F[0].state = 0 /\ F[0].cnt = 2
    BY <2>1 DEF ScanStart
  <2> QED BY <2>2
<1>2. ASSUME NEW k \in Nat, k \in K PROVE k + 1 \in K
  <2>1. /\ F[k].size # 0 => F[k + 1] = F[k]
        /\ F[k].size = 0 => F[k + 1].state <= F[k].state + 1
        /\ F[k].size = 0 /\ F[k + 1].cnt = 1 => F[k].cnt = 1 \/ F[k].state = 3
    BY ScanSteps
  <2>2. F[k].state \in 0 .. 3 /\ F[k + 1].state \in 0 .. 3
    <3>1. F[k] \in ScanStates /\ F[k + 1] \in ScanStates
      BY ScanSteps
    <3> QED BY <3>1 DEF ScanStates
  <2>3. ASSUME F[k + 1].size = 0 PROVE F[k + 1].state <= k + 1 /\ (F[k + 1].cnt = 1 => k + 1 >= 4)
    <3>1. F[k].size = 0
      BY <2>1, <2>3, Zenon
    <3>2. F[k].state <= k /\ (F[k].cnt = 1 => k >= 4)
      BY <1>2, <3>1
    <3>3. PICK t \in Int : t = F[k].state
      BY <2>2
    <3>4. PICK u \in Int : u = F[k + 1].state
      BY <2>2
    <3>5. u <= k + 1
      <4>1. t <= k /\ u <= t + 1
        BY <2>1, <3>1, <3>2, <3>3, <3>4, Zenon
      <4> QED BY <4>1
    <3>6. ASSUME F[k + 1].cnt = 1 PROVE k + 1 >= 4
      <4>1. CASE F[k].cnt = 1
        <5>1. k >= 4
          BY <3>2, <4>1
        <5> QED BY <5>1
      <4>2. CASE F[k].state = 3
        <5>1. 3 <= k
          BY <3>2, <4>2
        <5> QED BY <5>1
      <4> QED BY <2>1, <3>1, <3>6, <4>1, <4>2, Zenon
    <3> QED BY <3>4, <3>5, <3>6, Zenon
  <2>4. k + 1 \in Nat
    OBVIOUS
  <2> QED BY <2>3, <2>4
<1>3. \A k \in Nat : k \in K
  <2> HIDE DEF K
  <2> QED BY <1>1, <1>2, NatSetInduction
<1> QED BY <1>3

\* Behind a start code that ends nothing, at least three bytes pass before the next.
LEMMA ScanRecovers ==
  ASSUME NEW type, NEW buf, NEW pstart, NEW F, F = Scan(type, buf, pstart), NEW k \in Nat,
         F[k].size = 0, F[k].state = 3, F[k + 1].size = 0
  PROVE  /\ F[k + 1].state # 3
         /\ F[k + 2].size = 0 => F[k + 2].state # 3
<1>1. F[k + 1].state \in {0, 1}
  <2>1. F[k + 1].state \in {0, 1} \/ (F[k].cnt = 1 /\ F[k + 1].size = k - 3)
    BY ScanSteps
  <2>2. F[k].cnt = 1 => k >= 4
    BY ScanWarmsUp
  <2>3. k >= 4 => k - 3 # 0
    OBVIOUS
  <2> QED BY <2>1, <2>2, <2>3, Zenon
<1>2. k + 1 \in Nat /\ (k + 1) + 1 = k + 2
  OBVIOUS
<1>3. F[(k + 1) + 1].state = 3 => F[k + 1].state = 2 \/ F[k + 1].state = 3
  <2>1. PICK m \in Nat : m = k + 1
    BY <1>2
  <2>2. F[m].size = 0 /\ F[m + 1].state = 3 => F[m].state = 2 \/ F[m].state = 3
    BY ScanSteps
  <2> QED BY <2>1, <2>2
<1>4. F[k + 1].state # 2 /\ F[k + 1].state # 3
  BY <1>1
<1> QED BY <1>2, <1>3, <1>4

\* Once an end is found the scan has it.
LEMMA ScanSticks ==
  ASSUME NEW type, NEW buf, NEW pstart, NEW F, F = Scan(type, buf, pstart), NEW k \in Nat, NEW m \in Nat,
         k <= m, F[k].size # 0
  PROVE  F[m].size = F[k].size
<1> DEFINE K == {d \in Nat : F[k + d].size = F[k].size}
<1>1. 0 \in K
  OBVIOUS
<1>2. ASSUME NEW d \in Nat, d \in K PROVE d + 1 \in K
  <2>1. PICK i \in Nat : i = k + d /\ i + 1 = k + (d + 1)
    OBVIOUS
  <2>2. F[i].size # 0 => F[i + 1] = F[i]
    BY ScanSteps
  <2>3. F[i].size = F[k].size
    BY <1>2, <2>1
  <2> QED BY <2>1, <2>2, <2>3
<1>3. \A d \in Nat : d \in K
  <2> HIDE DEF K
  <2> QED BY <1>1, <1>2, NatSetInduction
<1>4. m - k \in Nat /\ k + (m - k) = m
  OBVIOUS
<1> QED BY <1>3, <1>4

\* Before turn m the scan F has found, at turn x, that the frame ends.
FoundAt(F, m, x) ==
  /\ x + 1 <= m /\ F[m].size = x - 3
  /\ F[x].size = 0 /\ F[x].state = 3 /\ F[x + 1].size = x - 3

\* A scan that has found something has found it at one place, and nothing before.
LEMMA ScanFinds ==
  ASSUME NEW type, NEW buf, NEW pstart, NEW F, F = Scan(type, buf, pstart), NEW m \in Nat,
         F[m].size # 0
  PROVE  \E x \in Nat : FoundAt(F, m, x)
<1> DEFINE Found(k) == \E i \in Nat : /\ i + 1 <= k /\ F[k].size = i - 3
                        /\ F[i].size = 0 /\ F[i].state = 3 /\ F[i + 1].size = i - 3
           K == {k \in Nat : F[k].size # 0 => Found(k)}
<1>1. 0 \in K
  <2>1. F[0] = ScanStart
    BY ScanIs
  <2>2. F[0].size = 0
    BY <2>1 DEF ScanStart
  <2> QED BY <2>2
<1>2. ASSUME NEW k \in Nat, k \in K PROVE k + 1 \in K
  <2>1. ASSUME F[k + 1].size # 0 PROVE Found(k + 1)
    <3>1. CASE F[k].size # 0
      <4>1. F[k + 1] = F[k]
        BY <3>1, ScanSteps
      <4>2. PICK i \in Nat : /\ i + 1 <= k /\ F[k].size = i - 3
                        /\ F[i].size = 0 /\ F[i].state = 3 /\ F[i + 1].size = i - 3
        BY <1>2, <3>1
      <4>3. i + 1 <= k + 1
        BY <4>2
      <4> QED BY <4>1, <4>2, <4>3, Zenon
    <3>2. CASE F[k].size = 0
      <4>1. F[k].state = 3 /\ F[k + 1].size = k - 3
        BY <2>1, <3>2, ScanSteps
      <4>2. k + 1 <= k + 1
        OBVIOUS
      <4> QED BY <3>2, <4>1, <4>2, Zenon
    <3> QED BY <3>1, <3>2
  <2> HIDE DEF Found
  <2>2. k + 1 \in Nat
    OBVIOUS
  <2> QED BY <2>1, <2>2
<1>3. \A k \in Nat : k \in K
  <2> HIDE DEF K
  <2> QED BY <1>1, <1>2, NatSetInduction
<1>4. Found(m)
  BY <1>3
<1> QED BY <1>4, Zenon DEF FoundAt

\* What the scan is after m turns depends on the m bytes it has looked at.
LEMMA ScanLocal ==
  ASSUME NEW type, NEW buf, NEW pstart, NEW F, F = Scan(type, buf, pstart),
         NEW other, NEW start, NEW G, G = Scan(type, other, start), NEW m \in Nat,
         \A a \in Nat : a < m => buf[pstart + a] = other[start + a],
         m # 0 => buf[pstart] = other[start]
  PROVE  \A k \in Nat : k <= m => F[k] = G[k]
<1> DEFINE K == {k \in Nat : k <= m => F[k] = G[k]}
<1>1. 0 \in K
  <2>1. F[0] = ScanStart /\ G[0] = ScanStart
    BY ScanIs
  <2> QED BY <2>1
<1>2. ASSUME NEW k \in Nat, k \in K PROVE k + 1 \in K
  <2>1. ASSUME k + 1 <= m PROVE F[k + 1] = G[k + 1]
    <3>1. k < m /\ m # 0 /\ k <= m
      BY <2>1
    <3>2. F[k] = G[k]
      BY <1>2, <3>1
    <3>3. buf[pstart + k] = other[start + k] /\ buf[pstart] = other[start]
      BY <3>1, Zenon
    <3>4. F[k + 1] = ScanByte(type, buf, pstart)[k][F[k]] /\ G[k + 1] = ScanByte(type, other, start)[k][G[k]]
      BY ScanIs
    <3>5. PICK r \in ScanStates : r = F[k] /\ r = G[k]
      <4>1. F[k] \in ScanStates
        BY ScanSteps
      <4> QED BY <3>2, <4>1, Zenon
    <3>6. ScanByte(type, buf, pstart)[k][r] = ScanByte(type, other, start)[k][r]
      <4>1. PICK b : b = buf[pstart + k] /\ b = other[start + k]
        BY <3>3, Zenon
      <4>2. PICK b0 : b0 = buf[pstart] /\ b0 = other[start]
        BY <3>3, Zenon
      <4> DEFINE body == IF r.size # 0 THEN r
            ELSE IF r.state = 3 THEN StartCode(type, r, b, k - 3, b0)
            ELSE [r EXCEPT !.state = IF b = 0 THEN IF r.state = 2 THEN 2 ELSE r.state + 1
                                     ELSE IF r.state = 2 /\ b = 1 THEN 3 ELSE 0]
      <4>3. ScanByte(type, buf, pstart)[k][r] = body
        <5>1. buf[pstart + k] = b /\ buf[pstart] = b0
          BY <4>1, <4>2
        <5> QED BY <5>1, Zenon DEF ScanByte
      <4>4. ScanByte(type, other, start)[k][r] = body
        <5>1. other[start + k] = b /\ other[start] = b0
          BY <4>1, <4>2
        <5> QED BY <5>1, Zenon DEF ScanByte
      <4> HIDE DEF body
      <4> QED BY <4>3, <4>4, Zenon
    <3> QED BY <3>4, <3>5, <3>6, Zenon
  <2>2. k + 1 \in Nat
    OBVIOUS
  <2> QED BY <2>1, <2>2
<1>3. \A k \in Nat : k \in K
  <2> HIDE DEF K
  <2> QED BY <1>1, <1>2, NatSetInduction
<1> QED BY <1>3

\* The files whose frames are none too long.
Fitting == {s \in Streams : FramesFit(s)}

\* What FrameReaderAssumption says of the cuts of a file.
LEMMA FileCuts ==
  ASSUME NEW s \in Fitting, NEW n, n = Len(s.frames), NEW end, end = Len(s.bytes)
  PROVE  /\ n \in Nat /\ n >= 1 /\ end \in Nat
         /\ Cut(s, 0) = 0 /\ Cut(s, n) = end
         /\ \A i \in 0 .. n : Cut(s, i) \in Nat
         /\ \A i \in 1 .. n : Cut(s, i) - Cut(s, i - 1) \in 1 .. DATA_PARSE_MIN_SIZE
<1>1. /\ s.bytes \in Seq(0 .. 255) /\ s.frames \in Seq(Nat) /\ s.frames # <<>>
      /\ Cut(s, Len(s.frames)) = Len(s.bytes)
      /\ \A i \in DOMAIN s.frames : Cut(s, i) - Cut(s, i - 1) \in 1 .. DATA_PARSE_MIN_SIZE
  <2>1. s \in Streams /\ FramesFit(s) /\ DATA_PARSE_MIN_SIZE \in Nat
    BY FrameReaderAssumption DEF Fitting
  <2>2. /\ s.bytes \in Seq(0 .. 255) /\ s.frames \in Seq(Nat) /\ s.frames # <<>>
        /\ Cut(s, Len(s.frames)) = Len(s.bytes)
        /\ \A i \in DOMAIN s.frames : Cut(s, i) - Cut(s, i - 1) \in Nat \ {0}
    BY <2>1, FrameReaderAssumption
  <2>3. ASSUME NEW i \in DOMAIN s.frames
        PROVE  Cut(s, i) - Cut(s, i - 1) \in 1 .. DATA_PARSE_MIN_SIZE
    <3>1. PICK d \in Nat \ {0} : d = Cut(s, i) - Cut(s, i - 1)
      BY <2>2
    <3>2. d <= DATA_PARSE_MIN_SIZE
      BY <2>1, <3>1 DEF FramesFit
    <3>3. d \in 1 .. DATA_PARSE_MIN_SIZE
      BY <2>1, <3>2
    <3> QED BY <3>1, <3>3
  <2> QED BY <2>2, <2>3
<1>2. n \in Nat /\ end \in Nat /\ DOMAIN s.frames = 1 .. n /\ \A i \in 1 .. n : s.frames[i] \in Nat
  BY <1>1
<1>3. n # 0
  <2>1. PICK f \in Seq(Nat) : f = s.frames
    BY <1>1
  <2>2. f # <<>> /\ n = Len(f)
    BY <1>1, <2>1
  <2> QED BY <2>2, EmptySeq
<1>4. Cut(s, 0) = 0
  BY Zenon DEF Cut
<1>5. \A i \in 0 .. n : Cut(s, i) \in Nat
  <2>1. SUFFICES ASSUME NEW i \in 0 .. n, i # 0 PROVE Cut(s, i) \in Nat
    BY <1>4, SMT
  <2>2. PICK z \in Nat : z = s.frames[i]
    BY <1>2, <2>1
  <2>3. Cut(s, i) = s.frames[i] \/ Cut(s, i) = s.frames[i] + 1
    BY <2>1, Zenon DEF Cut
  <2> QED BY <2>2, <2>3
<1>6. n >= 1
  BY <1>2, <1>3
<1>7. Cut(s, n) = end
  BY <1>1
<1>8. \A i \in 1 .. n : Cut(s, i) - Cut(s, i - 1) \in 1 .. DATA_PARSE_MIN_SIZE
  BY <1>1, <1>2, Zenon
<1> QED BY <1>2, <1>4, <1>5, <1>6, <1>7, <1>8

\* Between two cuts there is at least a byte for each frame.
LEMMA CutsApart ==
  ASSUME NEW s \in Fitting, NEW n, n = Len(s.frames), NEW i \in 0 .. n
  PROVE  \A d \in Nat : i + d <= n => Cut(s, i) + d <= Cut(s, i + d)
<1> DEFINE K == {d \in Nat : i + d <= n => Cut(s, i) + d <= Cut(s, i + d)}
<1>0. /\ n \in Nat
      /\ \A j \in 0 .. n : Cut(s, j) \in Nat
      /\ \A j \in 1 .. n : Cut(s, j) - Cut(s, j - 1) \in 1 .. DATA_PARSE_MIN_SIZE
  BY FileCuts
<1>1. 0 \in K
  <2>1. PICK z \in Nat : z = Cut(s, i)
    BY <1>0
  <2>2. i + 0 = i
    BY <1>0
  <2>3. Cut(s, i + 0) = z
    BY <2>1, <2>2
  <2> QED BY <2>1, <2>3
<1>2. ASSUME NEW d \in Nat, d \in K PROVE d + 1 \in K
  <2>1. ASSUME i + (d + 1) <= n PROVE Cut(s, i) + (d + 1) <= Cut(s, i + (d + 1))
    <3>1. PICK j \in 1 .. n : j = i + (d + 1) /\ j - 1 = i + d /\ j - 1 \in 0 .. n
      BY <1>0, <2>1
    <3>2. PICK x \in Nat : x = Cut(s, i)
      BY <1>0
    <3>3. PICK y \in Nat : y = Cut(s, j - 1)
      BY <1>0, <3>1
    <3>4. PICK z \in Nat : z = Cut(s, j)
      BY <1>0, <3>1
    <3>5. x + d <= y
      <4>1. i + d <= n
        BY <1>0, <2>1
      <4>2. Cut(s, i) + d <= Cut(s, i + d)
        BY <1>2, <4>1
      <4> QED BY <3>1, <3>2, <3>3, <4>2
    <3>6. z - y \in 1 .. DATA_PARSE_MIN_SIZE
      BY <1>0, <3>3, <3>4
    <3>7. DATA_PARSE_MIN_SIZE \in Nat
      BY FrameReaderAssumption
    <3>8. x + (d + 1) <= z
      BY <3>5, <3>6, <3>7
    <3> QED BY <3>1, <3>2, <3>4, <3>8, Zenon
  <2>2. d + 1 \in Nat
    OBVIOUS
  <2> QED BY <2>1, <2>2
<1>3. \A d \in Nat : d \in K
  <2> HIDE DEF K
  <2> QED BY <1>1, <1>2, NatSetInduction
<1> QED BY <1>3

\* Between two cuts, as plain numbers.
LEMMA CutsInOrder ==
  ASSUME NEW s \in Fitting, NEW n, n = Len(s.frames), NEW i \in 0 .. n, NEW j \in 0 .. n, i <= j
  PROVE  Cut(s, i) + (j - i) <= Cut(s, j) /\ Cut(s, i) \in Nat /\ Cut(s, j) \in Nat
<1>1. n \in Nat /\ Cut(s, i) \in Nat /\ Cut(s, j) \in Nat
  BY FileCuts
<1>2. PICK d \in Nat : d = j - i /\ i + d = j /\ i + d <= n
  BY <1>1
<1>3. Cut(s, i) + d <= Cut(s, i + d)
  BY <1>2, CutsApart
<1> QED BY <1>1, <1>2, <1>3, Zenon

\* The scan of the file from a cut on.
FileScan(s, b, i) == Scan(s.type, FileBytes(s, b), Cut(s, i))

\* Within the file the scan finds each frame but the last.
LEMMA FoundInFile ==
  ASSUME NEW s \in Fitting, NEW n, n = Len(s.frames), NEW end, end = Len(s.bytes), NEW i \in 0 .. n - 2
  PROVE  FileScan(s, 0, i)[end - Cut(s, i)].size = Cut(s, i + 1) - Cut(s, i)
<1>1. FramesFound(s)
  BY FrameReaderAssumption DEF Fitting
<1>2. \A j \in 1 .. n - 1 :
        NextStartCode(s.type, FileBytes(s, 0), Cut(s, j - 1), end - 1) = Cut(s, j) - Cut(s, j - 1)
  BY <1>1, Zenon DEF FramesFound
<1>3. n \in Nat /\ end \in Nat /\ \A j \in 0 .. n : Cut(s, j) \in Nat
  BY FileCuts
<1>4. PICK j \in 1 .. n - 1 : j = i + 1 /\ j - 1 = i /\ i \in 0 .. n
  BY <1>3
<1>5. NextStartCode(s.type, FileBytes(s, 0), Cut(s, i), end - 1) = Cut(s, i + 1) - Cut(s, i)
  <2>1. NextStartCode(s.type, FileBytes(s, 0), Cut(s, j - 1), end - 1) = Cut(s, j) - Cut(s, j - 1)
    BY <1>2, Zenon
  <2>2. PICK here, next : here = Cut(s, i) /\ here = Cut(s, j - 1) /\ next = Cut(s, i + 1) /\ next = Cut(s, j)
    BY <1>4
  <2> QED BY <2>1, <2>2, Zenon
<1>6. (end - 1) - Cut(s, i) + 1 = end - Cut(s, i)
  <2>1. PICK z \in Nat : z = Cut(s, i)
    BY <1>3, <1>4
  <2>2. (end - 1) - z + 1 = end - z
    BY <1>3
  <2> QED BY <2>1, <2>2, Zenon
<1>7. NextStartCode(s.type, FileBytes(s, 0), Cut(s, i), end - 1)
        = FileScan(s, 0, i)[(end - 1) - Cut(s, i) + 1].size
  BY Zenon DEF NextStartCode, FileScan
<1> QED BY <1>5, <1>6, <1>7, Zenon

\* Behind the last cut it finds none, whatever byte follows the file.
LEMMA NoneBehind ==
  ASSUME NEW s \in Fitting, NEW end, end = Len(s.bytes), NEW i, i = Len(s.frames) - 1, NEW b \in 0 .. 255
  PROVE  FileScan(s, b, i)[end - Cut(s, i) + 1].size = 0
<1>1. FramesFound(s)
  BY FrameReaderAssumption DEF Fitting
<1>2. NextStartCode(s.type, FileBytes(s, b), Cut(s, i), end) = 0
  BY <1>1, Zenon DEF FramesFound
<1> QED BY <1>2, Zenon DEF NextStartCode, FileScan

\* The buffer at start shows the next length bytes of the file from the i-th cut on.
Shows(buf, start, s, i, length) ==
  \A a \in Nat : a < length => buf[start + a] = s.bytes[Cut(s, i) + a + 1]

\* A buffer that shows the file from a cut on is scanned as the file is.
LEMMA SameScan ==
  ASSUME NEW s \in Fitting, NEW n, n = Len(s.frames), NEW end, end = Len(s.bytes), NEW i \in 0 .. n,
         NEW buf, NEW start \in Int, NEW length \in Nat, length <= end - Cut(s, i),
         Shows(buf, start, s, i, length), NEW b
  PROVE  \A k \in Nat : k <= length => Scan(s.type, buf, start)[k] = FileScan(s, b, i)[k]
<1>1. end \in Nat /\ Cut(s, i) \in Nat
  BY FileCuts
<1> DEFINE other == FileBytes(s, b)
           from == Cut(s, i)
<1>2. \A a \in Nat : a < length => buf[start + a] = other[from + a]
  <2>1. SUFFICES ASSUME NEW a \in Nat, a < length PROVE buf[start + a] = other[from + a]
    OBVIOUS
  <2>2. PICK x \in 0 .. end : x = from + a /\ x # end
    BY <1>1, <2>1
  <2>3. other[x] = s.bytes[x + 1]
    BY <2>2, Zenon DEF FileBytes
  <2>4. buf[start + a] = s.bytes[from + a + 1]
    BY <2>1, Zenon DEF Shows
  <2> HIDE DEF other
  <2> QED BY <2>2, <2>3, <2>4, Zenon
<1>3. length # 0 => buf[start] = other[from]
  <2>1. ASSUME length # 0 PROVE buf[start] = other[from]
    <3>1. 0 \in Nat /\ 0 < length /\ start + 0 = start /\ from + 0 = from
      BY <1>1, <2>1
    <3> HIDE DEF other, from
    <3>2. buf[start + 0] = other[from + 0]
      BY <1>2, <3>1, Zenon
    <3> QED BY <3>1, <3>2, Zenon
  <2> QED BY <2>1
<1>4. PICK F : F = Scan(s.type, buf, start)
  OBVIOUS
<1> HIDE DEF other, from
<1>5. PICK G : G = Scan(s.type, other, from)
  OBVIOUS
<1>6. \A k \in Nat : k <= length => F[k] = G[k]
  <2>1. PICK type, here, there : type = s.type /\ here = other /\ there = from
    OBVIOUS
  <2>2. /\ F = Scan(type, buf, start) /\ G = Scan(type, here, there)
        /\ \A a \in Nat : a < length => buf[start + a] = here[there + a]
        /\ length # 0 => buf[start] = here[there]
    BY <1>2, <1>3, <1>4, <1>5, <2>1, Zenon
  <2> QED BY <2>2, ScanLocal, SMTT(60)
<1>7. FileScan(s, b, i) = G
  BY <1>5, Zenon DEF FileScan, other, from
<1> QED BY <1>4, <1>6, <1>7, Zenon

\* Who sees the whole rest of the file finds where the frame at a cut ends.
LEMMA CutFound ==
  ASSUME NEW s \in Fitting, NEW n, n = Len(s.frames), NEW end, end = Len(s.bytes), NEW i \in 0 .. n - 2,
         NEW buf, NEW start \in Int, Shows(buf, start, s, i, end - Cut(s, i)),
         NEW k \in Nat, end - Cut(s, i) <= k
  PROVE  Scan(s.type, buf, start)[k].size = Cut(s, i + 1) - Cut(s, i)
<1>1. n \in Nat /\ end \in Nat /\ \A j \in 0 .. n : Cut(s, j) \in Nat
  BY FileCuts
<1>2. i \in 0 .. n - 1 /\ i # n - 1 /\ i \in 0 .. n /\ i + 1 \in 0 .. n /\ i + 1 \in 1 .. n
  BY <1>1
<1>3. PICK length \in Nat : length = end - Cut(s, i)
  <2>1. Cut(s, n) = end
    BY FileCuts
  <2>2. Cut(s, i) + (n - i) <= Cut(s, n)
    <3>1. n \in 0 .. n /\ i <= n
      BY <1>1, <1>2
    <3> QED BY <1>2, <3>1, CutsInOrder
  <2>3. PICK z \in Nat : z = Cut(s, i)
    BY <1>1, <1>2
  <2>4. z + (n - i) <= end
    BY <2>1, <2>2, <2>3, Zenon
  <2>5. end - z \in Nat
    BY <1>1, <1>2, <2>4
  <2> QED BY <2>3, <2>5
<1>4. FileScan(s, 0, i)[length].size = Cut(s, i + 1) - Cut(s, i)
  BY <1>3, FoundInFile
<1>5. Scan(s.type, buf, start)[length] = FileScan(s, 0, i)[length]
  <2>1. length <= end - Cut(s, i) /\ length <= length /\ Shows(buf, start, s, i, length)
    <3>1. length <= length
      OBVIOUS
    <3> QED BY <1>3, <3>1, Zenon
  <2> QED BY <1>2, <2>1, SameScan
<1>6. Cut(s, i + 1) - Cut(s, i) \in 1 .. DATA_PARSE_MIN_SIZE
  <2>1. PICK j \in 1 .. n : j = i + 1 /\ j - 1 = i
    BY <1>1, <1>2
  <2>2. Cut(s, j) - Cut(s, j - 1) \in 1 .. DATA_PARSE_MIN_SIZE
    BY FileCuts
  <2> QED BY <2>1, <2>2
<1>7. Cut(s, i + 1) - Cut(s, i) # 0
  BY <1>6
<1>8. PICK F : F = Scan(s.type, buf, start)
  OBVIOUS
<1>9. F[length].size # 0 /\ length <= k
  BY <1>3, <1>4, <1>5, <1>7, <1>8, Zenon
<1>10. F[k].size = F[length].size
  BY <1>8, <1>9, ScanSticks
<1> QED BY <1>4, <1>5, <1>8, <1>10, Zenon

\* Who sees a part of it longer than any frame, and one byte more of whatever, finds that
\* end or none.
LEMMA CutNotMistaken ==
  ASSUME NEW s \in Fitting, NEW n, n = Len(s.frames), NEW end, end = Len(s.bytes), NEW i \in 0 .. n - 2,
         NEW buf, NEW start \in Int, NEW length \in Nat, Shows(buf, start, s, i, length),
         length <= end - Cut(s, i), DATA_PARSE_MIN_SIZE < length,
         NEW g, g = Scan(s.type, buf, start)[length + 1].size, g # 0
  PROVE  g = Cut(s, i + 1) - Cut(s, i)
<1>1. n \in Nat /\ end \in Nat /\ \A j \in 0 .. n : Cut(s, j) \in Nat
  BY FileCuts
<1>2. i \in 0 .. n - 1 /\ i # n - 1 /\ i \in 0 .. n /\ i + 1 \in 0 .. n /\ i + 1 \in 1 .. n
  BY <1>1
<1>3. PICK rest \in Nat : rest = end - Cut(s, i)
  <2>1. PICK z \in Nat : z = Cut(s, i)
    BY <1>1, <1>2
  <2>2. end - z \in Nat
    <3>1. length <= end - z
      BY <2>1, Zenon
    <3> QED BY <1>1, <3>1
  <2> QED BY <2>1, <2>2
<1>4. PICK c \in 1 .. DATA_PARSE_MIN_SIZE : c = Cut(s, i + 1) - Cut(s, i)
  <2>1. PICK j \in 1 .. n : j = i + 1 /\ j - 1 = i
    BY <1>1, <1>2
  <2>2. Cut(s, j) - Cut(s, j - 1) \in 1 .. DATA_PARSE_MIN_SIZE
    BY FileCuts
  <2> QED BY <2>1, <2>2
<1>5. PICK B : B = Scan(s.type, buf, start)
  OBVIOUS
<1>6. PICK F : F = Scan(s.type, FileBytes(s, 0), Cut(s, i)) /\ F = FileScan(s, 0, i)
  BY Zenon DEF FileScan
<1>7. \A k \in Nat : k <= length => B[k] = F[k]
  <2>1. \A k \in Nat : k <= length => Scan(s.type, buf, start)[k] = FileScan(s, 0, i)[k]
    BY <1>2, SameScan
  <2> QED BY <1>5, <1>6, <2>1, Zenon
<1>8. F[rest].size = c
  BY <1>3, <1>4, <1>6, FoundInFile
\* Where the file's scan finds the end, and the buffer's.
<1>9. PICK x \in Nat : /\ x + 1 <= rest /\ c = x - 3
                       /\ F[x].size = 0 /\ F[x].state = 3 /\ F[x + 1].size = x - 3
  <2>1. F[rest].size # 0
    BY <1>4, <1>8
  <2>2. \E x \in Nat : FoundAt(F, rest, x)
    <3>1. PICK type, here, there : F = Scan(type, here, there)
      BY <1>6
    <3> QED BY <2>1, <3>1, ScanFinds
  <2> QED BY <1>8, <2>2, Zenon DEF FoundAt
<1>10. PICK y \in Nat : /\ y + 1 <= length + 1 /\ g = y - 3
                        /\ B[y].size = 0 /\ B[y].state = 3 /\ B[y + 1].size = y - 3
  <2>1. PICK m \in Nat : m = length + 1
    OBVIOUS
  <2>2. B[m].size = g /\ B[m].size # 0
    BY <1>5, <2>1
  <2>3. \E y \in Nat : FoundAt(B, m, y)
    <3>1. PICK type, here, there : B = Scan(type, here, there)
      BY <1>5
    <3> QED BY <2>2, <3>1, ScanFinds
  <2> QED BY <2>1, <2>2, <2>3, Zenon DEF FoundAt
<1>11. y <= length /\ F[y].size = 0 /\ F[y].state = 3
  <2>1. y <= length
    BY <1>10
  <2> QED BY <1>7, <1>10, <2>1
\* As long as nothing is found there was nothing before, either.
<1>12. \A k \in Nat, m \in Nat : k <= m /\ F[m].size = 0 => F[k].size = 0
  BY <1>6, ScanSticks
<1>13. ~ x < y
  <2>1. ASSUME x < y PROVE FALSE
    <3>1. x + 1 <= y /\ x + 1 \in Nat
      BY <2>1
    <3>2. F[x + 1].size = 0
      BY <1>11, <1>12, <3>1
    <3>3. x - 3 = c /\ c # 0
      BY <1>4, <1>9
    <3> QED BY <1>9, <3>2, <3>3
  <2> QED BY <2>1
<1>14. ASSUME y < x PROVE FALSE
  <2>1. y + 1 \in Nat /\ y + 1 <= x
    BY <1>14
  <2>2. F[y + 1].size = 0
    BY <1>9, <1>12, <2>1
  <2>3. /\ F[y + 1].state # 3
        /\ F[y + 2].size = 0 => F[y + 2].state # 3
    BY <1>6, <1>11, <2>2, ScanRecovers
  <2>4. y = length
    <3>1. ASSUME y < length PROVE FALSE
      <4>1. y + 1 <= length
        BY <3>1
      <4>2. B[y + 1].size = 0
        BY <1>7, <2>1, <2>2, <4>1
      <4> QED BY <1>10, <4>2
    <3> QED BY <1>11, <3>1
  <2>5. x = y + 1 \/ x = y + 2
    <3>1. DATA_PARSE_MIN_SIZE \in Nat
      BY FrameReaderAssumption
    <3>2. x - 3 <= DATA_PARSE_MIN_SIZE
      BY <1>4, <1>9
    <3>3. x - 3 < y
      BY <2>4, <3>1, <3>2
    <3> QED BY <1>14, <3>3, SMTT(60)
  <2>6. CASE x = y + 1
    BY <1>9, <2>3, <2>6
  <2>7. CASE x = y + 2
    BY <1>9, <2>3, <2>7
  <2> QED BY <2>5, <2>6, <2>7
<1>15. x = y
  BY <1>13, <1>14
<1> QED BY <1>4, <1>9, <1>10, <1>15, Zenon

\* One turn of total_frame_count's loop.
LEMMA CountTurn ==
  ASSUME NEW type, NEW buf, NEW end \in Nat, NEW k \in Nat, NEW w \in CountStates,
         NEW out, out = CountFrame(type, buf, end)[k][w]
  PROVE  /\ out \in CountStates
         /\ w.over => out = w
         /\ ~ w.over /\ w.at < end =>
              out = [at |-> w.at + NextStartCode(type, buf, w.at, end), cnt |-> w.cnt + 1,
                     over |-> NextStartCode(type, buf, w.at, end) = 0]
<1> DEFINE n == NextStartCode(type, buf, w.at, end)
<1>1. out = IF w.over \/ w.at >= end THEN w
            ELSE [at |-> w.at + n, cnt |-> w.cnt + 1, over |-> n = 0]
  BY Zenon DEF CountFrame
<1>2. w.at \in Int /\ w.cnt \in Nat /\ w.over \in BOOLEAN
  BY DEF CountStates
<1>3. CASE w.over \/ w.at >= end
  <2>1. out = w /\ (w.over \/ ~ (w.at < end))
    BY <1>1, <1>2, <1>3
  <2> QED BY <2>1
<1>4. CASE ~ (w.over \/ w.at >= end)
  <2>1. out = [at |-> w.at + n, cnt |-> w.cnt + 1, over |-> n = 0]
    BY <1>1, <1>4
  <2>2. n \in Int
    <3>1. PICK at \in Int : at = w.at
      BY <1>2
    <3>2. PICK m \in Nat : m = end - at + 1
      <4>1. ~ (at >= end)
        BY <1>4, <3>1
      <4> QED BY <4>1
    <3>3. PICK F : F = Scan(type, buf, at)
      OBVIOUS
    <3>4. F[m] \in ScanStates
      BY <3>3, ScanSteps
    <3>5. F[m].size \in Int
      BY <3>4 DEF ScanStates
    <3> QED BY <3>1, <3>2, <3>3, <3>5, Zenon DEF NextStartCode
  <2> DEFINE at == w.at + n
             cnt == w.cnt + 1
             over == n = 0
  <2>3. at \in Int /\ cnt \in Nat /\ over \in BOOLEAN
    BY <1>2, <2>2
  <2>4. out \in CountStates
    <3>1. out = [at |-> at, cnt |-> cnt, over |-> over]
      BY <2>1, Zenon
    <3>2. PICK a \in Int, c \in Nat, o \in BOOLEAN : a = at /\ c = cnt /\ o = over
      BY <2>3, Zenon
    <3> HIDE DEF at, cnt, over
    <3>3. [at |-> a, cnt |-> c, over |-> o] \in CountStates
      BY Zenon DEF CountStates
    <3> QED BY <3>1, <3>2, <3>3, Zenon
  <2> HIDE DEF n
  <2> QED BY <1>4, <2>1, <2>4, Zenon DEF n
<1> QED BY <1>3, <1>4

CountStart == [at |-> 0, cnt |-> 0, over |-> FALSE]

Count(type, buf, end) == AfterTurns(CountStart, CountFrame(type, buf, end))

CountRuns(W, type, buf, end) ==
  /\ W \in [Nat -> CountStates] /\ W[0] = CountStart
  /\ \A k \in Nat : W[k + 1] = CountFrame(type, buf, end)[k][W[k]]

\* total_frame_count as the states of its loop.
LEMMA CountIs ==
  ASSUME NEW type, NEW buf, NEW end \in Nat, NEW W, W = Count(type, buf, end)
  PROVE  CountRuns(W, type, buf, end)
<1> DEFINE turn == CountFrame(type, buf, end)
<1>1. CountStart \in CountStates
  BY DEF CountStates, CountStart
<1>2. turn \in [Nat -> [CountStates -> CountStates]]
  <2> DEFINE body(w) ==
        IF w.over \/ w.at >= end THEN w
        ELSE LET n == NextStartCode(type, buf, w.at, end)
             IN  [at |-> w.at + n, cnt |-> w.cnt + 1, over |-> n = 0]
  <2>1. turn = [k \in Nat |-> [w \in CountStates |-> body(w)]]
    BY Zenon DEF CountFrame
  <2> HIDE DEF body, turn
  <2>2. \A k \in Nat : \A w \in CountStates : turn[k][w] = body(w)
    BY <2>1, Zenon
  <2>3. \A w \in CountStates : body(w) \in CountStates
    <3>1. SUFFICES ASSUME NEW w \in CountStates PROVE turn[0][w] \in CountStates
      BY <2>2, Zenon
    <3>2. PICK out : out = CountFrame(type, buf, end)[0][w]
      OBVIOUS
    <3>3. out \in CountStates
      BY <3>2, CountTurn
    <3> QED BY <3>2, <3>3, Zenon DEF turn
  <2>4. [w \in CountStates |-> body(w)] \in [CountStates -> CountStates]
    BY <2>3, Zenon
  <2> QED BY <2>1, <2>4, Zenon
<1> HIDE DEF turn
<1>3. W = AfterTurns(CountStart, turn)
  BY Zenon DEF turn, Count
<1>4. /\ AfterTurns(CountStart, turn) \in [Nat -> CountStates]
      /\ AfterTurns(CountStart, turn)[0] = CountStart
      /\ \A k \in Nat : AfterTurns(CountStart, turn)[k + 1] = turn[k][AfterTurns(CountStart, turn)[k]]
  BY <1>1, <1>2, TurnsTaken, SMTT(60)
<1> QED BY <1>3, <1>4, Zenon DEF turn, CountRuns

\* A rest of the file from some cut on, in front of any byte: as many frames are counted
\* as it has.
LEMMA FramesCounted ==
  ASSUME NEW s \in Fitting, NEW n, n = Len(s.frames), NEW end, end = Len(s.bytes), NEW i \in 0 .. n - 1,
         NEW buf, NEW length \in Nat, length = end - Cut(s, i), Shows(buf, 0, s, i, length),
         buf[length] \in 0 .. 255
  PROVE  FrameCount(s.type, buf, length) = n - i
<1>1. n \in Nat /\ end \in Nat /\ Cut(s, n) = end /\ \A j \in 0 .. n : Cut(s, j) \in Nat
  BY FileCuts
<1>0. n \in Nat /\ end \in Nat
  BY <1>1
<1>2. PICK W : W = Count(s.type, buf, length)
  OBVIOUS
<1>20. CountRuns(W, s.type, buf, length)
  <2>1. PICK type : type = s.type
    OBVIOUS
  <2>2. W = Count(type, buf, length)
    BY <1>2, <2>1, Zenon
  <2>3. CountRuns(W, type, buf, length)
    BY <2>2, CountIs
  <2> QED BY <2>1, <2>3, Zenon
<1>3. PICK from \in Nat : from = Cut(s, i)
  BY <1>1
\* What the loop finds at the d-th cut behind the i-th.
<1>4. ASSUME NEW d \in Nat, i + d < n
      PROVE  /\ Cut(s, i + d) - from \in Nat /\ Cut(s, i + d) - from < length
             /\ i + d # n - 1 => NextStartCode(s.type, buf, Cut(s, i + d) - from, length)
                                   = Cut(s, i + d + 1) - Cut(s, i + d)
             /\ i + d = n - 1 => NextStartCode(s.type, buf, Cut(s, i + d) - from, length) = 0
  <2>1. PICK j \in 0 .. n - 1 : j = i + d /\ j \in 0 .. n /\ j <= n /\ i <= j /\ i \in 0 .. n /\ n \in 0 .. n
    BY <1>1, <1>4
  <2>2. PICK here \in Nat : here = Cut(s, j)
    BY <1>1, <2>1
  <2>3. from <= here
    <3>1. from + (j - i) <= here
      BY <1>3, <2>1, <2>2, CutsInOrder
    <3>2. j - i \in Nat
      BY <1>1, <2>1
    <3> QED BY <3>1, <3>2
  <2>4. here < end
    <3>1. here + (n - j) <= end
      <4>1. Cut(s, j) + (n - j) <= Cut(s, n)
        BY <2>1, CutsInOrder
      <4> QED BY <1>1, <2>2, <4>1
    <3>2. n - j >= 1
      BY <1>0
    <3> QED BY <1>0, <3>1, <3>2
  <2>5. PICK at \in Nat : at = here - from /\ at < length /\ length - at = end - here
    <3>1. length = end - from
      BY <1>3
    <3>2. here - from \in Nat /\ here - from < length /\ length - (here - from) = end - here
      BY <1>0, <2>3, <2>4, <3>1
    <3> QED BY <3>2
  <2>6. PICK rest \in Nat : rest = end - here /\ length - at + 1 = rest + 1 /\ rest <= rest + 1
    <3>1. PICK e \in Nat : e = end - here
      BY <1>0, <2>4
    <3>2. length - at = e
      BY <2>5, <3>1
    <3>3. e <= e + 1
      OBVIOUS
    <3> QED BY <3>1, <3>2, <3>3, Zenon
  <2>7. Shows(buf, at, s, j, rest)
    <3>1. SUFFICES ASSUME NEW a \in Nat, a < rest PROVE buf[at + a] = s.bytes[Cut(s, j) + a + 1]
      BY Zenon DEF Shows
    <3>2. PICK x \in Nat : x = at + a /\ x < length /\ from + x = here + a
      <4>1. at + a \in Nat /\ at + a < length /\ from + (at + a) = here + a
        BY <1>0, <2>5, <2>6, <3>1
      <4> QED BY <4>1
    <3>3. buf[0 + x] = s.bytes[Cut(s, i) + x + 1]
      BY <3>2, Zenon DEF Shows
    <3>4. 0 + x = x
      OBVIOUS
    <3> QED BY <1>3, <2>2, <3>2, <3>3, <3>4, Zenon
  <2>8. NextStartCode(s.type, buf, at, length) = Scan(s.type, buf, at)[rest + 1].size
    BY <2>6, Zenon DEF NextStartCode
  <2>9. ASSUME j # n - 1 PROVE NextStartCode(s.type, buf, at, length) = Cut(s, j + 1) - Cut(s, j)
    <3>1. j \in 0 .. n - 2 /\ at \in Int
      BY <1>1, <2>1, <2>9, SMTT(60)
    <3>2. Shows(buf, at, s, j, end - Cut(s, j)) /\ end - Cut(s, j) <= rest + 1
      BY <2>2, <2>6, <2>7, Zenon
    <3>3. PICK k \in Nat : k = rest + 1
      OBVIOUS
    <3>4. end - Cut(s, j) <= k
      BY <3>2, <3>3, Zenon
    <3>5. Scan(s.type, buf, at)[k].size = Cut(s, j + 1) - Cut(s, j)
      BY <3>1, <3>2, <3>4, CutFound
    <3> QED BY <2>8, <3>3, <3>5, Zenon
  <2>10. ASSUME j = n - 1 PROVE NextStartCode(s.type, buf, at, length) = 0
    <3>1. PICK b \in 0 .. 255 : b = buf[length]
      OBVIOUS
    <3>2. FileScan(s, b, j)[rest + 1].size = 0
      <4>1. FileScan(s, b, j)[end - Cut(s, j) + 1].size = 0
        <5>1. j = Len(s.frames) - 1
          BY <2>10, Zenon
        <5> QED BY <5>1, NoneBehind
      <4>2. end - Cut(s, j) = rest
        BY <2>2, <2>6, Zenon
      <4> QED BY <4>1, <4>2, Zenon
    <3> DEFINE other == FileBytes(s, b)
    <3>3. \A a \in Nat : a < rest + 1 => buf[at + a] = other[here + a]
      <4>1. SUFFICES ASSUME NEW a \in Nat, a < rest + 1 PROVE buf[at + a] = other[here + a]
        OBVIOUS
      <4>2. CASE a < rest
        <5>1. buf[at + a] = s.bytes[here + a + 1]
          BY <2>2, <2>7, <4>2, Zenon DEF Shows
        <5>2. PICK x \in 0 .. end : x = here + a /\ x # end
          BY <1>1, <2>6, <4>2, SMTT(60)
        <5>3. other[x] = s.bytes[x + 1]
          BY <5>2, Zenon DEF FileBytes
        <5> HIDE DEF other
        <5> QED BY <5>1, <5>2, <5>3, Zenon
      <4>3. CASE ~ (a < rest)
        <5>1. a = rest /\ at + a = length /\ here + a = end /\ end \in 0 .. end
          BY <1>0, <2>4, <2>5, <2>6, <4>1, <4>3, SMTT(60)
        <5>2. other[end] = b
          BY <5>1, Zenon DEF FileBytes
        <5> HIDE DEF other
        <5> QED BY <3>1, <5>1, <5>2, Zenon
      <4> QED BY <4>2, <4>3
    <3>4. buf[at] = other[here]
      <4>1. 0 \in Nat /\ 0 < rest + 1 /\ at + 0 = at /\ here + 0 = here
        OBVIOUS
      <4> HIDE DEF other
      <4>2. buf[at + 0] = other[here + 0]
        BY <3>3, <4>1, Zenon
      <4> QED BY <4>1, <4>2, Zenon
    <3> HIDE DEF other
    <3>5. \A k \in Nat : k <= rest + 1 => Scan(s.type, buf, at)[k] = Scan(s.type, other, here)[k]
      <4>1. PICK type, m, F, G : /\ type = s.type /\ m \in Nat /\ m = rest + 1
                                 /\ F = Scan(type, buf, at) /\ G = Scan(type, other, here)
        OBVIOUS
      <4>2. /\ \A a \in Nat : a < m => buf[at + a] = other[here + a]
            /\ m # 0 => buf[at] = other[here]
        BY <3>3, <3>4, <4>1, Zenon
      <4>3. \A k \in Nat : k <= m => F[k] = G[k]
        <5>1. PICK o, p, q : o = other /\ p = at /\ q = here
          OBVIOUS
        <5>2. F = Scan(type, buf, p) /\ G = Scan(type, o, q) /\ m \in Nat
          BY <4>1, <5>1
        <5>3. /\ \A a \in Nat : a < m => buf[p + a] = o[q + a]
              /\ m # 0 => buf[p] = o[q]
          BY <4>2, <5>1, Zenon
        <5> QED BY <5>2, <5>3, ScanLocal, SMTT(60)
      <4> QED BY <4>1, <4>3, Zenon
    <3>6. PICK k \in Nat : k = rest + 1 /\ k <= rest + 1
      OBVIOUS
    <3>7. Scan(s.type, buf, at)[k] = Scan(s.type, other, here)[k]
      BY <3>5, <3>6, Zenon
    <3>8. Scan(s.type, other, here) = FileScan(s, b, j)
      BY <2>2, Zenon DEF FileScan, other
    <3> QED BY <2>8, <3>2, <3>6, <3>7, <3>8, Zenon
  <2> QED BY <2>1, <2>2, <2>5, <2>9, <2>10, Zenon
<1>5. i \in 0 .. n /\ i + 0 = i /\ i <= n
  BY <1>0
\* The turns up to the last frame, and the one that finds nothing more.
<1> DEFINE Turn(d) == [at |-> Cut(s, i + d) - from, cnt |-> d, over |-> FALSE]
           K == {d \in Nat : i + d < n => W[d] = Turn(d)}
<1>6. \A d \in Nat : i + d < n => W[d] = Turn(d)
  <2>1. 0 \in K
    <3>1. W[0] = CountStart
      BY <1>20, Zenon DEF CountRuns
    <3>2. Cut(s, i + 0) - from = 0
      <4>1. Cut(s, i + 0) = from
        BY <1>3, <1>5
      <4>2. from - from = 0
        OBVIOUS
      <4> QED BY <4>1, <4>2, Zenon
    <3>3. W[0] = Turn(0)
      BY <3>1, <3>2, Zenon DEF CountStart
    <3> HIDE DEF Turn
    <3> QED BY <3>3
  <2>2. ASSUME NEW d \in Nat, d \in K PROVE d + 1 \in K
    <3>1. ASSUME i + (d + 1) < n PROVE W[d + 1] = Turn(d + 1)
      <4>1. i + d < n /\ i + d # n - 1 /\ i + d + 1 = i + (d + 1) /\ i + d \in 0 .. n /\ i + (d + 1) \in 0 .. n
            /\ i + (d + 1) \in 1 .. n /\ i + (d + 1) - 1 = i + d
        BY <1>0, <3>1
      <4>2. W[d] = Turn(d)
        <5> HIDE DEF Turn
        <5> QED BY <2>2, <4>1
      <4>3. PICK at \in Nat : at = Cut(s, i + d) - from /\ at < length
        BY <1>4, <4>1
      <4>4. PICK c \in Int : c = Cut(s, i + (d + 1)) - Cut(s, i + d) /\ c # 0
                             /\ at + c = Cut(s, i + (d + 1)) - from
        <5>1. PICK x \in Nat, y \in Nat : x = Cut(s, i + d) /\ y = Cut(s, i + (d + 1))
          BY <1>1, <4>1
        <5>2. y - x \in 1 .. DATA_PARSE_MIN_SIZE
          <6>1. PICK j \in 1 .. n : j = i + (d + 1) /\ j - 1 = i + d
            BY <4>1
          <6>2. Cut(s, j) - Cut(s, j - 1) \in 1 .. DATA_PARSE_MIN_SIZE
            BY FileCuts
          <6> QED BY <5>1, <6>1, <6>2
        <5>3. y - x # 0 /\ y - x \in Int /\ (x - from) + (y - x) = y - from
          BY <5>2
        <5> QED BY <4>3, <5>1, <5>3, Zenon
      <4>5. NextStartCode(s.type, buf, at, length) = c
        <5>1. NextStartCode(s.type, buf, Cut(s, i + d) - from, length) = Cut(s, i + d + 1) - Cut(s, i + d)
          BY <1>4, <4>1
        <5> QED BY <4>1, <4>3, <4>4, <5>1, Zenon
      <4>6. PICK w \in CountStates : w = W[d]
        <5>1. W \in [Nat -> CountStates]
          BY <1>20, Zenon DEF CountRuns
        <5> QED BY <5>1
      <4>7. w.at = at /\ w.cnt = d /\ ~ w.over
        <5>1. w = [at |-> at, cnt |-> d, over |-> FALSE]
          BY <4>2, <4>3, <4>6, Zenon
        <5> QED BY <5>1, SMT
      <4>8. PICK out : out = CountFrame(s.type, buf, length)[d][w] /\ W[d + 1] = out
        <5>1. W[d + 1] = CountFrame(s.type, buf, length)[d][W[d]]
          BY <1>20, Zenon DEF CountRuns
        <5> QED BY <4>6, <5>1, Zenon
      <4>9. out = [at |-> w.at + NextStartCode(s.type, buf, w.at, length), cnt |-> w.cnt + 1,
                   over |-> NextStartCode(s.type, buf, w.at, length) = 0]
        <5>1. w.at < length
          BY <4>3, <4>7
        <5> QED BY <4>7, <4>8, <5>1, CountTurn
      <4>10. (c = 0) = FALSE
        BY <4>4
      <4>11. out = [at |-> at + c, cnt |-> d + 1, over |-> FALSE]
        BY <4>5, <4>7, <4>9, <4>10, Zenon
      <4> QED BY <4>4, <4>8, <4>11, Zenon
    <3>2. d + 1 \in Nat
      OBVIOUS
    <3> HIDE DEF Turn
    <3> QED BY <3>1, <3>2
  <2>3. \A d \in Nat : d \in K
    <3> HIDE DEF K
    <3> QED BY <2>1, <2>2, NatSetInduction
  <2> HIDE DEF Turn
  <2> QED BY <2>3
<1>7. PICK d \in Nat : i + d = n - 1 /\ i + d < n /\ d + 1 = n - i
  <2>1. /\ n - 1 - i \in Nat /\ i + (n - 1 - i) = n - 1 /\ i + (n - 1 - i) < n
        /\ (n - 1 - i) + 1 = n - i
    BY <1>0
  <2> QED BY <2>1
<1>8. W[d + 1].over /\ W[d + 1].cnt = d + 1
  <2>1. PICK at \in Nat : at = Cut(s, i + d) - from /\ at < length
    BY <1>4, <1>7
  <2>2. NextStartCode(s.type, buf, at, length) = 0
    BY <1>4, <1>7, <2>1
  <2>3. PICK w \in CountStates : w = W[d]
    <3>1. W \in [Nat -> CountStates]
      BY <1>20, Zenon DEF CountRuns
    <3> QED BY <3>1
  <2>4. w.at = at /\ w.cnt = d /\ ~ w.over
    <3>1. W[d] = Turn(d)
      <4> HIDE DEF Turn
      <4> QED BY <1>6, <1>7
    <3>2. w = [at |-> at, cnt |-> d, over |-> FALSE]
      BY <2>1, <2>3, <3>1, Zenon
    <3> QED BY <3>2, SMT
  <2>5. PICK out : out = CountFrame(s.type, buf, length)[d][w] /\ W[d + 1] = out
    <3>1. W[d + 1] = CountFrame(s.type, buf, length)[d][W[d]]
      BY <1>20, Zenon DEF CountRuns
    <3> QED BY <2>3, <3>1, Zenon
  <2>6. out = [at |-> w.at + NextStartCode(s.type, buf, w.at, length), cnt |-> w.cnt + 1,
               over |-> NextStartCode(s.type, buf, w.at, length) = 0]
    <3>1. w.at < length
      BY <2>1, <2>4
    <3> QED BY <2>4, <2>5, <3>1, CountTurn
  <2>7. out.over = (NextStartCode(s.type, buf, w.at, length) = 0) /\ out.cnt = w.cnt + 1
    BY <2>6, Zenon
  <2> QED BY <2>2, <2>4, <2>5, <2>7, Zenon
\* Then the loop is over.
<1> DEFINE O == {e \in Nat : W[d + 1 + e].over /\ W[d + 1 + e].cnt = d + 1}
<1>9. \A e \in Nat : e \in O
  <2>1. 0 \in O
    BY <1>8
  <2>2. ASSUME NEW e \in Nat, e \in O PROVE e + 1 \in O
    <3>1. PICK k \in Nat : k = d + 1 + e /\ k + 1 = d + 1 + (e + 1)
      OBVIOUS
    <3>2. PICK w \in CountStates : w = W[k]
      <4>1. W \in [Nat -> CountStates]
        BY <1>20, Zenon DEF CountRuns
      <4> QED BY <4>1
    <3>3. PICK out : out = CountFrame(s.type, buf, length)[k][w] /\ W[k + 1] = out
      <4>1. W[k + 1] = CountFrame(s.type, buf, length)[k][W[k]]
        BY <1>20, Zenon DEF CountRuns
      <4> QED BY <3>2, <4>1, Zenon
    <3>4. w.over /\ w.cnt = d + 1
      BY <2>2, <3>1, <3>2
    <3>5. out = w
      BY <3>3, <3>4, CountTurn
    <3>6. W[d + 1 + (e + 1)] = w
      BY <3>1, <3>3, <3>5, Zenon
    <3>7. e + 1 \in Nat
      OBVIOUS
    <3> QED BY <3>4, <3>6, <3>7
  <2> HIDE DEF O
  <2> QED BY <2>1, <2>2, NatSetInduction
<1>10. PICK e \in Nat : length = d + 1 + e
  <2>1. from + (n - i) <= end
    <3>1. n \in 0 .. n
      BY <1>0
    <3>2. Cut(s, i) + (n - i) <= Cut(s, n)
      BY <1>5, <3>1, CutsInOrder
    <3> QED BY <1>1, <1>3, <3>2
  <2>2. length = end - from
    BY <1>3
  <2>3. length - (d + 1) \in Nat /\ length = d + 1 + (length - (d + 1))
    BY <1>0, <1>7, <2>1, <2>2, SMTT(60)
  <2> QED BY <2>3
<1>11. W[length].cnt = d + 1
  BY <1>9, <1>10
<1>12. FrameCount(s.type, buf, length) = W[length].cnt
  BY <1>2, Zenon DEF FrameCount, CountStart, Count
<1> QED BY <1>7, <1>11, <1>12, Zenon

ReaderSpec == (ReaderInit \/ ReaderOff) /\ [][ReaderNext]_readerVars

NumFrames == Len(stream.frames)
FramePiece(i) == [bytes |-> FrameOf(i), num_pics |-> 1]
Unfed(i) == totsize - Cut(stream, i)
LastOf(i) == [bytes |-> [k \in 1 .. Unfed(i) |-> Cut(stream, i) + k - 1], num_pics |-> NumFrames - i]

Fed(given) == \A i \in DOMAIN given : given[i] = FramePiece(i)

\* cells holds, from place at on, the next length bytes behind the frames fed.
CellsHold(cells, at, length, i) ==
  /\ cells \in [0 .. mem_size - 1 -> 0 .. totsize - 1]
  /\ at + length <= mem_size
  /\ \A a \in 0 .. length - 1 : cells[at + a] = Cut(stream, i) + a

Window ==
  /\ p_cur \in Nat /\ size \in Nat /\ bytes_left_in_file \in Nat
  /\ Len(fed) < NumFrames /\ size + bytes_left_in_file = Unfed(Len(fed))
  /\ bytes_left_in_file # 0 => p_cur + size = mem_size
  /\ CellsHold(es, p_cur, size, Len(fed))
  /\ Fed(fed)

Ended ==
  /\ Len(fed) \in 1 .. NumFrames
  /\ \A i \in 1 .. Len(fed) - 1 : fed[i] = FramePiece(i)
  /\ \/ test_decode_one_trunk /\ fed[Len(fed)].bytes = <<>> /\ fed[Len(fed)].num_pics = 0
     \/ fed[Len(fed)] = LastOf(Len(fed) - 1)

ReaderInv ==
  /\ stream \in Fitting /\ reader \in {"off", "frames", "left", "done"}
  /\ p_cur \in 0 .. MaxMem /\ size \in 0 .. MaxMem /\ bytes_left_in_file \in 0 .. totsize
  /\ fed \in Seq([bytes : Seq(Nat), num_pics : Nat])
  /\ reader = "off" => fed = <<>>
  /\ reader \in {"frames", "left"} => Window
  /\ reader = "done" => Ended

\* The sizes of the file and of the buffer.
LEMMA StreamFacts ==
  ASSUME stream \in Fitting
  PROVE  /\ NumFrames \in Nat /\ NumFrames >= 1 /\ totsize \in Nat /\ totsize >= 1
         /\ mem_size \in Nat /\ mem_size >= 1 /\ mem_size <= totsize /\ mem_size <= MaxMem
         /\ MaxMem \in Nat /\ DATA_PARSE_MIN_SIZE \in Nat
         /\ \A i \in 0 .. NumFrames : Cut(stream, i) \in Nat /\ Cut(stream, i) <= totsize
<1>1. /\ NumFrames \in Nat /\ NumFrames >= 1 /\ totsize \in Nat
      /\ Cut(stream, 0) = 0 /\ Cut(stream, NumFrames) = totsize
  BY FileCuts DEF NumFrames, totsize
<1>2. ASSUME NEW i \in 0 .. NumFrames
      PROVE  Cut(stream, i) \in Nat /\ Cut(stream, i) + (NumFrames - i) <= totsize
  <2>1. PICK n \in Nat : n = Len(stream.frames) /\ n = NumFrames /\ i \in 0 .. n /\ n \in 0 .. n /\ i <= n
    BY <1>1 DEF NumFrames
  <2>2. Cut(stream, i) + (n - i) <= Cut(stream, n) /\ Cut(stream, i) \in Nat
    BY <2>1, CutsInOrder
  <2> QED BY <1>1, <2>1, <2>2, Zenon
<1>3. totsize >= 1
  <2>1. 0 \in 0 .. NumFrames
    BY <1>1
  <2>2. 0 + (NumFrames - 0) <= totsize
    BY <1>1, <1>2, <2>1, Zenon
  <2> QED BY <1>1, <2>2
<1>4. MaxMem \in Nat /\ DATA_PARSE_MIN_SIZE \in Nat /\ MaxMem >= 1
  BY FrameReaderAssumption
<1>5. mem_size \in Nat /\ mem_size >= 1 /\ mem_size <= totsize /\ mem_size <= MaxMem
  <2>1. mem_size = IF totsize > MaxMem THEN MaxMem ELSE totsize
    BY Zenon DEF mem_size
  <2> HIDE DEF totsize, mem_size
  <2> QED BY <1>1, <1>3, <1>4, <2>1
<1>6. ASSUME NEW i \in 0 .. NumFrames PROVE Cut(stream, i) \in Nat /\ Cut(stream, i) <= totsize
  <2>1. PICK z \in Nat : z = Cut(stream, i)
    BY <1>2
  <2>2. z + (NumFrames - i) <= totsize
    BY <1>2, <2>1
  <2>3. NumFrames - i \in Nat
    BY <1>1
  <2> QED BY <1>1, <2>1, <2>2, <2>3
<1> QED BY <1>1, <1>3, <1>4, <1>5, <1>6

\* What a cut's frame and its rest are.
LEMMA RestFacts ==
  ASSUME stream \in Fitting, NEW i \in 0 .. NumFrames - 1
  PROVE  /\ Unfed(i) \in Nat /\ Unfed(i) >= 1 /\ Unfed(i) = totsize - Cut(stream, i)
         /\ Cut(stream, i + 1) - Cut(stream, i) \in 1 .. DATA_PARSE_MIN_SIZE
         /\ Unfed(i + 1) = Unfed(i) - (Cut(stream, i + 1) - Cut(stream, i))
         /\ i = NumFrames - 1 => Unfed(i) <= DATA_PARSE_MIN_SIZE
<1>1. /\ NumFrames \in Nat /\ totsize \in Nat /\ DATA_PARSE_MIN_SIZE \in Nat
      /\ Cut(stream, i) \in Nat /\ Cut(stream, i + 1) \in Nat
      /\ Cut(stream, i) <= totsize /\ Cut(stream, i + 1) <= totsize
  <2>1. NumFrames \in Nat /\ \A j \in 0 .. NumFrames : Cut(stream, j) \in Nat /\ Cut(stream, j) <= totsize
    BY StreamFacts
  <2>2. i \in 0 .. NumFrames /\ i + 1 \in 0 .. NumFrames
    BY <2>1
  <2> QED BY <2>1, <2>2, StreamFacts
<1>2. PICK x \in Nat, y \in Nat : x = Cut(stream, i) /\ y = Cut(stream, i + 1) /\ x <= totsize /\ y <= totsize
  BY <1>1
<1>3. y - x \in 1 .. DATA_PARSE_MIN_SIZE
  <2>1. PICK j \in 1 .. NumFrames : j = i + 1 /\ j - 1 = i
    BY <1>1
  <2>2. \A k \in 1 .. NumFrames : Cut(stream, k) - Cut(stream, k - 1) \in 1 .. DATA_PARSE_MIN_SIZE
    BY FileCuts DEF NumFrames
  <2>3. Cut(stream, j) - Cut(stream, j - 1) \in 1 .. DATA_PARSE_MIN_SIZE
    BY <2>2
  <2> QED BY <1>2, <2>1, <2>3
<1>4. Unfed(i) = totsize - x /\ Unfed(i + 1) = totsize - y
  BY <1>2, Zenon DEF Unfed
<1>5. totsize - x \in Nat /\ totsize - x >= 1 /\ totsize - y = (totsize - x) - (y - x)
  <2> HIDE DEF totsize
  <2> QED BY <1>1, <1>2, <1>3
<1>6. i = NumFrames - 1 => y = totsize
  <2>1. Cut(stream, NumFrames) = totsize
    BY FileCuts DEF NumFrames, totsize
  <2>2. i = NumFrames - 1 => i + 1 = NumFrames
    BY <1>1
  <2> QED BY <1>2, <2>1, <2>2, Zenon
<1>7. i = NumFrames - 1 => totsize - x <= DATA_PARSE_MIN_SIZE
  <2> HIDE DEF totsize
  <2> QED BY <1>1, <1>2, <1>3, <1>6
<1> QED BY <1>2, <1>3, <1>4, <1>5, <1>7, Zenon

\* The bytes of a buffer that holds the file's places are the file's bytes.
LEMMA BufferShows ==
  ASSUME stream \in Fitting, NEW cells, NEW at \in Nat, NEW length \in Nat, NEW i \in 0 .. NumFrames - 1,
         CellsHold(cells, at, length, i), NEW beyond
  PROVE  Shows(BytesOf(cells, beyond), at, stream, i, length)
<1>1. SUFFICES ASSUME NEW a \in Nat, a < length
               PROVE  BytesOf(cells, beyond)[at + a] = stream.bytes[Cut(stream, i) + a + 1]
  BY Zenon DEF Shows
<1>2. mem_size \in Nat
  BY StreamFacts
<1>3. at + length <= mem_size
  BY Zenon DEF CellsHold
<1>4. PICK m \in Nat : m = mem_size
  BY <1>2
<1>5. PICK x \in 0 .. m : x = at + a /\ x # m /\ a \in 0 .. length - 1
  BY <1>1, <1>3, <1>4
<1>6. BytesOf(cells, beyond)[x] = stream.bytes[cells[x] + 1]
  BY <1>4, <1>5, Zenon DEF BytesOf
<1>7. cells[x] = Cut(stream, i) + a
  BY <1>5, Zenon DEF CellsHold
<1> QED BY <1>5, <1>6, <1>7, Zenon

\* The frame that is cut off is the next one of the file, and not its last.
LEMMA NextCut ==
  ASSUME stream \in Fitting, Window, size > DATA_PARSE_MIN_SIZE, NEW beyond,
         NEW c, c = NextStartCode(stream.type, BytesOf(es, beyond), p_cur, mem_size), c # 0,
         NEW i, i = Len(fed), i \in Nat
  PROVE  i + 1 < NumFrames /\ c = Cut(stream, i + 1) - Cut(stream, i)
<1>1. /\ NumFrames \in Nat /\ mem_size \in Nat /\ DATA_PARSE_MIN_SIZE \in Nat
  BY StreamFacts
<1>2. /\ p_cur \in Nat /\ size \in Nat /\ bytes_left_in_file \in Nat
      /\ i < NumFrames /\ size + bytes_left_in_file = Unfed(i)
      /\ bytes_left_in_file # 0 => p_cur + size = mem_size
      /\ CellsHold(es, p_cur, size, i)
  BY Zenon DEF Window
<1>3. i \in 0 .. NumFrames - 1
  BY <1>1, <1>2
<1>4. /\ Unfed(i) \in Nat /\ Unfed(i) = totsize - Cut(stream, i)
      /\ i = NumFrames - 1 => Unfed(i) <= DATA_PARSE_MIN_SIZE
  BY <1>3, RestFacts
<1>5. size <= Unfed(i)
  <2>1. PICK r \in Nat : r = Unfed(i) /\ size + bytes_left_in_file = r
    BY <1>2, <1>4
  <2>2. size <= r
    BY <1>2, <2>1
  <2> QED BY <2>1, <2>2
<1>6. i # NumFrames - 1
  <2>1. PICK r \in Nat : r = Unfed(i)
    BY <1>4
  <2>2. ~ (r <= DATA_PARSE_MIN_SIZE)
    BY <1>1, <1>2, <1>5, <2>1
  <2> QED BY <1>4, <2>1, <2>2, Zenon
<1>7. i + 1 < NumFrames /\ i \in 0 .. NumFrames - 2
  BY <1>1, <1>3, <1>6
<1>8. PICK p \in Nat, buf \in {BytesOf(es, beyond)} : buf = BytesOf(es, beyond) /\ p = p_cur
  BY <1>2
<1>9. Shows(buf, p, stream, i, size)
  <2>1. PICK length \in Nat : length = size
    BY <1>2
  <2>2. CellsHold(es, p, length, i)
    BY <1>2, <1>8, <2>1, Zenon
  <2>3. Shows(BytesOf(es, beyond), p, stream, i, length)
    BY <1>3, <2>2, BufferShows
  <2> QED BY <1>8, <2>1, <2>3, Zenon
<1>10. PICK k \in Nat : k = mem_size - p + 1 /\ size + 1 <= k /\ (p + size = mem_size => k = size + 1)
  <2>1. p + size <= mem_size
    BY <1>2, <1>8, Zenon DEF CellsHold
  <2>2. PICK m \in Nat : m = mem_size
    BY <1>1
  <2>3. PICK z \in Nat : z = size
    BY <1>2
  <2>4. /\ m - p + 1 \in Nat /\ z + 1 <= m - p + 1
        /\ p + z = m => m - p + 1 = z + 1
    BY <2>1, <2>2, <2>3
  <2> QED BY <2>2, <2>3, <2>4, Zenon
<1>11. c = Scan(stream.type, buf, p)[k].size
  BY <1>8, <1>10, Zenon DEF NextStartCode
<1>12. PICK n, end : n = Len(stream.frames) /\ n = NumFrames /\ end = Len(stream.bytes) /\ end = totsize
  BY DEF NumFrames, totsize
<1>13. CASE bytes_left_in_file = 0
  <2>1. size = Unfed(i)
    BY <1>2, <1>4, <1>13
  <2>2. Shows(buf, p, stream, i, end - Cut(stream, i))
    BY <1>4, <1>9, <1>12, <2>1, Zenon
  <2>3. end - Cut(stream, i) <= k
    <3>1. end - Cut(stream, i) = size
      BY <1>4, <1>12, <2>1, Zenon
    <3>2. size <= k
      BY <1>2, <1>10
    <3> QED BY <3>1, <3>2, Zenon
  <2>4. i \in 0 .. n - 2 /\ p \in Int
    BY <1>7, <1>12
  <2>5. PICK s \in Fitting : s = stream
    OBVIOUS
  <2>6. /\ n = Len(s.frames) /\ end = Len(s.bytes) /\ Shows(buf, p, s, i, end - Cut(s, i))
        /\ end - Cut(s, i) <= k
    BY <1>12, <2>2, <2>3, <2>5, Zenon
  <2>7. Scan(s.type, buf, p)[k].size = Cut(s, i + 1) - Cut(s, i)
    BY <2>4, <2>6, CutFound
  <2> QED BY <1>7, <1>11, <2>5, <2>7, Zenon
<1>14. CASE bytes_left_in_file # 0
  <2>1. PICK length \in Nat : length = size
    BY <1>2
  <2>2. k = length + 1
    BY <1>2, <1>8, <1>10, <1>14, <2>1, Zenon
  <2>3. Shows(buf, p, stream, i, length)
    BY <1>9, <2>1, Zenon
  <2>4. length <= end - Cut(stream, i)
    BY <1>4, <1>5, <1>12, <2>1, Zenon
  <2>5. DATA_PARSE_MIN_SIZE < length
    BY <1>1, <2>1
  <2>6. c = Scan(stream.type, buf, p)[length + 1].size
    BY <1>11, <2>2, Zenon
  <2>7. i \in 0 .. n - 2 /\ p \in Int
    BY <1>7, <1>12
  <2>8. PICK s \in Fitting : s = stream
    OBVIOUS
  <2>9. /\ n = Len(s.frames) /\ end = Len(s.bytes) /\ Shows(buf, p, s, i, length)
        /\ length <= end - Cut(s, i) /\ c = Scan(s.type, buf, p)[length + 1].size
    BY <1>12, <2>3, <2>4, <2>6, <2>8, Zenon
  <2>10. c = Cut(s, i + 1) - Cut(s, i)
    BY <2>5, <2>7, <2>9, CutNotMistaken
  <2> QED BY <1>7, <2>8, <2>10, Zenon
<1> QED BY <1>13, <1>14

Pieces == [bytes : Seq(Nat), num_pics : Nat]

\* A window of the buffer that holds what follows the pieces is the next state's window.
LEMMA WindowMade ==
  ASSUME stream' = stream, NEW p \in Nat, NEW z \in Nat, NEW left \in Nat, NEW cells, NEW given,
         p_cur' = p, size' = z, bytes_left_in_file' = left, es' = cells, fed' = given,
         Len(given) < NumFrames, z + left = Unfed(Len(given)), left # 0 => p + z = mem_size,
         CellsHold(cells, p, z, Len(given)), Fed(given)
  PROVE  Window'
<1>1. NumFrames' = NumFrames /\ mem_size' = mem_size /\ totsize' = totsize
  BY Zenon DEF NumFrames, mem_size, totsize
<1>2. (Unfed(Len(fed)))' = Unfed(Len(given))
  BY <1>1, Zenon DEF Unfed
<1>3. CellsHold(es, p_cur, size, Len(fed))'
  <2>1. /\ cells \in [0 .. mem_size - 1 -> 0 .. totsize - 1]
        /\ p + z <= mem_size
        /\ \A a \in 0 .. z - 1 : cells[p + a] = Cut(stream, Len(given)) + a
    BY Zenon DEF CellsHold
  <2> QED BY <1>1, <2>1, Zenon DEF CellsHold
<1>4. Fed(fed)'
  BY Zenon DEF Fed, FramePiece, FrameOf
<1> QED BY <1>1, <1>2, <1>3, <1>4, Zenon DEF Window

Places(from, n) == [k \in 1 .. n |-> from + k - 1]

\* A piece of a buffer that holds the file's places is a run of them.
LEMMA PieceMade ==
  ASSUME NEW cells, NEW at \in Nat, NEW length \in Nat, NEW i, CellsHold(cells, at, length, i),
         Cut(stream, i) \in Nat, NEW c \in Nat, c <= length, NEW num
  PROVE  /\ Piece(cells, at, c, num) = [bytes |-> Places(Cut(stream, i), c), num_pics |-> num]
         /\ Places(Cut(stream, i), c) \in Seq(Nat)
<1>1. PICK x \in Nat : x = Cut(stream, i)
  OBVIOUS
<1>2. ASSUME NEW k \in 1 .. c PROVE cells[at + k - 1] = x + k - 1 /\ x + k - 1 \in Nat
  <2>1. PICK a \in 0 .. length - 1 : at + a = at + k - 1 /\ x + a = x + k - 1 /\ x + a \in Nat
    <3>1. k - 1 \in 0 .. length - 1 /\ at + (k - 1) = at + k - 1 /\ x + (k - 1) = x + k - 1 /\ x + (k - 1) \in Nat
      OBVIOUS
    <3> QED BY <3>1
  <2>2. cells[at + a] = x + a
    BY <1>1, <2>1, Zenon DEF CellsHold
  <2> QED BY <2>1, <2>2, Zenon
<1>3. [k \in 1 .. c |-> cells[at + k - 1]] = [k \in 1 .. c |-> x + k - 1]
  BY <1>2
<1>4. [k \in 1 .. c |-> x + k - 1] \in Seq(Nat)
  <2>1. \A k \in 1 .. c : x + k - 1 \in Nat
    BY <1>2
  <2> QED BY <2>1
<1> QED BY <1>1, <1>3, <1>4, Zenon DEF Piece, Places

\* A frame is fed: the next cut was found, or nothing is fed.
LEMMA FeedFrameKeeps == ReaderInv /\ FeedFrame => ReaderInv'
<1>1. SUFFICES ASSUME ReaderInv, FeedFrame PROVE ReaderInv'
  OBVIOUS
<1>2. /\ stream \in Fitting /\ Window /\ fed \in Seq(Pieces)
      /\ p_cur \in Nat /\ size \in Nat /\ bytes_left_in_file \in Nat
  BY <1>1, Zenon DEF ReaderInv, FeedFrame, Window, Pieces
<1>3. /\ reader = "frames" /\ size > DATA_PARSE_MIN_SIZE
      /\ stream' = stream /\ es' = es /\ bytes_left_in_file' = bytes_left_in_file /\ reader' = reader
  BY <1>1, Zenon DEF FeedFrame
<1>4. PICK beyond, c : /\ c = NextStartCode(stream.type, BytesOf(es, beyond), p_cur, mem_size) /\ c # 0
                       /\ fed' = Append(fed, Piece(es, p_cur, c, 1))
                       /\ p_cur' = p_cur + c
                       /\ size' = SizeLeft(c)
  BY <1>1, Zenon DEF FeedFrame
<1>5. PICK i \in Nat : i = Len(fed)
  BY <1>2
<1>6. i + 1 < NumFrames /\ c = Cut(stream, i + 1) - Cut(stream, i)
  BY <1>2, <1>3, <1>4, <1>5, NextCut
<1>7. /\ NumFrames \in Nat /\ mem_size \in Nat /\ DATA_PARSE_MIN_SIZE \in Nat /\ mem_size <= MaxMem
      /\ MaxMem \in Nat
  BY <1>2, StreamFacts
<1>8. i \in 0 .. NumFrames - 1 /\ i + 1 \in 0 .. NumFrames - 1 /\ i \in 0 .. NumFrames /\ i + 1 \in 0 .. NumFrames
      /\ (i + 1) - 1 = i
  BY <1>6, <1>7
<1>9. Cut(stream, i) \in Nat /\ Cut(stream, i + 1) \in Nat
  BY <1>2, <1>8, StreamFacts
<1>10. c \in 1 .. DATA_PARSE_MIN_SIZE /\ Unfed(i + 1) = Unfed(i) - c /\ Unfed(i) \in Nat
  <2>1. /\ Cut(stream, i + 1) - Cut(stream, i) \in 1 .. DATA_PARSE_MIN_SIZE
        /\ Unfed(i + 1) = Unfed(i) - (Cut(stream, i + 1) - Cut(stream, i)) /\ Unfed(i) \in Nat
    BY <1>2, <1>8, RestFacts
  <2> QED BY <1>6, <2>1, Zenon
<1>11. c \in Nat /\ c <= size /\ size' = size - c
  <2>1. c \in Nat /\ c <= size
    BY <1>2, <1>3, <1>7, <1>10
  <2>2. size \in 0 .. MaxMem
    BY <1>1 DEF ReaderInv
  <2>3. size # WrappedSize
    BY <1>7, <2>2 DEF WrappedSize
  <2> QED BY <1>4, <2>1, <2>3 DEF SizeLeft
<1>12. PICK p \in Nat, z \in Nat, left \in Nat :
         p = p_cur + c /\ z = size - c /\ left = bytes_left_in_file /\ p + z = p_cur + size
  <2>1. p_cur + c \in Nat /\ size - c \in Nat /\ (p_cur + c) + (size - c) = p_cur + size
    BY <1>2, <1>11
  <2> QED BY <1>2, <2>1
<1>13. /\ size + left = Unfed(i) /\ (left # 0 => p + z = mem_size) /\ CellsHold(es, p_cur, size, i) /\ Fed(fed)
  BY <1>2, <1>5, <1>12, Zenon DEF Window
<1>14. Piece(es, p_cur, c, 1) = FramePiece(i + 1) /\ FramePiece(i + 1) \in Pieces
  <2>1. Piece(es, p_cur, c, 1) = [bytes |-> Places(Cut(stream, i), c), num_pics |-> 1]
        /\ Places(Cut(stream, i), c) \in Seq(Nat)
    <3>1. PICK at \in Nat, length \in Nat, n \in Nat : at = p_cur /\ length = size /\ n = c
      BY <1>2, <1>11
    <3>2. PICK cells : cells = es
      OBVIOUS
    <3>3. CellsHold(cells, at, length, i) /\ n <= length
      BY <1>11, <1>13, <3>1, <3>2, Zenon
    <3>4. Piece(cells, at, n, 1) = [bytes |-> Places(Cut(stream, i), n), num_pics |-> 1]
          /\ Places(Cut(stream, i), n) \in Seq(Nat)
      BY <1>9, <3>3, PieceMade
    <3> QED BY <3>1, <3>2, <3>4, Zenon
  <2>2. FrameOf(i + 1) = Places(Cut(stream, i), c)
    BY <1>6, <1>8, Zenon DEF FrameOf, Places
  <2>3. 1 \in Nat
    OBVIOUS
  <2> QED BY <2>1, <2>2, <2>3, Zenon DEF FramePiece, Pieces
<1>15. PICK given \in Seq(Pieces) : given = Append(fed, FramePiece(i + 1)) /\ Len(given) = i + 1
                                     /\ \A k \in 1 .. i : given[k] = fed[k]
                                     /\ given[i + 1] = FramePiece(i + 1)
  <2>1. PICK x \in Pieces : x = FramePiece(i + 1)
    BY <1>14, Zenon
  <2>2. /\ Append(fed, x) \in Seq(Pieces) /\ Len(Append(fed, x)) = i + 1
        /\ \A k \in 1 .. i : Append(fed, x)[k] = fed[k]
        /\ Append(fed, x)[i + 1] = x
    BY <1>2, <1>5, AppendProperties
  <2> QED BY <2>1, <2>2, Zenon
<1>16. Fed(given)
  <2>1. DOMAIN given = 1 .. i + 1 /\ DOMAIN fed = 1 .. i
    <3>1. DOMAIN given = 1 .. Len(given) /\ DOMAIN fed = 1 .. Len(fed)
      BY <1>2, <1>15
    <3> QED BY <1>5, <1>15, <3>1, Zenon
  <2>2. SUFFICES ASSUME NEW k \in 1 .. i + 1 PROVE given[k] = FramePiece(k)
    BY <2>1, Zenon DEF Fed
  <2>3. CASE k = i + 1
    <3>1. given[i + 1] = FramePiece(i + 1)
      BY <1>15
    <3> QED BY <2>3, <3>1
  <2>4. CASE k # i + 1
    <3>1. k \in 1 .. i
      BY <2>4
    <3>2. fed[k] = FramePiece(k)
      BY <1>13, <2>1, <3>1, Zenon DEF Fed
    <3> QED BY <1>15, <3>1, <3>2, Zenon
  <2> QED BY <2>3, <2>4
<1>17. CellsHold(es, p, z, i + 1)
  <2>1. PICK x \in Nat, y \in Nat : x = Cut(stream, i) /\ y = Cut(stream, i + 1) /\ y = x + c
    <3>1. PICK x \in Nat, y \in Nat : x = Cut(stream, i) /\ y = Cut(stream, i + 1)
      BY <1>9
    <3>2. c = y - x
      BY <1>6, <3>1, Zenon
    <3> QED BY <3>1, <3>2
  <2>2. /\ es \in [0 .. mem_size - 1 -> 0 .. totsize - 1] /\ p_cur + size <= mem_size
        /\ \A a \in 0 .. size - 1 : es[p_cur + a] = Cut(stream, i) + a
    BY <1>13, Zenon DEF CellsHold
  <2>3. ASSUME NEW a \in 0 .. z - 1 PROVE es[p + a] = y + a
    <3>1. PICK e \in 0 .. size - 1 : e = c + a /\ p_cur + e = p + a /\ x + e = y + a
      <4>1. c + a \in 0 .. size - 1 /\ p_cur + (c + a) = p + a /\ x + (c + a) = y + a
        BY <1>2, <1>11, <1>12, <2>1
      <4> QED BY <4>1
    <3>2. es[p_cur + e] = x + e
      BY <2>1, <2>2, Zenon
    <3> QED BY <3>1, <3>2, Zenon
  <2>4. p + z <= mem_size
    BY <1>12, <2>2, Zenon
  <2> QED BY <2>1, <2>2, <2>3, <2>4, Zenon DEF CellsHold
<1>18. z + left = Unfed(i + 1)
  <2>1. PICK r \in Nat : r = Unfed(i)
    BY <1>10
  <2>2. z + left = r - c
    BY <1>2, <1>11, <1>12, <1>13, <2>1
  <2> QED BY <1>10, <2>1, <2>2, Zenon
<1>19. fed' = given /\ p_cur' = p /\ size' = z /\ bytes_left_in_file' = left
  BY <1>3, <1>4, <1>11, <1>12, <1>14, <1>15, Zenon
<1>20. Window'
  <2>1. Len(given) < NumFrames /\ z + left = Unfed(Len(given)) /\ CellsHold(es, p, z, Len(given))
    BY <1>6, <1>15, <1>17, <1>18, Zenon
  <2>2. es' = es /\ stream' = stream /\ (left # 0 => p + z = mem_size) /\ Fed(given)
    BY <1>3, <1>13, <1>16, Zenon
  <2> QED BY <1>19, <2>1, <2>2, WindowMade
<1>21. p_cur' \in 0 .. MaxMem /\ size' \in 0 .. MaxMem /\ bytes_left_in_file' \in 0 .. totsize'
  <2>1. p_cur + size <= mem_size
    BY <1>13, Zenon DEF CellsHold
  <2>2. p \in 0 .. MaxMem /\ z \in 0 .. MaxMem
    BY <1>2, <1>7, <1>11, <1>12, <2>1
  <2>3. totsize' = totsize
    BY <1>3, Zenon DEF totsize
  <2>4. bytes_left_in_file \in 0 .. totsize
    BY <1>1, Zenon DEF ReaderInv
  <2> QED BY <1>12, <1>19, <2>2, <2>3, <2>4, Zenon
<1>22. stream' \in Fitting /\ reader' = "frames" /\ fed' \in Seq(Pieces)
  BY <1>2, <1>3, <1>15, <1>19, Zenon
<1>23. reader' # "off" /\ reader' # "done" /\ reader' \in {"off", "frames", "left", "done"}
  BY <1>22
<1> QED BY <1>20, <1>21, <1>22, <1>23, Zenon DEF ReaderInv, Pieces

\* A fill from the file's first byte.
LEMMA FreshFill ==
  ASSUME stream \in Fitting
  PROVE  /\ CellsHold([a \in 0 .. mem_size - 1 |-> a], 0, mem_size, 0) /\ Fed(<<>>)
         /\ mem_size \in Nat /\ totsize - mem_size \in Nat /\ 0 \in Nat
         /\ mem_size \in 0 .. MaxMem /\ 0 \in 0 .. MaxMem /\ totsize - mem_size \in 0 .. totsize
         /\ mem_size + (totsize - mem_size) = Unfed(0) /\ 0 < NumFrames /\ 0 + mem_size = mem_size
         /\ Len(<<>>) = 0 /\ <<>> \in Seq(Pieces)
<1>1. /\ NumFrames \in Nat /\ NumFrames >= 1 /\ totsize \in Nat
      /\ mem_size \in Nat /\ mem_size >= 1 /\ mem_size <= totsize /\ mem_size <= MaxMem /\ MaxMem \in Nat
  BY StreamFacts
<1>2. Cut(stream, 0) = 0
  BY Zenon DEF Cut
<1>3. PICK m \in Nat, t \in Nat : m = mem_size /\ t = totsize /\ m >= 1 /\ m <= t /\ m <= MaxMem
  BY <1>1
<1>4. CellsHold([a \in 0 .. mem_size - 1 |-> a], 0, mem_size, 0)
  <2>1. [a \in 0 .. m - 1 |-> a] \in [0 .. m - 1 -> 0 .. t - 1]
    BY <1>3
  <2>2. ASSUME NEW a \in 0 .. m - 1 PROVE [b \in 0 .. m - 1 |-> b][0 + a] = 0 + a
    OBVIOUS
  <2>3. 0 + m <= m
    OBVIOUS
  <2> QED BY <1>2, <1>3, <2>1, <2>2, <2>3, Zenon DEF CellsHold
<1>5. Fed(<<>>)
  BY DEF Fed
<1>6. /\ t - m \in Nat /\ m \in 0 .. MaxMem /\ 0 \in 0 .. MaxMem /\ t - m \in 0 .. t
      /\ m + (t - m) = t - 0 /\ 0 + m = m
  BY <1>1, <1>3
<1>7. Unfed(0) = t - 0
  BY <1>2, <1>3, Zenon DEF Unfed
<1>8. 0 < NumFrames
  BY <1>1
<1>9. Len(<<>>) = 0 /\ <<>> \in Seq(Pieces) /\ 0 \in Nat
  OBVIOUS
<1> QED BY <1>3, <1>4, <1>5, <1>6, <1>7, <1>8, <1>9, Zenon

\* The invariant holds when the first fill is done, and while the reader is off.
LEMMA ReaderInitInv == stream \in Fitting /\ (ReaderInit \/ ReaderOff) => ReaderInv
<1> SUFFICES ASSUME stream \in Fitting, ReaderInit \/ ReaderOff PROVE ReaderInv
  OBVIOUS
<1>1. ASSUME ReaderOff PROVE ReaderInv
  <2>1. /\ stream \in Fitting /\ p_cur = 0 /\ size = 0 /\ bytes_left_in_file = 0
        /\ reader = "off" /\ fed = <<>>
    BY <1>1, Zenon DEF ReaderOff
  <2>2. totsize \in Nat /\ MaxMem \in Nat
    BY <2>1, StreamFacts
  <2>3. p_cur \in 0 .. MaxMem /\ size \in 0 .. MaxMem /\ bytes_left_in_file \in 0 .. totsize
    BY <2>1, <2>2
  <2>4. reader \notin {"frames", "left"} /\ reader # "done" /\ reader \in {"off", "frames", "left", "done"}
    BY <2>1
  <2>5. fed \in Seq(Pieces)
    BY <2>1
  <2> QED BY <2>1, <2>3, <2>4, <2>5, Zenon DEF ReaderInv, Pieces
<1>2. ASSUME ReaderInit PROVE ReaderInv
  <2>1. /\ stream \in Fitting
        /\ es = [a \in 0 .. mem_size - 1 |-> a]
        /\ p_cur = 0 /\ size = mem_size /\ bytes_left_in_file = totsize - mem_size
        /\ reader = "frames" /\ fed = <<>>
    BY <1>2, Zenon DEF ReaderInit
  <2>2. /\ CellsHold([a \in 0 .. mem_size - 1 |-> a], 0, mem_size, 0) /\ Fed(<<>>)
        /\ mem_size \in Nat /\ totsize - mem_size \in Nat /\ 0 \in Nat
        /\ mem_size \in 0 .. MaxMem /\ 0 \in 0 .. MaxMem /\ totsize - mem_size \in 0 .. totsize
        /\ mem_size + (totsize - mem_size) = Unfed(0) /\ 0 < NumFrames /\ 0 + mem_size = mem_size
        /\ Len(<<>>) = 0 /\ <<>> \in Seq(Pieces)
    BY <2>1, FreshFill
  <2>3. Window
    BY <2>1, <2>2, Zenon DEF Window
  <2>4. reader # "off" /\ reader # "done" /\ reader \in {"off", "frames", "left", "done"}
    BY <2>1
  <2> QED BY <2>1, <2>2, <2>3, <2>4, Zenon DEF ReaderInv, Pieces
<1> QED BY <1>1, <1>2, Zenon

\* Nothing changes but the reader's place in its loop.
LEMMA NoFrameKeeps == ReaderInv /\ NoFrame => ReaderInv'
<1>1. SUFFICES ASSUME ReaderInv, NoFrame PROVE ReaderInv'
  OBVIOUS
<1>2. /\ reader = "frames" /\ reader' = "left"
      /\ stream' = stream /\ es' = es /\ p_cur' = p_cur /\ size' = size
      /\ bytes_left_in_file' = bytes_left_in_file /\ fed' = fed
  BY <1>1, Zenon DEF NoFrame
<1>3. /\ stream \in Fitting /\ Window /\ p_cur \in 0 .. MaxMem /\ size \in 0 .. MaxMem
      /\ bytes_left_in_file \in 0 .. totsize /\ fed \in Seq(Pieces)
  BY <1>1, <1>2, Zenon DEF ReaderInv, Pieces
<1>4. Window'
  BY <1>2, <1>3, Zenon DEF Window, CellsHold, Fed, FramePiece, FrameOf, Unfed, NumFrames, mem_size, totsize
<1>5. totsize' = totsize
  BY <1>2, Zenon DEF totsize
<1>6. reader' # "off" /\ reader' # "done" /\ reader' \in {"off", "frames", "left", "done"}
  BY <1>2
<1> QED BY <1>2, <1>3, <1>4, <1>5, <1>6, Zenon DEF ReaderInv, Pieces

\* A loop starts again with a fresh fill.
LEMMA RepeatKeeps == ReaderInv /\ Repeat => ReaderInv'
<1>1. SUFFICES ASSUME ReaderInv, Repeat PROVE ReaderInv'
  OBVIOUS
<1>2. /\ stream' = stream /\ reader' = "frames" /\ fed' = <<>>
      /\ es' = [a \in 0 .. mem_size - 1 |-> a]
      /\ p_cur' = 0 /\ size' = mem_size /\ bytes_left_in_file' = totsize - mem_size
  BY <1>1, Zenon DEF Repeat
<1>3. stream \in Fitting
  BY <1>1, Zenon DEF ReaderInv
<1>4. /\ CellsHold([a \in 0 .. mem_size - 1 |-> a], 0, mem_size, 0) /\ Fed(<<>>)
      /\ mem_size \in Nat /\ totsize - mem_size \in Nat /\ 0 \in Nat
      /\ mem_size \in 0 .. MaxMem /\ 0 \in 0 .. MaxMem /\ totsize - mem_size \in 0 .. totsize
      /\ mem_size + (totsize - mem_size) = Unfed(0) /\ 0 < NumFrames /\ 0 + mem_size = mem_size
      /\ Len(<<>>) = 0 /\ <<>> \in Seq(Pieces)
  BY <1>3, FreshFill
<1>5. Window'
  <2>1. PICK p \in Nat, z \in Nat, left \in Nat : p = 0 /\ z = mem_size /\ left = totsize - mem_size
    BY <1>4, Zenon
  <2>2. PICK cells, given : cells = [a \in 0 .. mem_size - 1 |-> a] /\ given = <<>>
    OBVIOUS
  <2>3. /\ p_cur' = p /\ size' = z /\ bytes_left_in_file' = left /\ es' = cells /\ fed' = given
        /\ Len(given) < NumFrames /\ z + left = Unfed(Len(given)) /\ (left # 0 => p + z = mem_size)
        /\ CellsHold(cells, p, z, Len(given)) /\ Fed(given)
    BY <1>2, <1>4, <2>1, <2>2, Zenon
  <2> QED BY <1>2, <2>3, WindowMade
<1>6. totsize' = totsize
  BY <1>2, Zenon DEF totsize
<1>7. reader' # "off" /\ reader' # "done" /\ reader' \in {"off", "frames", "left", "done"}
  BY <1>2
<1> QED BY <1>2, <1>3, <1>4, <1>5, <1>6, <1>7, Zenon DEF ReaderInv, Pieces

\* A piece more behind the frames fed.
LEMMA OneMoreFed ==
  ASSUME fed \in Seq(Pieces), NEW piece \in Pieces, NEW i \in Nat, i = Len(fed), Fed(fed)
  PROVE  /\ Append(fed, piece) \in Seq(Pieces) /\ Len(Append(fed, piece)) = i + 1
         /\ \A k \in 1 .. i : Append(fed, piece)[k] = FramePiece(k)
         /\ Append(fed, piece)[i + 1] = piece
<1>1. /\ Append(fed, piece) \in Seq(Pieces) /\ Len(Append(fed, piece)) = i + 1
      /\ \A k \in 1 .. i : Append(fed, piece)[k] = fed[k]
      /\ Append(fed, piece)[i + 1] = piece
  BY AppendProperties
<1>2. DOMAIN fed = 1 .. i
  OBVIOUS
<1> QED BY <1>1, <1>2, Zenon DEF Fed

\* The refill continues the file behind what has moved to the front.
LEMMA RefillHolds ==
  ASSUME stream \in Fitting, Window, fed \in Seq(Pieces), NEW i, i = Len(fed),
         NEW n, n = FillAtCur(bytes_left_in_file)
  PROVE  /\ n \in Nat /\ n <= bytes_left_in_file /\ size + n <= mem_size
         /\ n # bytes_left_in_file => size + n = mem_size
         /\ CellsHold(Refilled(n), 0, size + n, i)
<1>1. /\ p_cur \in Nat /\ size \in Nat /\ bytes_left_in_file \in Nat
      /\ i < NumFrames /\ size + bytes_left_in_file = Unfed(i)
      /\ es \in [0 .. mem_size - 1 -> 0 .. totsize - 1]
      /\ p_cur + size <= mem_size
      /\ \A a \in 0 .. size - 1 : es[p_cur + a] = Cut(stream, i) + a
  BY Zenon DEF Window, CellsHold
<1>2. mem_size \in Nat /\ totsize \in Nat /\ NumFrames \in Nat
  BY StreamFacts
<1>3. i \in Nat
  OBVIOUS
<1>4. i \in 0 .. NumFrames
  BY <1>1, <1>2, <1>3
<1>5. PICK x \in Nat : x = Cut(stream, i)
  BY <1>4, StreamFacts
<1>6. PICK m \in Nat, t \in Nat, z \in Nat, left \in Nat, p \in Nat :
        /\ m = mem_size /\ t = totsize /\ z = size /\ left = bytes_left_in_file /\ p = p_cur
        /\ p + z <= m /\ z + left = t - x
  <2>1. PICK m \in Nat, t \in Nat, z \in Nat, left \in Nat, p \in Nat :
          m = mem_size /\ t = totsize /\ z = size /\ left = bytes_left_in_file /\ p = p_cur
    BY <1>1, <1>2
  <2>2. Unfed(i) = t - x
    BY <1>5, <2>1, Zenon DEF Unfed
  <2>3. p + z <= m /\ z + left = t - x
    BY <1>1, <2>1, <2>2, Zenon
  <2> QED BY <2>1, <2>3, Zenon
<1>7. n = IF m - z >= left THEN left ELSE m - z
  BY <1>6, Zenon DEF FillAtCur
<1>8. n \in Nat /\ n <= left /\ z + n <= m /\ (n # left => z + n = m)
  BY <1>6, <1>7
<1> DEFINE cells == [a \in 0 .. m - 1 |->
              IF a < z THEN es[p + a] ELSE IF a < z + n THEN t - left + a - z ELSE es[a]]
<1>9. Refilled(n) = cells
  BY <1>6, Zenon DEF Refilled
<1>10. es \in [0 .. m - 1 -> 0 .. t - 1] /\ \A a \in 0 .. z - 1 : es[p + a] = x + a
  BY <1>1, <1>5, <1>6, Zenon
<1>11. cells \in [0 .. m - 1 -> 0 .. t - 1]
  <2>1. ASSUME NEW a \in 0 .. m - 1 PROVE cells[a] \in 0 .. t - 1
    <3>1. CASE a < z
      <4>1. p + a \in 0 .. m - 1
        BY <1>6, <3>1
      <4>2. cells[a] = es[p + a]
        BY <3>1
      <4> HIDE DEF cells
      <4> QED BY <1>10, <4>1, <4>2
    <3>2. CASE ~ (a < z) /\ a < z + n
      <4>1. t - left + a - z \in 0 .. t - 1
        BY <1>6, <1>8, <3>2
      <4>2. cells[a] = t - left + a - z
        BY <3>2
      <4> HIDE DEF cells
      <4> QED BY <4>1, <4>2
    <3>3. CASE ~ (a < z) /\ ~ (a < z + n)
      <4>1. cells[a] = es[a]
        BY <3>3
      <4> HIDE DEF cells
      <4> QED BY <1>10, <4>1
    <3> QED BY <3>1, <3>2, <3>3
  <2> QED BY <2>1
<1>12. ASSUME NEW a \in 0 .. z + n - 1 PROVE cells[0 + a] = x + a
  <2>1. a \in 0 .. m - 1 /\ 0 + a = a
    BY <1>8
  <2>2. CASE a < z
    <3>1. cells[a] = es[p + a] /\ a \in 0 .. z - 1
      BY <2>1, <2>2
    <3> HIDE DEF cells
    <3> QED BY <1>10, <2>1, <3>1
  <2>3. CASE ~ (a < z)
    <3>1. a < z + n
      BY <1>8
    <3>2. cells[a] = t - left + a - z
      BY <2>1, <2>3, <3>1
    <3>3. t - left + a - z = x + a
      BY <1>6
    <3> HIDE DEF cells
    <3> QED BY <2>1, <3>2, <3>3
  <2> QED BY <2>2, <2>3
<1> HIDE DEF cells
<1>13. CellsHold(Refilled(n), 0, size + n, i)
  <2>1. 0 + (size + n) <= mem_size
    BY <1>6, <1>8
  <2>2. cells \in [0 .. mem_size - 1 -> 0 .. totsize - 1]
    BY <1>6, <1>11, Zenon
  <2>3. \A a \in 0 .. (size + n) - 1 : cells[0 + a] = Cut(stream, i) + a
    <3>1. SUFFICES ASSUME NEW a \in 0 .. (size + n) - 1 PROVE cells[0 + a] = Cut(stream, i) + a
      OBVIOUS
    <3>2. a \in 0 .. z + n - 1
      <4>1. z = size
        BY <1>6
      <4> QED BY <1>8, <3>1, <4>1, SMT
    <3>3. cells[0 + a] = x + a
      BY <1>12, <3>2
    <3> QED BY <1>5, <3>3, Zenon
  <2> QED BY <1>9, <2>1, <2>2, <2>3, Zenon DEF CellsHold
<1> QED BY <1>6, <1>8, <1>13, Zenon

\* The rest moves to the front and what is read continues it.
LEMMA RefillKeeps == ReaderInv /\ Refill => ReaderInv'
<1>1. SUFFICES ASSUME ReaderInv, Refill PROVE ReaderInv'
  OBVIOUS
<1>2. PICK n : /\ n = FillAtCur(bytes_left_in_file)
               /\ reader = "left" /\ reader' = "frames" /\ stream' = stream /\ fed' = fed
               /\ es' = Refilled(n) /\ size' = size + n
               /\ bytes_left_in_file' = bytes_left_in_file - n /\ p_cur' = 0
  BY <1>1, Zenon DEF Refill
<1>3. /\ stream \in Fitting /\ Window /\ fed \in Seq(Pieces) /\ bytes_left_in_file \in 0 .. totsize
  BY <1>1, <1>2, Zenon DEF ReaderInv, Pieces
<1>4. PICK i : i = Len(fed)
  OBVIOUS
<1>5. /\ n \in Nat /\ n <= bytes_left_in_file /\ size + n <= mem_size
      /\ n # bytes_left_in_file => size + n = mem_size
      /\ CellsHold(Refilled(n), 0, size + n, i)
  BY <1>2, <1>3, <1>4, RefillHolds
<1>6. /\ size \in Nat /\ bytes_left_in_file \in Nat /\ Fed(fed)
      /\ i < NumFrames /\ size + bytes_left_in_file = Unfed(i)
  BY <1>3, <1>4, Zenon DEF Window
<1>7. mem_size \in Nat /\ totsize \in Nat /\ MaxMem \in Nat /\ mem_size <= MaxMem
  BY <1>3, StreamFacts
<1>8. PICK p \in Nat, z \in Nat, left \in Nat :
        /\ p = 0 /\ z = size + n /\ left = bytes_left_in_file - n
        /\ z + left = size + bytes_left_in_file /\ (left # 0 => p + z = mem_size)
        /\ p \in 0 .. MaxMem /\ z \in 0 .. MaxMem /\ left \in 0 .. totsize
  <2>1. /\ size + n \in Nat /\ bytes_left_in_file - n \in Nat /\ 0 \in Nat
        /\ (size + n) + (bytes_left_in_file - n) = size + bytes_left_in_file
        /\ bytes_left_in_file - n # 0 => 0 + (size + n) = mem_size
        /\ 0 \in 0 .. MaxMem /\ size + n \in 0 .. MaxMem /\ bytes_left_in_file - n \in 0 .. totsize
    BY <1>3, <1>5, <1>6, <1>7
  <2> QED BY <2>1, Zenon
<1>9. Window'
  <2>1. PICK cells, given : cells = Refilled(n) /\ given = fed
    OBVIOUS
  <2>2. /\ p_cur' = p /\ size' = z /\ bytes_left_in_file' = left /\ es' = cells /\ fed' = given
        /\ Len(given) < NumFrames /\ z + left = Unfed(Len(given)) /\ (left # 0 => p + z = mem_size)
        /\ CellsHold(cells, p, z, Len(given)) /\ Fed(given)
    BY <1>2, <1>4, <1>5, <1>6, <1>8, <2>1, Zenon
  <2> QED BY <1>2, <2>2, WindowMade
<1>10. totsize' = totsize
  BY <1>2, Zenon DEF totsize
<1>11. reader' # "off" /\ reader' # "done" /\ reader' \in {"off", "frames", "left", "done"}
  BY <1>2
<1> QED BY <1>2, <1>3, <1>8, <1>9, <1>10, <1>11, Zenon DEF ReaderInv, Pieces

\* While frames are read some of the file is left.
LEMMA SomeLeft ==
  ASSUME stream \in Fitting, Window, fed \in Seq(Pieces), NEW i, i = Len(fed)
  PROVE  i \in Nat /\ i \in 0 .. NumFrames - 1 /\ i + 1 \in 1 .. NumFrames
         /\ size + bytes_left_in_file = Unfed(i) /\ Unfed(i) # 0
<1>1. i < NumFrames /\ size + bytes_left_in_file = Unfed(i)
  BY Zenon DEF Window
<1>2. NumFrames \in Nat
  BY StreamFacts
<1>3. i \in Nat
  OBVIOUS
<1>4. i \in 0 .. NumFrames - 1 /\ i + 1 \in 1 .. NumFrames
  BY <1>1, <1>2, <1>3
<1>5. Unfed(i) # 0
  <2>1. Unfed(i) \in Nat /\ Unfed(i) >= 1
    BY <1>4, RestFacts
  <2> QED BY <2>1
<1> QED BY <1>1, <1>3, <1>4, <1>5

\* The end code follows the last frame, or the trunk.
LEMMA FeedEosKeeps == ReaderInv /\ FeedEos => ReaderInv'
<1>1. SUFFICES ASSUME ReaderInv, FeedEos PROVE ReaderInv'
  OBVIOUS
<1>2. /\ reader = "left" /\ TrunkDone /\ fed' = Append(fed, Piece(es, 0, 0, 0)) /\ reader' = "done"
      /\ stream' = stream /\ test_decode_one_trunk' = test_decode_one_trunk
      /\ p_cur' = p_cur /\ size' = size /\ bytes_left_in_file' = bytes_left_in_file
  BY <1>1, Zenon DEF FeedEos
<1>3. /\ stream \in Fitting /\ Window /\ p_cur \in 0 .. MaxMem /\ size \in 0 .. MaxMem
      /\ bytes_left_in_file \in 0 .. totsize /\ fed \in Seq(Pieces)
  BY <1>1, <1>2, Zenon DEF ReaderInv, Pieces
<1>4. PICK i : i = Len(fed)
  OBVIOUS
<1>5. i \in Nat /\ i + 1 \in 1 .. NumFrames /\ size + bytes_left_in_file = Unfed(i) /\ Unfed(i) # 0
  BY <1>3, <1>4, SomeLeft
<1>6. test_decode_one_trunk
  <2>1. ~ (size = 0 /\ bytes_left_in_file = 0)
    <3>1. size = 0 /\ bytes_left_in_file = 0 => size + bytes_left_in_file = 0
      OBVIOUS
    <3> QED BY <1>5, <3>1, Zenon
  <2> QED BY <1>2, <2>1, Zenon DEF TrunkDone
<1>7. PICK piece \in Pieces : piece = Piece(es, 0, 0, 0) /\ piece.bytes = <<>> /\ piece.num_pics = 0
  <2>1. Piece(es, 0, 0, 0) = [bytes |-> [k \in 1 .. 0 |-> es[0 + k - 1]], num_pics |-> 0]
    BY Zenon DEF Piece
  <2>2. [k \in 1 .. 0 |-> es[0 + k - 1]] = <<>>
    OBVIOUS
  <2>3. <<>> \in Seq(Nat) /\ 0 \in Nat
    OBVIOUS
  <2>4. PICK none : none = <<>> /\ none \in Seq(Nat)
    BY <2>3
  <2>5. Piece(es, 0, 0, 0) = [bytes |-> none, num_pics |-> 0]
    BY <2>1, <2>2, <2>4, Zenon
  <2>6. PICK piece \in Pieces : piece = [bytes |-> none, num_pics |-> 0]
    BY <2>3, <2>4, Zenon DEF Pieces
  <2> QED BY <2>4, <2>5, <2>6
<1>8. Fed(fed)
  BY <1>3, Zenon DEF Window
<1>9. /\ Append(fed, piece) \in Seq(Pieces) /\ Len(Append(fed, piece)) = i + 1
      /\ \A k \in 1 .. i : Append(fed, piece)[k] = FramePiece(k)
      /\ Append(fed, piece)[i + 1] = piece
  BY <1>3, <1>4, <1>5, <1>8, OneMoreFed
<1>10. PICK given : given = Append(fed, piece) /\ fed' = given
  BY <1>2, <1>7, Zenon
<1>11. /\ given \in Seq(Pieces) /\ Len(given) = i + 1 /\ given[i + 1] = piece
       /\ \A k \in 1 .. Len(given) - 1 : given[k] = FramePiece(k)
  <2>1. (i + 1) - 1 = i
    BY <1>5
  <2> QED BY <1>9, <1>10, <2>1, Zenon
<1>12. Ended'
  <2>1. NumFrames' = NumFrames /\ \A k : FramePiece(k)' = FramePiece(k)
    BY <1>2, Zenon DEF NumFrames, FramePiece, FrameOf
  <2> QED BY <1>2, <1>5, <1>6, <1>7, <1>10, <1>11, <2>1, Zenon DEF Ended, FramePiece, FrameOf
<1>13. totsize' = totsize
  BY <1>2, Zenon DEF totsize
<1>14. reader' # "off" /\ reader' \notin {"frames", "left"} /\ reader' \in {"off", "frames", "left", "done"}
  BY <1>2
<1> QED BY <1>2, <1>3, <1>10, <1>11, <1>12, <1>13, <1>14, Zenon DEF ReaderInv, Pieces

\* The last piece is what is left of the file, and its frames are counted.
LEMMA FeedLastKeeps == ReaderInv /\ FeedLast => ReaderInv'
<1>1. SUFFICES ASSUME ReaderInv, FeedLast PROVE ReaderInv'
  OBVIOUS
<1>2. PICK beyond \in Beyond : \E n :
        /\ n = FillAtCur(bytes_left_in_file)
        /\ bytes_left_in_file = n
        /\ reader = "left" /\ reader' = "done" /\ stream' = stream
        /\ es' = Refilled(n) /\ size' = size + n /\ bytes_left_in_file' = 0 /\ p_cur' = 0
        /\ fed' = Append(fed, Piece(Refilled(n), 0, size + n,
                                    FrameCount(stream.type, BytesOf(Refilled(n), beyond), size + n)))
  <2>1. PICK n : /\ n = FillAtCur(bytes_left_in_file) /\ LastPiece(n)
                 /\ es' = Refilled(n) /\ size' = size + n /\ bytes_left_in_file' = 0
                 /\ \E beyond \in Beyond :
                      fed' = Append(fed, Piece(es', 0, size + n,
                                     FrameCount(stream.type, BytesOf(es', beyond), size + n)))
    BY <1>1, Zenon DEF FeedLast
  <2>2. reader = "left" /\ reader' = "done" /\ stream' = stream /\ p_cur' = 0
    BY <1>1, Zenon DEF FeedLast
  <2>3. bytes_left_in_file = n
    BY <2>1, Zenon DEF LastPiece
  <2>4. PICK beyond \in Beyond : fed' = Append(fed, Piece(es', 0, size + n,
                                     FrameCount(stream.type, BytesOf(es', beyond), size + n)))
    BY <2>1, Zenon
  <2>5. fed' = Append(fed, Piece(Refilled(n), 0, size + n,
                                 FrameCount(stream.type, BytesOf(Refilled(n), beyond), size + n)))
    BY <2>1, <2>4, Zenon
  <2> QED BY <2>1, <2>2, <2>3, <2>5, Zenon
<1>30. PICK n :
        /\ n = FillAtCur(bytes_left_in_file)
        /\ bytes_left_in_file = n
        /\ reader = "left" /\ reader' = "done" /\ stream' = stream
        /\ es' = Refilled(n) /\ size' = size + n /\ bytes_left_in_file' = 0 /\ p_cur' = 0
        /\ fed' = Append(fed, Piece(Refilled(n), 0, size + n,
                                    FrameCount(stream.type, BytesOf(Refilled(n), beyond), size + n)))
  BY <1>2, Zenon
<1>3. /\ stream \in Fitting /\ Window /\ fed \in Seq(Pieces)
  BY <1>1, <1>30, Zenon DEF ReaderInv, Pieces
<1>4. PICK i : i = Len(fed)
  OBVIOUS
<1>5. /\ n \in Nat /\ size + n <= mem_size
      /\ CellsHold(Refilled(n), 0, size + n, i)
  BY <1>30, <1>3, <1>4, RefillHolds
<1>6. /\ i \in Nat /\ i \in 0 .. NumFrames - 1 /\ i + 1 \in 1 .. NumFrames
      /\ size + bytes_left_in_file = Unfed(i)
  BY <1>3, <1>4, SomeLeft
<1>7. /\ mem_size \in Nat /\ totsize \in Nat /\ MaxMem \in Nat /\ mem_size <= MaxMem /\ NumFrames \in Nat
  BY <1>3, StreamFacts
<1>8. PICK length \in Nat : length = size + n /\ length = Unfed(i)
  <2>1. size \in Nat /\ bytes_left_in_file \in Nat
    BY <1>3, Zenon DEF Window
  <2> QED BY <1>30, <1>5, <1>6, <2>1
<1>9. PICK cells : cells = Refilled(n)
  OBVIOUS
<1>10. CellsHold(cells, 0, length, i) /\ length <= mem_size
  BY <1>5, <1>8, <1>9, Zenon
<1>11. PICK buf : buf = BytesOf(cells, beyond)
  OBVIOUS
<1>12. Shows(buf, 0, stream, i, length)
  <2>1. 0 \in Nat
    OBVIOUS
  <2>2. Shows(BytesOf(cells, beyond), 0, stream, i, length)
    BY <1>3, <1>6, <1>10, <2>1, BufferShows
  <2> QED BY <1>11, <2>2, Zenon
<1>13. buf[length] \in 0 .. 255
  <2>1. length \in 0 .. mem_size
    BY <1>7, <1>10
  <2>2. buf[length] = IF length = mem_size THEN beyond ELSE stream.bytes[cells[length] + 1]
    BY <1>11, <2>1, Zenon DEF BytesOf
  <2>3. CASE length = mem_size
    <3>1. beyond \in 0 .. 255
      BY FrameReaderAssumption
    <3> QED BY <2>2, <2>3, <3>1, Zenon
  <2>4. CASE length # mem_size
    <3>1. length \in 0 .. mem_size - 1
      BY <1>7, <2>1, <2>4
    <3>2. cells[length] \in 0 .. totsize - 1
      <4>1. cells \in [0 .. mem_size - 1 -> 0 .. totsize - 1]
        BY <1>10, Zenon DEF CellsHold
      <4> QED BY <3>1, <4>1
    <3>3. PICK e \in 1 .. totsize : e = cells[length] + 1
      BY <1>7, <3>2
    <3>4. PICK bytes \in Seq(0 .. 255) : bytes = stream.bytes
      BY <1>3, FrameReaderAssumption DEF Fitting
    <3>5. totsize = Len(bytes)
      BY <3>4, Zenon DEF totsize
    <3>7. e \in 1 .. Len(bytes)
      BY <3>3, <3>5, Zenon
    <3>6. bytes[e] \in 0 .. 255
      BY <3>4, <3>7, ElementOfSeq
    <3> QED BY <2>2, <2>4, <3>3, <3>4, <3>6, Zenon
  <2> QED BY <2>3, <2>4
<1>14. FrameCount(stream.type, buf, length) = NumFrames - i
  <2>10. PICK s \in Fitting : s = stream
    BY <1>3
  <2>1. PICK m, end : m = Len(s.frames) /\ m = NumFrames /\ end = Len(s.bytes) /\ end = totsize
    BY <2>10 DEF NumFrames, totsize
  <2>2. i \in 0 .. m - 1 /\ length = end - Cut(s, i) /\ Shows(buf, 0, s, i, length)
    BY <1>6, <1>8, <1>12, <2>1, <2>10, Zenon DEF Unfed
  <2>4. /\ m = Len(s.frames) /\ end = Len(s.bytes) /\ i \in 0 .. m - 1 /\ length = end - Cut(s, i)
        /\ Shows(buf, 0, s, i, length) /\ buf[length] \in 0 .. 255
    BY <1>13, <2>1, <2>2, Zenon
  <2>3. FrameCount(s.type, buf, length) = m - i
    BY <1>8, <2>4, <2>10, FramesCounted
  <2> QED BY <2>1, <2>3, <2>10, Zenon
<1>15. PICK num \in Nat : num = NumFrames - i
  BY <1>6, <1>7
<1>16. PICK piece \in Pieces : piece = LastOf(i) /\ fed' = Append(fed, piece)
  <2>1. Cut(stream, i) \in Nat
    <3>1. i \in 0 .. NumFrames
      BY <1>6, <1>7
    <3> QED BY <1>3, <3>1, StreamFacts
  <2>2. 0 \in Nat /\ length <= length
    OBVIOUS
  <2>3. /\ Piece(cells, 0, length, num) = [bytes |-> Places(Cut(stream, i), length), num_pics |-> num]
        /\ Places(Cut(stream, i), length) \in Seq(Nat)
    BY <1>10, <2>1, <2>2, PieceMade
  <2>4. LastOf(i) = [bytes |-> Places(Cut(stream, i), length), num_pics |-> num]
    BY <1>8, <1>15, Zenon DEF LastOf, Places
  <2>5. fed' = Append(fed, Piece(cells, 0, length, num))
    BY <1>30, <1>8, <1>9, <1>11, <1>14, <1>15, Zenon
  <2>6. LastOf(i) \in Pieces
    <3>1. PICK places \in Seq(Nat) : places = Places(Cut(stream, i), length)
      BY <2>3
    <3>2. [bytes |-> places, num_pics |-> num] \in Pieces
      BY Zenon DEF Pieces
    <3> QED BY <2>4, <3>1, <3>2, Zenon
  <2> QED BY <2>3, <2>4, <2>5, <2>6, Zenon
<1>17. Fed(fed)
  BY <1>3, Zenon DEF Window
<1>18. /\ Append(fed, piece) \in Seq(Pieces) /\ Len(Append(fed, piece)) = i + 1
       /\ \A k \in 1 .. i : Append(fed, piece)[k] = FramePiece(k)
       /\ Append(fed, piece)[i + 1] = piece
  BY <1>3, <1>4, <1>6, <1>17, OneMoreFed
<1>19. PICK given : given = Append(fed, piece) /\ fed' = given
  BY <1>16, Zenon
<1>20. /\ given \in Seq(Pieces) /\ Len(given) = i + 1 /\ Len(given) - 1 = i /\ given[Len(given)] = LastOf(i)
       /\ \A k \in 1 .. Len(given) - 1 : given[k] = FramePiece(k)
  <2>1. (i + 1) - 1 = i
    BY <1>6
  <2> QED BY <1>16, <1>18, <1>19, <2>1, Zenon
<1>21. totsize' = totsize /\ NumFrames' = NumFrames
  BY <1>30, Zenon DEF totsize, NumFrames
<1>22. Ended'
  <2>1. \A k : FramePiece(k)' = FramePiece(k)
    BY <1>30, Zenon DEF FramePiece, FrameOf
  <2>2. \A k : LastOf(k)' = LastOf(k)
    BY <1>30, <1>21, Zenon DEF LastOf, Unfed
  <2>3. Len(given) \in 1 .. NumFrames
    BY <1>6, <1>20, Zenon
  <2>4. (LastOf(Len(fed) - 1))' = LastOf(Len(given) - 1)
    BY <1>30, <1>19, <1>21, Zenon DEF LastOf, Unfed
  <2> QED BY <1>19, <1>20, <1>21, <2>1, <2>3, <2>4, Zenon DEF Ended, FramePiece, FrameOf
<1>23. reader' # "off" /\ reader' \notin {"frames", "left"} /\ reader' \in {"off", "frames", "left", "done"}
  BY <1>30
<1>24. 0 \in 0 .. MaxMem /\ length \in 0 .. MaxMem /\ 0 \in 0 .. totsize
  BY <1>7, <1>10
<1> QED BY <1>30, <1>3, <1>8, <1>19, <1>20, <1>21, <1>22, <1>23, <1>24, Zenon DEF ReaderInv, Pieces

\* Each action of the reader keeps the invariant.
LEMMA ReaderInvInductive == ReaderInv /\ [ReaderNext]_readerVars => ReaderInv'
<1>1. ASSUME ReaderInv, ReaderNext PROVE ReaderInv'
  <2>1. ~ Crash
    <3>1. size \in 0 .. MaxMem /\ MaxMem \in Nat /\ DATA_PARSE_MIN_SIZE \in Nat
      BY <1>1, FrameReaderAssumption DEF ReaderInv
    <3>2. size # WrappedSize
      BY <3>1 DEF WrappedSize
    <3> QED BY <3>2 DEF Crash
  <2> QED BY <1>1, <2>1, FeedFrameKeeps, NoFrameKeeps, RepeatKeeps, FeedEosKeeps, FeedLastKeeps,
             RefillKeeps, Zenon DEF ReaderNext
<1>2. ASSUME ReaderInv, UNCHANGED readerVars PROVE ReaderInv'
  <2>1. /\ stream' = stream /\ test_decode_one_trunk' = test_decode_one_trunk /\ es' = es
        /\ p_cur' = p_cur /\ size' = size /\ bytes_left_in_file' = bytes_left_in_file
        /\ reader' = reader /\ fed' = fed
    BY <1>2, Zenon DEF readerVars
  <2>2. Window' = Window
    BY <2>1, Zenon DEF Window, CellsHold, Fed, FramePiece, FrameOf, Unfed, NumFrames, mem_size, totsize
  <2>3. Ended' = Ended
    BY <2>1, Zenon DEF Ended, LastOf, Unfed, FramePiece, FrameOf, NumFrames, totsize
  <2>4. totsize' = totsize
    BY <2>1, Zenon DEF totsize
  <2> QED BY <1>2, <2>1, <2>2, <2>3, <2>4, Zenon DEF ReaderInv
<1> QED BY <1>1, <1>2, Zenon

-----------------------------------------------------------------------------
(* Any file, the frames that are too long with it *)

\* What the scan finds is inside the bytes that it was given.
LEMMA FoundInside ==
  ASSUME NEW type, NEW buf, NEW pstart \in Nat, NEW pend \in Nat, pstart <= pend
  PROVE  NextStartCode(type, buf, pstart, pend) \in 0 .. pend - pstart
<1>1. PICK F : F = Scan(type, buf, pstart)
  OBVIOUS
<1>2. PICK m \in Nat : m = pend - pstart + 1
  OBVIOUS
<1>3. NextStartCode(type, buf, pstart, pend) = F[m].size
  BY <1>1, <1>2, Zenon DEF NextStartCode
<1>4. CASE F[m].size = 0
  BY <1>3, <1>4
<1>5. CASE F[m].size # 0
  <2>1. PICK x \in Nat : FoundAt(F, m, x)
    BY <1>1, <1>5, ScanFinds
  <2>2. x + 1 <= m /\ F[m].size = x - 3 /\ F[x].size = 0 /\ F[x].state = 3
    BY <2>1, Zenon DEF FoundAt
  <2>3. 3 <= x
    <3>1. F[x].state <= x
      BY <1>1, <2>2, ScanWarmsUp
    <3> QED BY <2>2, <3>1
  <2>4. x - 3 \in 0 .. pend - pstart
    BY <1>2, <2>2, <2>3
  <2> QED BY <1>3, <2>2, <2>4
<1> QED BY <1>4, <1>5

LEMMA BufferSizes ==
  ASSUME stream \in Streams
  PROVE  /\ totsize \in Nat /\ mem_size \in Nat /\ mem_size <= totsize /\ mem_size <= MaxMem
         /\ MaxMem \in Nat /\ DATA_PARSE_MIN_SIZE \in Nat
<1>1. PICK bytes \in Seq(0 .. 255) : bytes = stream.bytes
  BY FrameReaderAssumption
<1>2. totsize \in Nat
  BY <1>1, LenProperties DEF totsize
<1>3. MaxMem \in Nat /\ DATA_PARSE_MIN_SIZE \in Nat
  BY FrameReaderAssumption
<1>4. mem_size = IF totsize > MaxMem THEN MaxMem ELSE totsize
  BY Zenon DEF mem_size
<1> HIDE DEF totsize, mem_size
<1> QED BY <1>2, <1>3, <1>4

\* The next byte to look at and what is left of the buffer stay inside it, until size wraps.
CursorFits ==
  /\ stream \in Streams /\ p_cur \in 0 .. mem_size
  /\ size \in 0 .. mem_size \cup {WrappedSize}
  /\ bytes_left_in_file \in 0 .. totsize
  /\ reader \in {"off", "frames", "left", "done", "crashed"}

\* A refill takes what fits.
LEMMA FillFits ==
  ASSUME CursorFits, size # WrappedSize, NEW n, n = FillAtCur(bytes_left_in_file)
  PROVE  n \in Nat /\ size + n \in 0 .. mem_size /\ bytes_left_in_file - n \in 0 .. totsize
<1>1. /\ size \in 0 .. mem_size /\ bytes_left_in_file \in 0 .. totsize
      /\ mem_size \in Nat /\ totsize \in Nat
  BY BufferSizes DEF CursorFits
<1>2. n = IF mem_size - size >= bytes_left_in_file THEN bytes_left_in_file ELSE mem_size - size
  BY Zenon DEF FillAtCur
<1> HIDE DEF mem_size, totsize
<1> QED BY <1>1, <1>2

LEMMA CursorFitsKept == CursorFits /\ [ReaderNext]_readerVars => CursorFits'
<1> SUFFICES ASSUME CursorFits, [ReaderNext]_readerVars PROVE CursorFits'
  OBVIOUS
<1>1. /\ totsize \in Nat /\ mem_size \in Nat /\ mem_size <= totsize /\ mem_size <= MaxMem
      /\ MaxMem \in Nat /\ DATA_PARSE_MIN_SIZE \in Nat
  BY BufferSizes DEF CursorFits
<1>2. /\ stream \in Streams /\ p_cur \in 0 .. mem_size
      /\ size \in 0 .. mem_size \cup {WrappedSize} /\ bytes_left_in_file \in 0 .. totsize
      /\ reader \in {"off", "frames", "left", "done", "crashed"}
  BY Zenon DEF CursorFits
<1>3. stream' = stream
  BY Zenon DEF ReaderNext, FeedFrame, NoFrame, Repeat, FeedEos, FeedLast, Refill, Crash, readerVars
<1>4. mem_size' = mem_size /\ totsize' = totsize /\ WrappedSize' = WrappedSize
  BY <1>3, Zenon DEF mem_size, totsize, WrappedSize
<1>5. SUFFICES /\ p_cur' \in 0 .. mem_size /\ size' \in 0 .. mem_size \cup {WrappedSize}
               /\ bytes_left_in_file' \in 0 .. totsize
               /\ reader' \in {"off", "frames", "left", "done", "crashed"}
  BY <1>2, <1>3, <1>4, Zenon DEF CursorFits
<1>6. CASE UNCHANGED <<p_cur, size, bytes_left_in_file>> /\ reader' \in {reader, "left", "done", "crashed"}
  BY <1>2, <1>6
<1>7. CASE FeedFrame
  <2>1. PICK beyond \in Beyond :
          /\ p_cur' = p_cur + NextStartCode(stream.type, BytesOf(es, beyond), p_cur, mem_size)
          /\ size' = SizeLeft(NextStartCode(stream.type, BytesOf(es, beyond), p_cur, mem_size))
    BY <1>7, Zenon DEF FeedFrame
  <2> PICK c : c = NextStartCode(stream.type, BytesOf(es, beyond), p_cur, mem_size)
    OBVIOUS
  <2>2. bytes_left_in_file' = bytes_left_in_file /\ reader' = reader
    BY <1>7, Zenon DEF FeedFrame
  <2>3. PICK m \in Nat, p \in Nat : m = mem_size /\ p = p_cur /\ p <= m
    BY <1>1, <1>2
  <2>4. PICK buf : buf = BytesOf(es, beyond)
    OBVIOUS
  <2>5. c \in 0 .. m - p
    BY <2>1, <2>3, <2>4, FoundInside
  <2>6. p_cur' \in 0 .. mem_size
    BY <2>1, <2>3, <2>5
  <2>7. size' \in 0 .. mem_size \cup {WrappedSize}
    <3>1. CASE size # WrappedSize /\ c <= size
      <4>1. PICK z \in 0 .. m : z = size
        BY <1>2, <2>3, <3>1
      <4>2. size' = z - c
        BY <2>1, <3>1, <4>1, Zenon DEF SizeLeft
      <4> QED BY <2>3, <2>5, <3>1, <4>1, <4>2
    <3>2. CASE ~ (size # WrappedSize /\ c <= size)
      <4>1. size' = WrappedSize
        BY <2>1, <3>2, Zenon DEF SizeLeft
      <4> QED BY <4>1
    <3> QED BY <3>1, <3>2
  <2> QED BY <1>2, <2>2, <2>6, <2>7
<1>8. CASE Repeat
  <2>1. p_cur' = 0 /\ size' = mem_size /\ bytes_left_in_file' = totsize - mem_size /\ reader' = "frames"
    BY <1>8, Zenon DEF Repeat
  <2> HIDE DEF mem_size, totsize
  <2> QED BY <1>1, <2>1
<1>9. CASE FeedLast
  <2>1. PICK n : /\ n = FillAtCur(bytes_left_in_file) /\ size' = size + n /\ bytes_left_in_file' = 0
                 /\ p_cur' = 0 /\ reader' = "done" /\ size # WrappedSize
    BY <1>9, Zenon DEF FeedLast
  <2>2. size + n \in 0 .. mem_size
    BY <2>1, FillFits
  <2> HIDE DEF mem_size, totsize
  <2> QED BY <1>1, <2>1, <2>2
<1>10. CASE Refill
  <2>1. PICK n : /\ n = FillAtCur(bytes_left_in_file) /\ size' = size + n
                 /\ bytes_left_in_file' = bytes_left_in_file - n
                 /\ p_cur' = 0 /\ reader' = "frames" /\ size # WrappedSize
    BY <1>10, Zenon DEF Refill
  <2>2. size + n \in 0 .. mem_size /\ bytes_left_in_file - n \in 0 .. totsize
    BY <2>1, FillFits
  <2> HIDE DEF mem_size, totsize
  <2> QED BY <1>1, <2>1, <2>2
<1>11. NoFrame \/ FeedEos \/ Crash \/ UNCHANGED readerVars =>
         UNCHANGED <<p_cur, size, bytes_left_in_file>> /\ reader' \in {reader, "left", "done", "crashed"}
  BY Zenon DEF NoFrame, FeedEos, Crash, readerVars
<1> QED BY <1>6, <1>7, <1>8, <1>9, <1>10, <1>11, Zenon DEF ReaderNext

\* The reader in any file: inside its buffer, and right where the frames fit.
ReaderKept == CursorFits /\ (FramesFit(stream) => ReaderInv)

LEMMA ReaderKeptInit == ReaderInit \/ ReaderOff => ReaderKept
<1> SUFFICES ASSUME ReaderInit \/ ReaderOff PROVE ReaderKept
  OBVIOUS
<1>1. stream \in Streams
  BY Zenon DEF ReaderInit, ReaderOff
<1>2. /\ totsize \in Nat /\ mem_size \in Nat /\ mem_size <= totsize
  BY <1>1, BufferSizes
<1>3. CursorFits
  <2>1. /\ p_cur = 0 /\ size \in {0, mem_size} /\ bytes_left_in_file \in {0, totsize - mem_size}
        /\ reader \in {"off", "frames"}
    BY Zenon DEF ReaderInit, ReaderOff
  <2> HIDE DEF mem_size, totsize
  <2>2. /\ p_cur \in 0 .. mem_size /\ size \in 0 .. mem_size \cup {WrappedSize}
        /\ bytes_left_in_file \in 0 .. totsize
    BY <1>2, <2>1
  <2>3. reader \in {"off", "frames", "left", "done", "crashed"}
    BY <2>1
  <2> QED BY <1>1, <2>2, <2>3, Zenon DEF CursorFits
<1>4. FramesFit(stream) => stream \in Fitting
  BY <1>1 DEF Fitting
<1> QED BY <1>3, <1>4, ReaderInitInv, Zenon DEF ReaderKept

LEMMA ReaderKeptInductive == ReaderKept /\ [ReaderNext]_readerVars => ReaderKept'
<1> SUFFICES ASSUME ReaderKept, [ReaderNext]_readerVars PROVE ReaderKept'
  OBVIOUS
<1>1. CursorFits'
  BY CursorFitsKept DEF ReaderKept
<1>2. stream' = stream
  BY Zenon DEF ReaderNext, FeedFrame, NoFrame, Repeat, FeedEos, FeedLast, Refill, Crash, readerVars
<1>3. ASSUME FramesFit(stream)' PROVE ReaderInv'
  <2>1. FramesFit(stream)
    BY <1>2, <1>3, Zenon DEF FramesFit, Cut
  <2> QED BY <2>1, ReaderInvInductive DEF ReaderKept
<1> QED BY <1>1, <1>3, Zenon DEF ReaderKept

\* The invariant holds of the reader in any file.
LEMMA ReaderInvHolds == ReaderSpec => []ReaderKept
BY ReaderKeptInit, ReaderKeptInductive, PTL DEF ReaderSpec

\* Every variable of the reader keeps its type.
LEMMA ReaderTyped == ReaderKept => ReaderTypeOK
<1> SUFFICES ASSUME ReaderKept PROVE ReaderTypeOK
  OBVIOUS
<1>1. mem_size \in Nat /\ mem_size <= MaxMem /\ MaxMem \in Nat
  BY BufferSizes DEF ReaderKept, CursorFits
<1>2. /\ p_cur \in 0 .. mem_size /\ size \in 0 .. mem_size \cup {WrappedSize}
      /\ bytes_left_in_file \in 0 .. totsize
      /\ reader \in {"off", "frames", "left", "done", "crashed"}
  BY Zenon DEF ReaderKept, CursorFits
<1> HIDE DEF mem_size, totsize
<1>3. p_cur \in 0 .. MaxMem /\ size \in 0 .. MaxMem \cup {WrappedSize}
  BY <1>1, <1>2
<1> QED BY <1>2, <1>3, Zenon DEF ReaderTypeOK

LEMMA ReaderTypesKept == ReaderSpec => []ReaderTypeOK
BY ReaderTyped, ReaderInvHolds, PTL

\* The pieces of the invariant are the file, in order, between its cuts.
LEMMA PiecesContinue ==
  ASSUME stream \in Fitting, fed \in Seq(Pieces), NEW n \in Nat, n <= Len(fed), n <= NumFrames,
         \A i \in 1 .. n : fed[i] = FramePiece(i)
  PROVE  /\ \A i \in 1 .. n : /\ fed[i].bytes = FrameOf(i) /\ fed[i].num_pics = 1
                              /\ Len(fed[i].bytes) = Cut(stream, i) - Cut(stream, i - 1)
                              /\ \A k \in DOMAIN fed[i].bytes : fed[i].bytes[k] = Cut(stream, i - 1) + k - 1
         /\ \A i \in 1 .. n + 1 : FedBefore(i) = Cut(stream, i - 1)
<1>1. \A i \in 0 .. NumFrames : Cut(stream, i) \in Nat
  BY StreamFacts
<1>2. NumFrames \in Nat
  BY StreamFacts
<1>3. ASSUME NEW i \in 1 .. n
      PROVE  /\ fed[i].bytes = FrameOf(i) /\ fed[i].num_pics = 1
             /\ Len(fed[i].bytes) = Cut(stream, i) - Cut(stream, i - 1)
             /\ \A k \in DOMAIN fed[i].bytes : fed[i].bytes[k] = Cut(stream, i - 1) + k - 1
             /\ fed[i].bytes[Len(fed[i].bytes)] + 1 = Cut(stream, i)
  <2>1. fed[i] = FramePiece(i)
    OBVIOUS
  <2>2. fed[i].bytes = FrameOf(i) /\ fed[i].num_pics = 1
    BY <2>1 DEF FramePiece
  <2>3. PICK j \in 0 .. NumFrames - 1 : j = i - 1 /\ j + 1 = i /\ j \in 0 .. NumFrames /\ i \in 0 .. NumFrames
    <3>1. i - 1 \in 0 .. NumFrames - 1 /\ (i - 1) + 1 = i /\ i - 1 \in 0 .. NumFrames /\ i \in 0 .. NumFrames
      BY <1>2
    <3> QED BY <3>1
  <2>4. PICK x \in Nat, y \in Nat : x = Cut(stream, j) /\ y = Cut(stream, i)
    BY <1>1, <2>3
  <2>5. DATA_PARSE_MIN_SIZE \in Nat
    BY FrameReaderAssumption
  <2>6. PICK c \in 1 .. DATA_PARSE_MIN_SIZE : c = y - x
    <3>1. Cut(stream, j + 1) - Cut(stream, j) \in 1 .. DATA_PARSE_MIN_SIZE
      BY <2>3, RestFacts
    <3> QED BY <2>3, <2>4, <3>1
  <2>7. PICK f : f = FrameOf(i)
    OBVIOUS
  <2>8. f = [k \in 1 .. c |-> x + k - 1]
    BY <2>3, <2>4, <2>6, <2>7, Zenon DEF FrameOf
  <2>9. Len(f) = c /\ DOMAIN f = 1 .. c /\ c \in 1 .. c
    <3>1. c \in Nat /\ c >= 1
      BY <2>5, <2>6
    <3> QED BY <2>8, <3>1
  <2>10. f[c] + 1 = y
    <3>1. f[c] = x + c - 1
      BY <2>8, <2>9, Zenon
    <3>2. x + c - 1 + 1 = y
      BY <2>4, <2>5, <2>6
    <3> QED BY <3>1, <3>2, Zenon
  <2>11. \A k \in DOMAIN f : f[k] = x + k - 1
    BY <2>8, <2>9, Zenon
  <2> QED BY <2>2, <2>3, <2>4, <2>6, <2>7, <2>9, <2>10, <2>11, Zenon
<1>4. ASSUME NEW i \in 1 .. n + 1 PROVE FedBefore(i) = Cut(stream, i - 1)
  <2>1. CASE i = 1
    <3>1. Cut(stream, 0) = 0
      BY Zenon DEF Cut
    <3> QED BY <2>1, <3>1 DEF FedBefore
  <2>2. CASE i # 1
    <3>1. PICK j \in 1 .. n : j = i - 1
      BY <2>2
    <3>2. FedBefore(i) = fed[j].bytes[Len(fed[j].bytes)] + 1
      BY <2>2, <3>1, Zenon DEF FedBefore
    <3> QED BY <1>3, <3>1, <3>2, Zenon
  <2> QED BY <2>1, <2>2
<1> QED BY <1>3, <1>4

\* With the invariant every byte is fed once, in whole frames, and announced.
LEMMA ReaderInvMeans == ReaderKept => WholeFramesFed
<1>1. SUFFICES ASSUME ReaderInv PROVE NothingLostAtRefill /\ PiecesAreFrames /\ AllFramesAnnounced
  BY Zenon DEF ReaderKept, WholeFramesFed
<1>2. stream \in Fitting /\ fed \in Seq(Pieces) /\ reader \in {"off", "frames", "left", "done"}
  BY <1>1, Zenon DEF ReaderInv, Pieces
<1>3. PICK n \in Nat : n = Len(fed) /\ DOMAIN fed = 1 .. n
  BY <1>2
<1>4. CASE reader # "done"
  <2>1. n <= NumFrames /\ \A i \in 1 .. n : fed[i] = FramePiece(i)
    <3>1. CASE reader = "off"
      <4>1. fed = <<>>
        BY <1>1, <3>1, Zenon DEF ReaderInv
      <4>2. n = 0
        BY <1>3, <4>1
      <4>3. NumFrames \in Nat
        BY <1>2, StreamFacts
      <4>4. 0 <= NumFrames /\ 1 .. 0 = {}
        BY <4>3
      <4> QED BY <4>2, <4>4, Zenon
    <3>2. CASE reader \in {"frames", "left"}
      <4>1. Len(fed) < NumFrames /\ Fed(fed)
        BY <1>1, <3>2, Zenon DEF ReaderInv, Window
      <4>2. NumFrames \in Nat
        BY <1>2, StreamFacts
      <4>3. n <= NumFrames
        BY <1>3, <4>1, <4>2
      <4> QED BY <1>3, <4>1, <4>3, Zenon DEF Fed
    <3> QED BY <1>2, <1>4, <3>1, <3>2
  <2>2. /\ \A i \in 1 .. n : /\ fed[i].bytes = FrameOf(i) /\ fed[i].num_pics = 1
                             /\ Len(fed[i].bytes) = Cut(stream, i) - Cut(stream, i - 1)
                             /\ \A k \in DOMAIN fed[i].bytes : fed[i].bytes[k] = Cut(stream, i - 1) + k - 1
        /\ \A i \in 1 .. n + 1 : FedBefore(i) = Cut(stream, i - 1)
    <3>1. n <= Len(fed)
      BY <1>3
    <3> QED BY <1>2, <2>1, <3>1, PiecesContinue
  <2>3. NothingLostAtRefill
    <3>1. \A i \in 1 .. n : i \in 1 .. n + 1
      OBVIOUS
    <3> QED BY <1>3, <2>2, <3>1, Zenon DEF NothingLostAtRefill
  <2>4. PiecesAreFrames
    BY <1>3, <2>2, Zenon DEF PiecesAreFrames
  <2>5. AllFramesAnnounced
    BY <1>4, Zenon DEF AllFramesAnnounced
  <2> QED BY <2>3, <2>4, <2>5, Zenon
<1>5. CASE reader = "done"
  <2>1. /\ n \in 1 .. NumFrames
        /\ \A i \in 1 .. n - 1 : fed[i] = FramePiece(i)
        /\ \/ test_decode_one_trunk /\ fed[n].bytes = <<>> /\ fed[n].num_pics = 0
           \/ fed[n] = LastOf(n - 1)
    BY <1>1, <1>3, <1>5, Zenon DEF ReaderInv, Ended
  <2>2. NumFrames \in Nat /\ totsize \in Nat
    BY <1>2, StreamFacts
  <2>3. PICK m \in Nat : m = n - 1 /\ m + 1 = n /\ m <= n /\ m <= NumFrames /\ m \in 0 .. NumFrames - 1
                         /\ n \in 1 .. m + 1 /\ (m + 1) - 1 = m
    <3>1. /\ n - 1 \in Nat /\ (n - 1) + 1 = n /\ n - 1 <= n /\ n - 1 <= NumFrames /\ n - 1 \in 0 .. NumFrames - 1
          /\ n \in 1 .. (n - 1) + 1 /\ ((n - 1) + 1) - 1 = n - 1
      BY <2>1, <2>2
    <3> QED BY <3>1
  <2>4. /\ \A i \in 1 .. m : /\ fed[i].bytes = FrameOf(i) /\ fed[i].num_pics = 1
                             /\ Len(fed[i].bytes) = Cut(stream, i) - Cut(stream, i - 1)
                             /\ \A k \in DOMAIN fed[i].bytes : fed[i].bytes[k] = Cut(stream, i - 1) + k - 1
        /\ \A i \in 1 .. m + 1 : FedBefore(i) = Cut(stream, i - 1)
    <3>1. m <= Len(fed) /\ \A i \in 1 .. m : fed[i] = FramePiece(i)
      BY <1>3, <2>1, <2>3, Zenon
    <3> QED BY <1>2, <2>3, <3>1, PiecesContinue
  <2>5. \A i \in 1 .. n : i = n \/ i \in 1 .. m
    BY <2>3
  <2>6. PICK x \in Nat : x = Cut(stream, m) /\ FedBefore(n) = x
    <3>1. Cut(stream, m) \in Nat
      <4>1. m \in 0 .. NumFrames
        BY <2>2, <2>3
      <4> QED BY <1>2, <4>1, StreamFacts
    <3>2. FedBefore(n) = Cut(stream, m)
      BY <2>3, <2>4
    <3> QED BY <3>1, <3>2
  <2>7. PICK r \in Nat : r = Unfed(m) /\ r = totsize - x
    <3>1. Unfed(m) \in Nat /\ Unfed(m) = totsize - Cut(stream, m)
      BY <1>2, <2>3, RestFacts
    <3> QED BY <2>6, <3>1, Zenon
  <2>8. \/ test_decode_one_trunk /\ fed[n].bytes = <<>>
        \/ fed[n].bytes = [k \in 1 .. r |-> x + k - 1] /\ fed[n].num_pics = NumFrames - m
    <3>1. ASSUME fed[n] = LastOf(n - 1)
          PROVE  fed[n].bytes = [k \in 1 .. r |-> x + k - 1] /\ fed[n].num_pics = NumFrames - m
      <4>1. PICK b, c : b = [k \in 1 .. r |-> x + k - 1] /\ c = NumFrames - m
        OBVIOUS
      <4>2. LastOf(n - 1) = [bytes |-> b, num_pics |-> c]
        BY <2>3, <2>6, <2>7, <4>1, Zenon DEF LastOf
      <4>3. fed[n].bytes = b /\ fed[n].num_pics = c
        BY <3>1, <4>2
      <4> QED BY <4>1, <4>3, Zenon
    <3> QED BY <2>1, <3>1, Zenon
  <2>9. \A k \in DOMAIN fed[n].bytes : fed[n].bytes[k] = x + k - 1
    <3>1. CASE fed[n].bytes = <<>>
      BY <3>1
    <3>2. CASE fed[n].bytes = [k \in 1 .. r |-> x + k - 1]
      BY <3>2
    <3> QED BY <2>8, <3>1, <3>2
  <2>10. NothingLostAtRefill
    <3>1. SUFFICES ASSUME NEW i \in 1 .. n
                   PROVE  \A k \in DOMAIN fed[i].bytes : fed[i].bytes[k] = FedBefore(i) + k - 1
      BY <1>3, Zenon DEF NothingLostAtRefill
    <3>2. CASE i = n
      BY <2>6, <2>9, <3>2, Zenon
    <3>3. CASE i \in 1 .. m
      <4>1. i \in 1 .. m + 1
        BY <3>3
      <4> QED BY <2>4, <3>3, <4>1, Zenon
    <3> QED BY <2>5, <3>2, <3>3
  <2>11. PiecesAreFrames
    <3>1. SUFFICES ASSUME NEW i \in 1 .. n, i # n PROVE fed[i].bytes = FrameOf(i)
      BY <1>3, <1>5, Zenon DEF PiecesAreFrames
    <3> QED BY <2>4, <2>5, <3>1, Zenon
  <2>12. AllFramesAnnounced
    <3>1. SUFFICES ASSUME ~ test_decode_one_trunk
                   PROVE  /\ FedBefore(n) + Len(fed[n].bytes) = totsize
                          /\ \A i \in 1 .. n - 1 : fed[i].num_pics = 1
                          /\ n - 1 + fed[n].num_pics = NumFrames
      BY <1>3, Zenon DEF AllFramesAnnounced, NumFrames
    <3>2. PICK b : b = fed[n].bytes /\ b = [k \in 1 .. r |-> x + k - 1]
      BY <2>8, <3>1, Zenon
    <3>3. Len(b) = r
      BY <3>2
    <3>4. x + r = totsize
      BY <2>2, <2>7
    <3>5. FedBefore(n) + Len(fed[n].bytes) = totsize
      BY <2>6, <3>2, <3>3, <3>4, Zenon
    <3>6. \A i \in 1 .. n - 1 : fed[i].num_pics = 1
      BY <2>3, <2>4, Zenon
    <3>7. n - 1 + fed[n].num_pics = NumFrames
      <4>1. fed[n].num_pics = NumFrames - m
        BY <2>8, <3>1, Zenon
      <4>2. n - 1 + (NumFrames - m) = NumFrames
        BY <2>2, <2>3
      <4> QED BY <4>1, <4>2, Zenon
    <3> QED BY <3>5, <3>6, <3>7
  <2> QED BY <2>10, <2>11, <2>12, Zenon
<1> QED BY <1>4, <1>5

\* udec_instance_decode_es_file: a file whose frames are not longer than DATA_PARSE_MIN_SIZE
\* goes to the decoder whole, in order, cut between its frames and with the right number of
\* pictures, for every size of the buffer, wherever its edges fall, whatever the byte behind
\* it, in a loop or for a trunk.  The last frame of another file may be cut where an earlier
\* fill left a start code, and size wrap below zero.
THEOREM FilesFedWhole == ReaderSpec => []WholeFramesFed
BY ReaderInvMeans, ReaderInvHolds, PTL
=============================================================================
