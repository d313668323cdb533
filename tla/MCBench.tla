------------------------------- MODULE MCBench -------------------------------
(* The small programs side by side: a behaviour is one of them, the others off. *)
EXTENDS ConditionWait, FrameReader, BitsWriter, BitsFifo, Playback, Mp4Mux, SoftVsync, NetTest

\* Frames of a few bytes: H.264 pictures behind a three- and a four-byte start code,
\* with and without headers and the DSP's wrappers; MPEG-2 pictures with slices,
\* sequence and GOP headers; VC-1 and MPEG-4 ones.
Picture == <<0, 0, 1, 1, 255>>
SpsPicture == <<0, 0, 0, 1, 7, 255, 0, 0, 1, 5>>
Wrapped == <<0, 0, 1, \h7D, 255, 0, 0, 1, \h7B, 9>>
WrappedPicture == <<0, 0, 1, \h7B, 0, 0, 1, 5, 9>>
Mpeg2 == <<0, 0, 1, 0, 0, 0, 1, 1, 9>>
Mpeg2Sequence == <<0, 0, 1, \hB3, 8, 0, 0, 1, 0, 0, 0>>
Vc1 == <<0, 0, 1, \h0D, 9>>
Vc1Sequence == <<0, 0, 1, \h0F, 0, 0, 1, \h0E, 0, 0, 1, \h0D>>
Mpeg4 == <<0, 0, 1, \hB6, 0, 7>>
\* Longer than DATA_PARSE_MIN_SIZE, and longer than the buffer.
LongPicture == <<0, 0, 0, 1, 5>> \o [i \in 1 .. 9 |-> 9]
HugePicture == <<0, 0, 0, 1, 1>> \o [i \in 1 .. 14 |-> 8]

Files(type, Frames, n) ==
  {[type |-> type, bytes |-> FlattenSeq(f),
     frames |-> [i \in DOMAIN f |-> Len(FlattenSeq(SubSeq(f, 1, i)))]] :
     f \in UNION {[1 .. k -> Frames] : k \in 1 .. n}}
MCStreams ==
  Files("H264", {Picture, SpsPicture}, 5) \cup Files("H264", {Wrapped, WrappedPicture}, 4)
  \cup Files("MP12", {Mpeg2, Mpeg2Sequence}, 4) \cup Files("VC1", {Vc1, Vc1Sequence}, 4)
  \cup Files("MP4H", {Mpeg4}, 6)
  \cup Files("H264", {Picture, LongPicture}, 3) \cup Files("H264", {Picture, HugePicture}, 2)

MCRecordings ==
  LET I == [size |-> 3, idr |-> TRUE]
      P == [size |-> 1, idr |-> FALSE]
      B == [size |-> 2, idr |-> FALSE]
      Large == [size |-> 6, idr |-> FALSE]
  IN  {<<P>>, <<I, P>>, <<I, B, P>>, <<I, I, P>>, <<I>>, <<P, I>>, <<B, Large>>}

\* Recordings of the encoder: the second IDR frame is M - 1 frames early.  A few frames
\* of two shapes; with M = 1 also behind a frame of a GOP whose IDR frame was not recorded
\* (a recording that starts later has its second IDR frame elsewhere if M > 1); and one
\* recording whose index is larger than the spare room.  Behind these, headers that are not
\* right: they count too few frames, or no IDR frame is where the formula has the second.
PicType(M, period, i) == IF i = 1 \/ (i + M - 2) % period = 0 THEN IDR ELSE 3
VideoFrame(M, period, i, shape) ==
  [pic_type |-> PicType(M, period, i), au |-> 6 * (shape % 2),
   sets |-> IF PicType(M, period, i) = IDR THEN <<13, 9>> ELSE <<>>,
   sei |-> IF shape = 0 THEN 18 ELSE 0, slice |-> 30 + shape]
Recording(M, N, idr_interval, early, shapes, spare) ==
  [M |-> M, N |-> N, idr_interval |-> idr_interval, frame_cnt |-> early + Len(shapes) + spare,
   frames |-> [i \in 1 .. early |-> [VideoFrame(1, 9, 2, 1) EXCEPT !.slice = 7]]
              \o [i \in DOMAIN shapes |-> VideoFrame(M, idr_interval * N, i, shapes[i])]]
MCVideos ==
  {Recording(gop[1], gop[2], gop[3], 0, shapes, spare) :
     gop \in {<<1, 2, 1>>, <<2, 2, 2>>, <<3, 3, 1>>},
     shapes \in UNION {[1 .. n -> 0 .. 1] : n \in 0 .. 5}, spare \in {0, 2}}
  \cup {Recording(1, 2, 1, 1, shapes, 0) : shapes \in UNION {[1 .. n -> 0 .. 1] : n \in 0 .. 5}}
  \cup {Recording(3, 30, 1, 0, [i \in 1 .. 800 |-> 1], 0)}
  \cup {[Recording(1, 2, 1, 0, [i \in 1 .. n |-> 1], 0) EXCEPT !.frame_cnt = c] :
          n \in {3, 400}, c \in 0 .. 2}
  \cup {[Recording(2, 2, 2, early, [i \in 1 .. 5 |-> 1], 0) EXCEPT !.M = m] :
          early \in 0 .. 1, m \in {1, 3, 5}}

Init ==
  \/ CondtestInit /\ ReaderOff /\ WriterOff /\ FifoOff
     /\ PlaybackOff /\ MuxOff /\ VsyncOff /\ NetOff
  \/ CondtestOff /\ ReaderInit /\ WriterOff /\ FifoOff
     /\ PlaybackOff /\ MuxOff /\ VsyncOff /\ NetOff
  \/ CondtestOff /\ ReaderOff /\ WriterInit /\ FifoOff
     /\ PlaybackOff /\ MuxOff /\ VsyncOff /\ NetOff
  \/ CondtestOff /\ ReaderOff /\ WriterOff /\ FifoInit
     /\ PlaybackOff /\ MuxOff /\ VsyncOff /\ NetOff
  \/ CondtestOff /\ ReaderOff /\ WriterOff /\ FifoOff
     /\ PlaybackInit /\ MuxOff /\ VsyncOff /\ NetOff
  \/ CondtestOff /\ ReaderOff /\ WriterOff /\ FifoOff
     /\ PlaybackOff /\ MuxInit /\ VsyncOff /\ NetOff
  \/ CondtestOff /\ ReaderOff /\ WriterOff /\ FifoOff
     /\ PlaybackOff /\ MuxOff /\ VsyncInit /\ NetOff
  \/ CondtestOff /\ ReaderOff /\ WriterOff /\ FifoOff
     /\ PlaybackOff /\ MuxOff /\ VsyncOff /\ NetInit

Next ==
  \/ CondtestNext
     /\ UNCHANGED <<readerVars, writerVars, fifoVars, playbackVars, muxVars, vsyncVars, netVars>>
  \/ ReaderNext
     /\ UNCHANGED <<condtestVars, writerVars, fifoVars, playbackVars, muxVars, vsyncVars, netVars>>
  \/ WriterNext
     /\ UNCHANGED <<condtestVars, readerVars, fifoVars, playbackVars, muxVars, vsyncVars, netVars>>
  \/ FifoNext
     /\ UNCHANGED <<condtestVars, readerVars, writerVars, playbackVars, muxVars, vsyncVars, netVars>>
  \/ PlaybackNext
     /\ UNCHANGED <<condtestVars, readerVars, writerVars, fifoVars, muxVars, vsyncVars, netVars>>
  \/ MuxNext
     /\ UNCHANGED <<condtestVars, readerVars, writerVars, fifoVars, playbackVars, vsyncVars, netVars>>
  \/ VsyncNext
     /\ UNCHANGED <<condtestVars, readerVars, writerVars, fifoVars, playbackVars, muxVars, netVars>>
  \/ NetNext
     /\ UNCHANGED <<condtestVars, readerVars, writerVars, fifoVars, playbackVars, muxVars, vsyncVars>>

vars ==
  <<condtestVars, readerVars, writerVars, fifoVars, playbackVars,
    muxVars, vsyncVars, netVars>>

Spec ==
  /\ Init /\ [][Next]_vars
  /\ CondtestFairness /\ ReaderFairness /\ FifoFairness /\ PlaybackFairness
  /\ VsyncFairness /\ NetFairness

\* Every variable of the programs has its type.
TypeOK ==
  CondtestTypeOK /\ ReaderTypeOK /\ WriterTypeOK /\ FifoTypeOK /\ PlaybackTypeOK
  /\ MuxTypeOK /\ VsyncTypeOK /\ NetTypeOK

\* mudec's feeding does not stop: the reader comes to the end of its file, and the room
\* that it asks for in the bits fifo comes.
FeedingGoesOn == FeedingEnds /\ RoomComes
=============================================================================
