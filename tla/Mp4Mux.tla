-------------------------------- MODULE Mp4Mux --------------------------------
(***************************************************************************)
(* test_mp4mux.c: an H.264 recording is put into an MP4 file.  Room for    *)
(* the boxes in front of the pictures is set aside before their number is  *)
(* known exactly.  While the pictures are written the index (a composition *)
(* time, a size and an offset per picture) is kept in memory and written,  *)
(* IDX_SIZE entries at a time, to the end of that room, with a second FILE *)
(* on the same file.  Stop writes the boxes over the room from its start   *)
(* and copies the index out of its end into them on the way.               *)
(*                                                                         *)
(* Bytes of pictures and boxes are counted, not represented; a word of the *)
(* index is.  Times are left out: the entry of a time is the number of its *)
(* picture.                                                                *)
(***************************************************************************)
EXTENDS Integers, Sequences

CONSTANTS
  IDX_SIZE,   \* entries of the index that are kept in memory
  Videos      \* recordings: [M, N, idr_interval, frame_cnt, frames]; a frame is
              \* [pic_type, au, sets, sei, slice]: the lengths of its NAL units with their
              \* start codes, au 0 or 6, sets <<>> or <<SPS, PPS>>, sei all of SEI together

IDR == 1
SetsSize(f) == IF f.sets = <<>> THEN 0 ELSE f.sets[1] + f.sets[2]
FrameSize(f) == f.au + SetsSize(f) + f.sei + f.slice

\* So many frames of the recording are in front of its first IDR frame.
LeadBy(recording, n) ==
  /\ \A k \in 1 .. n : recording.frames[k].pic_type # IDR
  /\ n < Len(recording.frames) => recording.frames[n + 1].pic_type = IDR
Leading(recording) == CHOOSE n \in 0 .. Len(recording.frames) : LeadBy(recording, n)

\* The number that the SyncSampleBox has for the i-th IDR frame: _new_gop is always 1.
SyncSample(recording, i) ==
  IF i = 1 THEN 1
  ELSE 1 + (i - 1) * (recording.idr_interval * recording.N) - (recording.M - 1)

MuxFrame ==
  {f \in [pic_type : Nat, au : {0, 6}, sets : Seq(Nat), sei : Nat, slice : Nat] :
     /\ f.slice > 4
     /\ f.sets # <<>> =>
          f.pic_type \in {IDR, 2} /\ Len(f.sets) = 2 /\ {f.sets[1], f.sets[2]} \subseteq 5 .. 65}

\* A recording repeats its SPS and PPS, which fit in _sps and _pps, unchanged.
ASSUME MuxAssumption ==
  /\ IDX_SIZE \in Nat \ {0}
  /\ \A recording \in Videos :
       /\ {recording.M, recording.N, recording.idr_interval} \subseteq Nat \ {0}
       /\ recording.frames \in Seq(MuxFrame) /\ recording.frame_cnt \in Nat
       /\ \A i, j \in DOMAIN recording.frames :
            <<>> \notin {recording.frames[i].sets, recording.frames[j].sets}
              => recording.frames[i].sets = recording.frames[j].sets

\* What Init and the SyncSampleBox take from the header of the .info file without a check:
\* it counts at least the frames that follow, and the IDR frames are where the formula
\* expects them.
HeaderRight(recording) ==
  /\ recording.frame_cnt >= Len(recording.frames)
  /\ recording.M <= recording.idr_interval * recording.N
  /\ \E n \in 0 .. Len(recording.frames) :
       /\ LeadBy(recording, n)
       /\ \A k \in 1 .. Len(recording.frames) - n :
            recording.frames[n + k].pic_type = IDR
              <=> \E i \in 1 .. k : k = SyncSample(recording, i)

VARIABLES
  muxer,          \* "off", "frames", "done"
  video,          \* the recording
  frame_no,       \* frames of it that were read
  curPos,
  VPacketCnt, IdrPacketCnt,
  spsPps,         \* _spsSize and _ppsSize together, padded
  SpsPps_pos,
  idx,            \* the entries in memory: [ctts, stsz, stco], _v_idx of them
  cur_fpos,       \* [ctts, stsz, stco]: where the next entries go in the file
  words,          \* the words of the index in the file, by their place
  tables          \* what Stop found: the tables of the boxes

muxVars == <<muxer, video, frame_no, curPos, VPacketCnt, IdrPacketCnt, spsPps, SpsPps_pos,
             idx, cur_fpos, words, tables>>

-----------------------------------------------------------------------------
(* The boxes. *)

\* The _SIZE macros, for v pictures, idr of them IDR, and s bytes of SPS and PPS.
CttsOfOneWord(v) == 16 + 4 * v                                           \* mutant
CompositionTimeToSampleBox_SIZE(v) == 16 + 8 * v
VideoSampleTableBox_SIZE(v, idr, s) ==
  8 + (16 + 86 + 19 + s + 20) + 24 + CompositionTimeToSampleBox_SIZE(v) + 28
    + (20 + 4 * v) + (16 + 4 * v) + (16 + 4 * idr) + (12 + v)
VideoMediaInformationBox_SIZE(v, idr, s) == 8 + 20 + 36 + VideoSampleTableBox_SIZE(v, idr, s)
VideoMediaBox_SIZE(v, idr, s) == 8 + 32 + 46 + VideoMediaInformationBox_SIZE(v, idr, s)
VideoTrackBox_SIZE(v, idr, s) == 8 + 92 + 68 + VideoMediaBox_SIZE(v, idr, s)
FileTypeBox_SIZE == 24
MovieBox_SIZE(v, idr, s) == 8 + 108 + 24 + 48 + VideoTrackBox_SIZE(v, idr, s)
EmptyFreeSpaceBox_SIZE == 16 + 64 + 64

\* The numbers in the SyncSampleBox.
SyncSamples(idr) == [i \in 1 .. idr |-> SyncSample(video, i)]

\* The entries of the SampleDependencyTypeBox, one of them before the loop.
SampleDependencies(v) == (IF v > 0 THEN 1 ELSE 0) + (IF v > 1 THEN v - 1 ELSE 0)

\* The bytes of so many calls of put_be32, put_be24, put_be16 and put_byte.
Puts(be32, be24, be16, byte) == 4 * be32 + 3 * be24 + 2 * be16 + byte

\* What put_MovieBox and the functions it calls put.
PutVideoMediaInformationBox(v, idr, s) ==
  Puts(57, 11, 14, 25) + 31 + s + 8 * v + 4 * v + 4 * v + 4 * Len(SyncSamples(idr))
    + SampleDependencies(v)
PutVideoMediaBox(v, idr, s) == Puts(15, 2, 2, 3) + 13 + PutVideoMediaInformationBox(v, idr, s)
PutVideoTrackBox(v, idr, s) == Puts(33, 1, 16, 1) + PutVideoMediaBox(v, idr, s)
PutMovieBox(v, idr, s) == Puts(42, 2, 4, 6) + PutVideoTrackBox(v, idr, s)

-----------------------------------------------------------------------------
(* The room in front of the pictures, as Init lays it out. *)

MaxIdrPacketCnt == 1 + video.frame_cnt \div (video.idr_interval * video.N)
FileHeader_MAXSIZE ==
  FileTypeBox_SIZE + MovieBox_SIZE(video.frame_cnt, MaxIdrPacketCnt, 0) + EmptyFreeSpaceBox_SIZE
FreeSpaceSize == ((FileHeader_MAXSIZE + 1023) \div 1024 + 2) * 1024 - FileTypeBox_SIZE
MediaData == FileTypeBox_SIZE + FreeSpaceSize       \* the place of the mdat box

\* Where the index starts: its tables have 16 bytes between them.
fpos ==
  LET n == video.frame_cnt
      low == MediaData - (4 * 4 * n + 80)
      start == low - (low % 8)
  IN  [ctts |-> start, stsz |-> start + 8 * n + 16, stco |-> start + 12 * n + 32]

MuxStart(recording, m) ==
  /\ muxer = m /\ video = recording /\ frame_no = 0
  /\ curPos = MediaData + 8
  /\ VPacketCnt = 0 /\ IdrPacketCnt = 0
  /\ spsPps = [size |-> 0, skip |-> 0]
  /\ SpsPps_pos = FileTypeBox_SIZE + MovieBox_SIZE(0, 0, 0) + 8
  /\ idx = <<>> /\ cur_fpos = fpos
  /\ words = <<>> /\ tables = <<>>
MuxInit == \E recording \in Videos : MuxStart(recording, "frames")
MuxOff == MuxStart([M |-> 1, N |-> 1, idr_interval |-> 1, frame_cnt |-> 0, frames |-> <<>>], "off")

-----------------------------------------------------------------------------
(* The index in the file. *)

Put(ws, at, list) ==
  LET mine == {at + 4 * (i - 1) : i \in DOMAIN list}
  IN  [p \in DOMAIN ws \cup mine |-> IF p \in mine THEN list[(p - at) \div 4 + 1] ELSE ws[p]]

\* The words of a composition time: sample_count and sample_delta.
CttsWords(list) == [i \in 1 .. 2 * Len(list) |-> IF i % 2 = 1 THEN 1 ELSE list[i \div 2].ctts]

\* The entries of list go where the ones before them ended.
WriteIdx(ws, list) ==
  Put(Put(Put(ws, cur_fpos.ctts, CttsWords(list)),
          cur_fpos.stsz, [i \in DOMAIN list |-> list[i].stsz]),
      cur_fpos.stco, [i \in DOMAIN list |-> list[i].stco])
StayAt(n) == [cur_fpos EXCEPT !.ctts = @ + 8 * n]                        \* mutant
Advance(n) == [ctts |-> cur_fpos.ctts + 8 * n, stsz |-> cur_fpos.stsz + 4 * n,
               stco |-> cur_fpos.stco + 4 * n]

\* _spsSize, _sps, _ppsSize, _pps and _frame_field_set go to the start of the room.
WriteSpsPps(ws) ==
  [p \in {p \in DOMAIN ws : p + 4 <= SpsPps_pos \/ p >= SpsPps_pos + 140} |-> ws[p]]

\* Stop reads n words back from at on, in pieces of so many, and puts each piece where
\* it belongs in its box, which begins at to: what is below the last byte put is gone.
Lost == -1
ReadBack(ws, at, to, piece, n) ==
  [i \in 1 .. n |->
     LET p == at + 4 * (i - 1)
         written_to == to + 4 * piece * ((i - 1) \div piece)
     IN  IF p \in DOMAIN ws /\ p >= written_to THEN ws[p] ELSE Lost]

-----------------------------------------------------------------------------

\* GetSpsPps: the first sets are kept, padded; later ones are taken to be as long.
Padded(n) == ((n + 3) \div 4) * 4
GetSpsPps(f) ==
  IF f.sets = <<>> \/ spsPps.size # 0 THEN spsPps
  ELSE [size |-> Padded(f.sets[1] - 4) + Padded(f.sets[2] - 4), skip |-> f.sets[1] + f.sets[2]]

\* A NAL unit of n bytes at offset in f: its length, then what the buffer has of it.
PutNal(f, offset, n) ==
  LET remain == n - 4
      left == FrameSize(f) - (offset + 4)
  IN  4 + (IF left <= 0 THEN 0 ELSE IF remain <= left THEN remain ELSE left)

\* ProcessVideoData.  Frames before the first IDR frame are left out.
SkipFrame ==
  /\ muxer = "frames" /\ frame_no < Len(video.frames)
  /\ VPacketCnt = 0 /\ video.frames[frame_no + 1].pic_type # IDR
  /\ frame_no' = frame_no + 1
  /\ UNCHANGED <<muxer, video, curPos, VPacketCnt, IdrPacketCnt, spsPps, SpsPps_pos, idx,
                 cur_fpos, words, tables>>
ProcessVideoData ==
  /\ muxer = "frames" /\ frame_no < Len(video.frames)
  /\ LET f == video.frames[frame_no + 1]
         sets == GetSpsPps(f)
         len1 == f.au + (IF f.sets = <<>> THEN 0 ELSE sets.skip)
         size1 == FrameSize(f) - len1 + 6
         list == Append(idx, [ctts |-> VPacketCnt + 1, stsz |-> size1, stco |-> curPos])
         found == IF sets = spsPps THEN words ELSE WriteSpsPps(words)
     IN  /\ VPacketCnt > 0 \/ f.pic_type = IDR
         /\ spsPps' = sets
         /\ SpsPps_pos' = IF sets = spsPps THEN SpsPps_pos ELSE 0
         /\ curPos' = curPos + 6 + f.sei + PutNal(f, len1 + f.sei, size1 - 6 - f.sei)
         /\ IF Len(list) >= IDX_SIZE
              THEN /\ words' = WriteIdx(found, list) /\ cur_fpos' = Advance(Len(list))
                   /\ idx' = <<>>
              ELSE words' = found /\ idx' = list /\ UNCHANGED cur_fpos
         /\ VPacketCnt' = VPacketCnt + 1
         /\ IdrPacketCnt' = IdrPacketCnt + (IF f.pic_type = IDR THEN 1 ELSE 0)
         /\ frame_no' = frame_no + 1
  /\ UNCHANGED <<muxer, video, tables>>

\* Stop: the rest of the index, then put_Mp4File over the room.
Stop ==
  /\ muxer = "frames" /\ frame_no = Len(video.frames)
  /\ muxer' = "done"
  /\ words' = WriteIdx(words, idx) /\ cur_fpos' = Advance(Len(idx))
  /\ LET v == VPacketCnt
         moov == PutMovieBox(v, IdrPacketCnt, spsPps.size)
         free == FreeSpaceSize - MovieBox_SIZE(v, IdrPacketCnt, spsPps.size)
         mdat == FileTypeBox_SIZE + moov + free
         stco == FileTypeBox_SIZE + moov - (12 + v) - (16 + 4 * IdrPacketCnt) - 4 * v
         stsz == stco - 16 - 4 * v
         ctts == stsz - 20 - 28 - 8 * v
     IN  tables' =
           [ctts |-> ReadBack(words', fpos.ctts, ctts, 2 * IDX_SIZE, 2 * v),
            stsz |-> ReadBack(words', fpos.stsz, stsz, IDX_SIZE, v),
            stco |-> ReadBack(words', fpos.stco, stco, IDX_SIZE, v),
            stss |-> SyncSamples(IdrPacketCnt),
            free |-> free, mdat |-> [at |-> mdat, size |-> curPos - mdat]]
  /\ UNCHANGED <<video, frame_no, curPos, VPacketCnt, IdrPacketCnt, spsPps, SpsPps_pos, idx>>

MuxNext == SkipFrame \/ ProcessVideoData \/ Stop

-----------------------------------------------------------------------------

\* Every variable has its type.
MuxTypeOK ==
  /\ muxer \in {"off", "frames", "done"} /\ frame_no \in 0 .. Len(video.frames)
  /\ {curPos, VPacketCnt, IdrPacketCnt, SpsPps_pos, spsPps.size, spsPps.skip} \subseteq Nat
  /\ Len(idx) < IDX_SIZE
  /\ DOMAIN cur_fpos = {"ctts", "stsz", "stco"}

Sample(f) == 6 + f.sei + f.slice

\* The frames from the first IDR frame on, and where one ends by the tables.
Pictures ==
  [k \in 1 .. Len(video.frames) - Leading(video) |-> video.frames[Leading(video) + k]]
PictureEnds(k) == IF k = 0 THEN MediaData + 8 ELSE tables.stco[k] + Sample(Pictures[k])

\* The tables lead to the pictures: each picture of the recording begins where the table
\* of offsets says, has the bytes the table of sizes says, none of them of a neighbour,
\* and is marked as a sync sample if it is an IDR frame.
SamplesFound ==
  /\ DOMAIN tables.stsz = DOMAIN Pictures /\ DOMAIN tables.stco = DOMAIN Pictures
  /\ \A k \in DOMAIN Pictures :
       /\ tables.stsz[k] = Sample(Pictures[k])
       /\ tables.stco[k] = PictureEnds(k - 1)
       /\ tables.ctts[2 * k - 1] = 1 /\ tables.ctts[2 * k] = k
       /\ Pictures[k].pic_type = IDR <=> \E i \in DOMAIN tables.stss : tables.stss[i] = k
  /\ \A i \in DOMAIN tables.stss : tables.stss[i] \in DOMAIN Pictures
  /\ curPos = PictureEnds(Len(video.frames) - Leading(video))

\* The boxes follow each other without a gap up to the end of the file: moov is as long
\* as it says, the box of free space has room for its header, and mdat is where its
\* pictures are.
BoxesTile ==
  /\ PutMovieBox(VPacketCnt, IdrPacketCnt, spsPps.size)
       = MovieBox_SIZE(VPacketCnt, IdrPacketCnt, spsPps.size)
  /\ tables.free >= 8
  /\ tables.mdat = [at |-> MediaData, size |-> curPos - MediaData]

\* What test_mp4mux leaves is a file a player can follow, although Stop reads the index
\* from the file it is writing over, if the header of the .info file is right.
Mp4FileSound == muxer = "done" /\ HeaderRight(video) => SamplesFound /\ BoxesTile
=============================================================================
