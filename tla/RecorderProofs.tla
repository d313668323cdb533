---------------------------- MODULE RecorderProofs ----------------------------
(***************************************************************************)
(* test_bsreader.c and test_stream.c, for any number of streams, sessions, *)
(* frames, and opens and writes that fail.  The invariant relates a        *)
(* stream's queue, its descriptors, its files and the frame in hand.  It   *)
(* is stated as operators of those values, so that the lemmas are about    *)
(* sequences and numbers, and an action is followed for its own stream.    *)
(***************************************************************************)
EXTENDS Recorder, SequenceTheorems, TLAPS

Entry == Nat \X Nat
File == [session : Nat, frames : Seq(Entry), records : Nat]
Coder == [on : BOOLEAN, session : Nat, n : Nat]
State == [fd : Nat, fd_info : Nat, session_id : Nat, total_bytes : Nat]

\* The queue of a stream: sessions and frames in their order, behind the end of a
\* session only frames of later ones.
InQueue(out, enc) ==
  /\ \A i \in 1 .. Len(out) : out[i][1] \in 1 .. enc.session /\ out[i][2] <= enc.n
  /\ \A i, j \in 1 .. Len(out) : i < j =>
       /\ out[i][1] <= out[j][1]
       /\ out[i][2] = 0 => out[i][1] < out[j][1]
       /\ out[j][2] # 0 => out[i][2] < out[j][2]
  /\ enc.on => /\ enc.session # 0
               /\ \A i \in 1 .. Len(out) : out[i][2] = 0 => out[i][1] < enc.session

\* What was read came before what is in the queue; with its files closed the recorder
\* has seen the end of the session it knows.
Ahead(out, enc, st, rec, ok) ==
  /\ st.session_id <= enc.session
  /\ \A i \in 1 .. Len(out) : st.session_id <= out[i][1]
  /\ ok /\ st.fd = 0 => /\ enc.on => st.session_id < enc.session
                        /\ \A i \in 1 .. Len(out) : out[i][2] # 0 => st.session_id < out[i][1]
  /\ \A g \in rec : /\ g \in Entry /\ g[2] # 0 /\ g[2] <= enc.n
                    /\ \A i \in 1 .. Len(out) : out[i][2] # 0 => g[2] < out[i][2]

\* The open file is the last one, of the session known, with the bytes counted.
OpenOne(st, fs, fr, ok, info) ==
  /\ st.fd \in {0, Len(fs)} /\ st.fd_info <= Len(fs)
  /\ st.fd # 0 => fs[st.fd].session = st.session_id
  /\ Len(fs) # 0 => fs[Len(fs)].session <= st.session_id
  /\ ~ info => st.fd_info = 0
  /\ ok => /\ Len(fs) = 0 => st.session_id = 0
           /\ Len(fs) # 0 =>
                /\ fs[Len(fs)].session = st.session_id
                /\ st.total_bytes = Len(fs[Len(fs)].frames) + (IF fr = NoFrame THEN 0 ELSE 1)
           /\ info => st.fd_info = st.fd

\* The frame in hand has an open file.
InHand(fr, rd, st, rec, drp) ==
  /\ fr # NoFrame => st.fd # 0 /\ fr[1] = st.session_id /\ fr \in rec /\ fr \notin drp
  /\ rd = "write" => fr # NoFrame
  /\ rd \in {"none", "look", "get"} => fr = NoFrame

\* What the files hold is what was read and neither lost nor in hand, in order.
Kept(fs, fr, rec, drp) ==
  /\ \A i \in 1 .. Len(fs) : \A k \in 1 .. Len(fs[i].frames) :
       /\ fs[i].frames[k][1] = fs[i].session
       /\ fs[i].frames[k] \in rec \ drp
       /\ fr # NoFrame => fs[i].frames[k][2] < fr[2]
  /\ \A g \in rec : g \in drp \/ g = fr
       \/ \E i \in 1 .. Len(fs) : \E k \in 1 .. Len(fs[i].frames) : g = fs[i].frames[k]
  /\ \A i, j \in 1 .. Len(fs) :
       \A k \in 1 .. Len(fs[i].frames), l \in 1 .. Len(fs[j].frames) :
         i < j \/ (i = j /\ k < l) => fs[i].frames[k][2] < fs[j].frames[l][2]
  /\ drp \subseteq rec

\* The files before the last are cut where they must be; so will the last one be.
CutRight(st, fs, fr, ok, size, info) ==
  ok => /\ size => /\ \A i \in 1 .. Len(fs) : Len(fs[i].frames) <= FileSize + 1
                   /\ Len(fs) # 0 => st.total_bytes <= FileSize + 1
        /\ \A i \in 1 .. Len(fs) - 1 :
             \/ fs[i].session # fs[i + 1].session
             \/ size /\ Len(fs[i].frames) \in {0, FileSize + 1}
        /\ info => \A i \in 1 .. Len(fs) :
             fs[i].records =
               Len(fs[i].frames) + (IF fr # NoFrame /\ i = Len(fs) THEN 1 ELSE 0)

RecorderTypes ==
  /\ recorder \in {"off", "bsreader", "stream", "stopping", "exited"}
  /\ file_size_flag \in BOOLEAN /\ frame_info_flag \in BOOLEAN
  /\ encoder \in [RecordStreams -> Coder] /\ output \in [RecordStreams -> Seq(Entry)]
  /\ encoding_states \in [RecordStreams -> State] /\ end_of_stream \subseteq RecordStreams
  /\ reading \in [RecordStreams -> {"none", "look", "get", "write", "ended"}]
  /\ frame \in [RecordStreams -> Entry] /\ files \in [RecordStreams -> Seq(File)]
  /\ leaked \in Nat /\ failures \in 0 .. MaxFailures
  /\ received \in [RecordStreams -> SUBSET Entry] /\ dropped \subseteq RecordStreams \X Entry
  /\ failures = 0 => dropped = {}
  /\ overwritten \subseteq RecordStreams \X Entry
  /\ ~ file_size_flag => overwritten = {}

\* The frames read that are in no file: not written, or written over.
GoneOf(s) == {f \in Entry : <<s, f>> \in dropped \cup overwritten}
StreamInv(s) ==
  /\ InQueue(output[s], encoder[s])
  /\ Ahead(output[s], encoder[s], encoding_states[s], received[s], failures = 0)
  /\ OpenOne(encoding_states[s], files[s], frame[s], failures = 0, frame_info_flag)
  /\ InHand(frame[s], reading[s], encoding_states[s], received[s], GoneOf(s))
  /\ Kept(files[s], frame[s], received[s], GoneOf(s))
  /\ CutRight(encoding_states[s], files[s], frame[s], failures = 0, file_size_flag,
              frame_info_flag)

RecorderInv == RecorderTypes /\ \A s \in RecordStreams : StreamInv(s)

LEMMA RecorderSizes == FileSize \in Nat \ {0} /\ MaxFailures \in Nat
BY RecorderAssumption

\* The encoder's steps.
LEMMA QueueStart ==
  ASSUME NEW out \in Seq(Entry), NEW enc \in Coder, InQueue(out, enc), ~ enc.on,
         NEW enc2 \in Coder, enc2.on, enc2.session = enc.session + 1, enc2.n = enc.n,
         NEW st \in State, NEW rec, NEW ok \in BOOLEAN, Ahead(out, enc, st, rec, ok)
  PROVE  InQueue(out, enc2) /\ Ahead(out, enc2, st, rec, ok)
<1>1. /\ enc.session \in Nat /\ enc.n \in Nat /\ st.session_id \in Nat
      /\ \A i \in 1 .. Len(out) : out[i] \in Entry
  BY ElementOfSeq DEF Coder, State
<1>2. InQueue(out, enc2)
  BY <1>1, SMTT(60) DEF InQueue, Entry
<1>3. Ahead(out, enc2, st, rec, ok)
  BY <1>1 DEF Ahead, Entry
<1> QED BY <1>2, <1>3

LEMMA QueueAppend ==
  ASSUME NEW out \in Seq(Entry), NEW enc \in Coder, InQueue(out, enc), enc.on,
         NEW enc2 \in Coder, enc2.session = enc.session,
         NEW e \in Entry, e[1] = enc.session,
         \/ e[2] = 0 /\ ~ enc2.on /\ enc2.n = enc.n
         \/ e[2] = enc.n + 1 /\ enc2.on /\ enc2.n = enc.n + 1,
         NEW st \in State, NEW rec, NEW ok \in BOOLEAN, Ahead(out, enc, st, rec, ok)
  PROVE  /\ Append(out, e) \in Seq(Entry) /\ InQueue(Append(out, e), enc2)
         /\ Ahead(Append(out, e), enc2, st, rec, ok)
<1>1. PICK m, more : m = Len(out) /\ more = Append(out, e)
  OBVIOUS
<1>2. /\ m \in Nat /\ more \in Seq(Entry) /\ Len(more) = m + 1 /\ more[m + 1] = e
      /\ \A i \in 1 .. m : more[i] = out[i] /\ out[i] \in Entry
  BY <1>1, AppendProperties, LenProperties, ElementOfSeq
<1>3. /\ enc.session \in Nat /\ enc.n \in Nat /\ st.session_id \in Nat /\ enc.session # 0
      /\ e[1] \in Nat /\ e[2] \in Nat
      /\ \A i \in 1 .. m : out[i][1] \in Nat /\ out[i][2] \in Nat
  BY <1>1, <1>2 DEF Coder, State, InQueue, Entry
<1>4. \A i \in 1 .. m + 1 : i \in 1 .. m \/ i = m + 1
  BY <1>2
<1>5. \A i \in 1 .. m : /\ out[i][1] \in 1 .. enc.session /\ out[i][2] <= enc.n
                        /\ out[i][2] = 0 => out[i][1] < enc.session
  BY <1>1 DEF InQueue
<1>6. InQueue(more, enc2)
  <2>1. \A i \in 1 .. m + 1 : more[i][1] \in 1 .. enc2.session /\ more[i][2] <= enc2.n
    BY <1>2, <1>3, <1>4, <1>5
  <2>2. ASSUME NEW i \in 1 .. m + 1, NEW j \in 1 .. m + 1, i < j
        PROVE  /\ more[i][1] <= more[j][1]
               /\ more[i][2] = 0 => more[i][1] < more[j][1]
               /\ more[j][2] # 0 => more[i][2] < more[j][2]
    <3>1. i \in 1 .. m
      BY <1>2, <2>2
    <3>2. CASE j \in 1 .. m
      <4>1. /\ out[i][1] <= out[j][1]
            /\ out[i][2] = 0 => out[i][1] < out[j][1]
            /\ out[j][2] # 0 => out[i][2] < out[j][2]
        BY <1>1, <2>2, <3>1, <3>2 DEF InQueue
      <4>2. more[i] = out[i] /\ more[j] = out[j]
        BY <1>2, <3>1, <3>2
      <4> QED BY <4>1, <4>2
    <3>3. CASE j = m + 1
      BY <1>2, <1>3, <1>5, <3>1, <3>3, SMTT(60)
    <3> QED BY <1>4, <3>2, <3>3
  <2>3. ASSUME enc2.on, NEW i \in 1 .. m + 1, more[i][2] = 0
        PROVE  more[i][1] < enc2.session
    <3>1. CASE i \in 1 .. m
      BY <1>2, <1>5, <2>3, <3>1
    <3>2. CASE i = m + 1
      <4>1. e[2] = 0 /\ e[2] = enc.n + 1
        BY <1>2, <2>3, <3>2
      <4> QED BY <1>3, <4>1
    <3> QED BY <1>4, <3>1, <3>2
  <2> QED BY <1>2, <1>3, <2>1, <2>2, <2>3 DEF InQueue
<1>7. Ahead(more, enc2, st, rec, ok)
  <2>1. /\ st.session_id <= enc.session
        /\ \A i \in 1 .. m : st.session_id <= out[i][1]
        /\ ok /\ st.fd = 0 => /\ st.session_id < enc.session
                              /\ \A i \in 1 .. m : out[i][2] # 0 => st.session_id < out[i][1]
        /\ \A g \in rec : /\ g \in Entry /\ g[2] # 0 /\ g[2] <= enc.n
                          /\ \A i \in 1 .. m : out[i][2] # 0 => g[2] < out[i][2]
    BY <1>1 DEF Ahead
  <2>2. \A i \in 1 .. m + 1 : st.session_id <= more[i][1]
    BY <1>2, <1>4, <2>1
  <2>3. ok /\ st.fd = 0 => \A i \in 1 .. m + 1 : more[i][2] # 0 => st.session_id < more[i][1]
    BY <1>2, <1>4, <2>1
  <2>4. ASSUME NEW g \in rec
        PROVE  /\ g \in Entry /\ g[2] # 0 /\ g[2] <= enc2.n
               /\ \A i \in 1 .. m + 1 : more[i][2] # 0 => g[2] < more[i][2]
    <3>1. g[2] \in Nat /\ g[2] <= enc.n
      BY <2>1 DEF Entry
    <3>2. g[2] <= enc2.n
      BY <1>3, <3>1
    <3>3. ASSUME NEW i \in 1 .. m + 1, more[i][2] # 0
          PROVE  g[2] < more[i][2]
      <4>1. CASE i \in 1 .. m
        BY <1>2, <2>1, <3>3, <4>1
      <4>2. CASE i = m + 1
        <5>1. more[i] = e /\ e[2] = enc.n + 1
          BY <1>2, <3>3, <4>2
        <5> QED BY <1>3, <3>1, <5>1
      <4> QED BY <1>4, <4>1, <4>2
    <3> QED BY <2>1, <3>2, <3>3
  <2> QED BY <1>2, <2>1, <2>2, <2>3, <2>4 DEF Ahead
<1> QED BY <1>1, <1>2, <1>6, <1>7

\* Reading the next entry: what is behind it in the queue.
LEMMA QueueRead ==
  ASSUME NEW out \in Seq(Entry), out # <<>>, NEW enc \in Coder, InQueue(out, enc)
  PROVE  /\ Tail(out) \in Seq(Entry) /\ InQueue(Tail(out), enc)
         /\ Head(out) \in Entry /\ Head(out) = out[1] /\ 1 \in 1 .. Len(out)
         /\ \A i \in 1 .. Len(Tail(out)) :
              /\ i + 1 \in 1 .. Len(out) /\ Tail(out)[i] = out[i + 1] /\ Tail(out)[i] \in Entry
              /\ Head(out)[1] <= Tail(out)[i][1]
              /\ Head(out)[2] = 0 => Head(out)[1] < Tail(out)[i][1]
              /\ Tail(out)[i][2] # 0 => Head(out)[2] < Tail(out)[i][2]
<1>1. PICK m, rest : m = Len(out) /\ rest = Tail(out)
  OBVIOUS
<1>2. /\ m \in Nat \ {0} /\ rest \in Seq(Entry) /\ Len(rest) = m - 1
      /\ \A i \in 1 .. m - 1 : rest[i] = out[i + 1]
      /\ Head(out) = out[1]
  BY <1>1, HeadTailProperties, EmptySeq, LenProperties
<1>3. 1 \in 1 .. m /\ \A i \in 1 .. m : out[i] \in Entry
  BY <1>1, <1>2, ElementOfSeq
<1>4. \A i \in 1 .. m - 1 : i + 1 \in 1 .. m /\ 1 < i + 1
  BY <1>2
<1>5. InQueue(rest, enc)
  <2>1. \A i \in 1 .. m - 1 : rest[i][1] \in 1 .. enc.session /\ rest[i][2] <= enc.n
    BY <1>1, <1>2, <1>4 DEF InQueue
  <2>2. ASSUME NEW i \in 1 .. m - 1, NEW j \in 1 .. m - 1, i < j
        PROVE  /\ rest[i][1] <= rest[j][1]
               /\ rest[i][2] = 0 => rest[i][1] < rest[j][1]
               /\ rest[j][2] # 0 => rest[i][2] < rest[j][2]
    <3>1. i + 1 < j + 1 /\ i + 1 \in 1 .. m /\ j + 1 \in 1 .. m
      BY <1>4, <2>2
    <3>2. rest[i] = out[i + 1] /\ rest[j] = out[j + 1]
      BY <1>2
    <3> QED BY <1>1, <3>1, <3>2 DEF InQueue
  <2>3. enc.on => /\ enc.session # 0
                  /\ \A i \in 1 .. m - 1 : rest[i][2] = 0 => rest[i][1] < enc.session
    BY <1>1, <1>2, <1>4 DEF InQueue
  <2> QED BY <1>2, <2>1, <2>2, <2>3 DEF InQueue
<1>6. ASSUME NEW i \in 1 .. m - 1
      PROVE  /\ i + 1 \in 1 .. m /\ rest[i] = out[i + 1] /\ rest[i] \in Entry
             /\ out[1][1] <= rest[i][1]
             /\ out[1][2] = 0 => out[1][1] < rest[i][1]
             /\ rest[i][2] # 0 => out[1][2] < rest[i][2]
  <2>1. i + 1 \in 1 .. m /\ rest[i] = out[i + 1] /\ rest[i] \in Entry /\ 1 < i + 1
    BY <1>2, <1>3, <1>4
  <2> QED BY <1>1, <1>3, <2>1 DEF InQueue
<1> QED BY <1>1, <1>2, <1>3, <1>5, <1>6

\* The frame read is new, later than all that were read, and not of an older session.
LEMMA FrameRead ==
  ASSUME NEW out \in Seq(Entry), out # <<>>, NEW enc \in Coder, InQueue(out, enc),
         NEW st \in State, NEW rec, NEW ok \in BOOLEAN, Ahead(out, enc, st, rec, ok),
         Head(out)[2] # 0
  PROVE  /\ Head(out) \in Entry /\ Head(out)[2] <= enc.n
         /\ st.session_id <= Head(out)[1] /\ Head(out)[1] <= enc.session
         /\ ok /\ st.fd = 0 => st.session_id < Head(out)[1]
         /\ \A g \in rec : g \in Entry /\ g[2] # 0 /\ g[2] < Head(out)[2]
<1>1. Head(out) \in Entry /\ Head(out) = out[1] /\ 1 \in 1 .. Len(out)
  BY QueueRead
<1>2. out[1][1] \in 1 .. enc.session /\ out[1][2] <= enc.n
  BY <1>1 DEF InQueue
<1>3. /\ st.session_id <= out[1][1] /\ (ok /\ st.fd = 0 => st.session_id < out[1][1])
      /\ \A g \in rec : g \in Entry /\ g[2] # 0 /\ g[2] < out[1][2]
  BY <1>1 DEF Ahead
<1> QED BY <1>1, <1>2, <1>3 DEF Coder

LEMMA AheadRead ==
  ASSUME NEW out \in Seq(Entry), out # <<>>, NEW enc \in Coder, InQueue(out, enc),
         NEW st \in State, NEW rec, NEW ok \in BOOLEAN, Ahead(out, enc, st, rec, ok),
         Head(out)[2] # 0,
         NEW st2 \in State, st2.session_id = Head(out)[1],
         NEW ok2 \in BOOLEAN, ok2 => st2.fd # 0
  PROVE  Ahead(Tail(out), enc, st2, rec \cup {Head(out)}, ok2)
<1>1. PICK f, rest : f = Head(out) /\ rest = Tail(out)
  OBVIOUS
<1>2. /\ f \in Entry /\ f[2] # 0 /\ f[2] <= enc.n /\ f[1] <= enc.session
      /\ \A g \in rec : g \in Entry /\ g[2] # 0 /\ g[2] < f[2]
  BY <1>1, FrameRead
<1>3. \A i \in 1 .. Len(rest) : /\ rest[i] \in Entry /\ f[1] <= rest[i][1]
                                /\ rest[i][2] # 0 => f[2] < rest[i][2]
  BY <1>1, QueueRead
<1>4. f[1] \in Nat /\ f[2] \in Nat /\ enc.n \in Nat
  BY <1>2 DEF Entry, Coder
<1>5. ASSUME NEW g \in rec \cup {f}
      PROVE  /\ g \in Entry /\ g[2] # 0 /\ g[2] <= enc.n
             /\ \A i \in 1 .. Len(rest) : rest[i][2] # 0 => g[2] < rest[i][2]
  <2>1. CASE g = f
    BY <1>2, <1>3, <2>1
  <2>2. CASE g \in rec
    <3>1. g \in Entry /\ g[2] # 0 /\ g[2] < f[2] /\ g[2] \in Nat
      BY <1>2, <2>2 DEF Entry
    <3>2. ASSUME NEW i \in 1 .. Len(rest), rest[i][2] # 0
          PROVE  g[2] < rest[i][2]
      <4>1. f[2] < rest[i][2] /\ rest[i][2] \in Nat
        BY <1>3, <3>2 DEF Entry
      <4> QED BY <1>4, <3>1, <4>1
    <3> QED BY <1>2, <1>4, <3>1, <3>2
  <2> QED BY <2>1, <2>2
<1>6. \A i \in 1 .. Len(rest) : st2.session_id <= rest[i][1]
  BY <1>1, <1>3
<1>7. Ahead(rest, enc, st2, rec \cup {f}, ok2)
  BY <1>1, <1>2, <1>5, <1>6 DEF Ahead
<1> QED BY <1>1, <1>7

\* At the end of a session the queue holds only frames of later ones.
LEMMA AheadEnd ==
  ASSUME NEW out \in Seq(Entry), out # <<>>, NEW enc \in Coder, InQueue(out, enc),
         NEW st \in State, NEW rec, NEW ok \in BOOLEAN, Ahead(out, enc, st, rec, ok),
         Head(out)[2] = 0,
         NEW st2 \in State, st2.session_id = st.session_id
  PROVE  Ahead(Tail(out), enc, st2, rec, ok)
<1>1. PICK f, rest : f = Head(out) /\ rest = Tail(out)
  OBVIOUS
<1>2. /\ f \in Entry /\ f = out[1] /\ 1 \in 1 .. Len(out) /\ f[1] \in Nat
      /\ enc.session \in Nat /\ st.session_id \in Nat
  BY <1>1, QueueRead DEF Entry, Coder, State
<1>3. st.session_id <= f[1] /\ st.session_id <= enc.session
  BY <1>2 DEF Ahead
<1>4. enc.on => f[1] < enc.session
  BY <1>1, <1>2 DEF InQueue
<1>5. \A i \in 1 .. Len(rest) : /\ i + 1 \in 1 .. Len(out) /\ rest[i] = out[i + 1]
                                /\ rest[i] \in Entry /\ f[1] < rest[i][1]
  BY <1>1, QueueRead
<1>6. \A i \in 1 .. Len(rest) : st.session_id < rest[i][1]
  <2>1. ASSUME NEW i \in 1 .. Len(rest)
        PROVE  st.session_id < rest[i][1]
    <3>1. f[1] < rest[i][1] /\ rest[i][1] \in Nat
      BY <1>5 DEF Entry
    <3> QED BY <1>2, <1>3, <3>1
  <2> QED BY <2>1
<1>7. \A i \in 1 .. Len(rest) : st.session_id <= rest[i][1]
  <2>1. ASSUME NEW i \in 1 .. Len(rest)
        PROVE  st.session_id <= rest[i][1]
    <3>1. rest[i][1] \in Nat /\ st.session_id < rest[i][1]
      BY <1>5, <1>6 DEF Entry
    <3> QED BY <1>2, <3>1
  <2> QED BY <2>1
<1>8. enc.on => st.session_id < enc.session
  BY <1>2, <1>3, <1>4
<1>9. \A g \in rec : /\ g \in Entry /\ g[2] # 0 /\ g[2] <= enc.n
                     /\ \A i \in 1 .. Len(rest) : rest[i][2] # 0 => g[2] < rest[i][2]
  BY <1>5 DEF Ahead
<1>10. Ahead(rest, enc, st2, rec, ok)
  BY <1>3, <1>6, <1>7, <1>8, <1>9 DEF Ahead
<1> QED BY <1>1, <1>10

\* The files that were there, perhaps with records added, and perhaps one more.
Extended(fs, fs2) ==
  /\ \A i \in 1 .. Len(fs) : fs2[i].frames = fs[i].frames /\ fs2[i].session = fs[i].session
  /\ \/ Len(fs2) = Len(fs)
     \/ Len(fs2) = Len(fs) + 1 /\ fs2[Len(fs) + 1].frames = <<>>
TakenOrLost(f, drp, fr2, drp2) ==
  \/ fr2 = f /\ drp2 = drp
  \/ fr2 = NoFrame /\ drp2 = drp \cup {f}

\* A frame that was read is in hand, or dropped; its files may have been created.
LEMMA KeptRead ==
  ASSUME NEW fs, NEW fs2, NEW n \in Nat, Len(fs) = n, Extended(fs, fs2),
         NEW rec, NEW drp, Kept(fs, NoFrame, rec, drp),
         NEW f \in Entry, \A g \in rec : g \in Entry /\ g[2] # 0 /\ g[2] < f[2],
         NEW fr2, NEW drp2, TakenOrLost(f, drp, fr2, drp2)
  PROVE  Kept(fs2, fr2, rec \cup {f}, drp2)
<1> USE DEF Extended, TakenOrLost
<1>1. f \notin rec /\ NoFrame \notin rec /\ f \notin drp /\ drp \subseteq rec
  <2>1. f \notin rec
    BY DEF Entry
  <2>2. NoFrame \notin rec
    BY DEF NoFrame
  <2>3. drp \subseteq rec
    BY DEF Kept
  <2> QED BY <2>1, <2>2, <2>3
<1>2. /\ \A i \in 1 .. Len(fs2) : i \in 1 .. n \/ (i = n + 1 /\ fs2[i].frames = <<>>)
      /\ \A i \in 1 .. n : i \in 1 .. Len(fs2)
  OBVIOUS
<1>3. \A i \in 1 .. Len(fs2) : \A k \in 1 .. Len(fs2[i].frames) :
         i \in 1 .. n /\ k \in 1 .. Len(fs[i].frames) /\ fs2[i].frames = fs[i].frames
         /\ fs2[i].session = fs[i].session
  <2>1. ASSUME NEW i \in 1 .. Len(fs2), NEW k \in 1 .. Len(fs2[i].frames)
        PROVE  i \in 1 .. n
    <3>1. ASSUME fs2[i].frames = <<>> PROVE FALSE
      <4>1. k \in 1 .. Len(<<>>)
        BY <3>1
      <4>2. Len(<<>>) = 0
        OBVIOUS
      <4> QED BY <4>1, <4>2
    <3> QED BY <1>2, <3>1
  <2> QED BY <2>1
<1>4. \A i \in 1 .. n : \A k \in 1 .. Len(fs[i].frames) :
        /\ fs[i].frames[k][1] = fs[i].session
        /\ fs[i].frames[k] \in rec \ drp
  BY DEF Kept
<1>5. ASSUME NEW i \in 1 .. Len(fs2), NEW k \in 1 .. Len(fs2[i].frames)
      PROVE  /\ fs2[i].frames[k][1] = fs2[i].session
             /\ fs2[i].frames[k] \in (rec \cup {f}) \ drp2
             /\ fr2 # NoFrame => fs2[i].frames[k][2] < fr2[2]
  <2>1. /\ fs[i].frames[k][1] = fs[i].session
        /\ fs[i].frames[k] \in rec \ drp
    BY <1>3, <1>4
  <2>2. fs2[i].frames[k] = fs[i].frames[k] /\ fs2[i].session = fs[i].session
    BY <1>3
  <2> QED BY <1>1, <2>1, <2>2
<1>6. ASSUME NEW g \in rec \cup {f}
      PROVE  g \in drp2 \/ g = fr2
             \/ \E i \in 1 .. Len(fs2) : \E k \in 1 .. Len(fs2[i].frames) : g = fs2[i].frames[k]
  <2>1. CASE g = f
    BY <2>1
  <2>2. CASE g \in rec
    <3>1. CASE g \in drp
      BY <3>1
    <3>2. CASE \E i \in 1 .. n : \E k \in 1 .. Len(fs[i].frames) : g = fs[i].frames[k]
      BY <1>2, <3>2
    <3> QED BY <1>1, <2>2, <3>1, <3>2 DEF Kept
  <2> QED BY <2>1, <2>2
<1>7. \A i, j \in 1 .. Len(fs2) :
       \A k \in 1 .. Len(fs2[i].frames), l \in 1 .. Len(fs2[j].frames) :
         i < j \/ (i = j /\ k < l) => fs2[i].frames[k][2] < fs2[j].frames[l][2]
  <2>1. \A i, j \in 1 .. n : \A k \in 1 .. Len(fs[i].frames), l \in 1 .. Len(fs[j].frames) :
          i < j \/ (i = j /\ k < l) => fs[i].frames[k][2] < fs[j].frames[l][2]
    BY DEF Kept
  <2>2. ASSUME NEW i \in 1 .. Len(fs2), NEW j \in 1 .. Len(fs2),
               NEW k \in 1 .. Len(fs2[i].frames), NEW l \in 1 .. Len(fs2[j].frames),
               i < j \/ (i = j /\ k < l)
        PROVE  fs2[i].frames[k][2] < fs2[j].frames[l][2]
    <3>1. /\ i \in 1 .. n /\ k \in 1 .. Len(fs[i].frames) /\ fs2[i].frames = fs[i].frames
          /\ j \in 1 .. n /\ l \in 1 .. Len(fs[j].frames) /\ fs2[j].frames = fs[j].frames
      BY <1>3
    <3>2. fs[i].frames[k][2] < fs[j].frames[l][2]
      BY <2>1, <2>2, <3>1
    <3> QED BY <3>1, <3>2
  <2> QED BY <2>2
<1>8. drp2 \subseteq rec \cup {f}
  BY <1>1
<1> QED BY <1>5, <1>6, <1>7, <1>8 DEF Kept

\* The frame in hand goes to the end of the last file.
LEMMA KeptWritten ==
  ASSUME NEW fs, NEW fs2, NEW n \in Nat \ {0}, Len(fs) = n, Len(fs2) = n,
         \A i \in 1 .. n : fs[i].frames \in Seq(Entry),
         NEW fr \in Entry, fr # NoFrame,
         \A i \in 1 .. n : fs2[i].session = fs[i].session,
         \A i \in 1 .. n - 1 : fs2[i].frames = fs[i].frames,
         fs2[n].frames = Append(fs[n].frames, fr), fr[1] = fs[n].session,
         NEW rec, NEW drp, Kept(fs, fr, rec, drp), fr \in rec, fr \notin drp
  PROVE  Kept(fs2, NoFrame, rec, drp)
<1>1. PICK m : m = Len(fs[n].frames)
  OBVIOUS
<1>2. /\ m \in Nat /\ Len(fs2[n].frames) = m + 1 /\ fs2[n].frames[m + 1] = fr
      /\ \A k \in 1 .. m : fs2[n].frames[k] = fs[n].frames[k]
  BY <1>1, AppendProperties, LenProperties
<1>3. ASSUME NEW i \in 1 .. n, NEW k \in 1 .. Len(fs2[i].frames)
      PROVE  \/ k \in 1 .. Len(fs[i].frames) /\ fs2[i].frames[k] = fs[i].frames[k]
             \/ i = n /\ k = m + 1 /\ fs2[i].frames[k] = fr
  <2>1. CASE i = n
    <3>1. k \in 1 .. m + 1
      BY <1>2, <2>1
    <3>2. k \in 1 .. m \/ k = m + 1
      BY <1>2, <3>1
    <3> QED BY <1>1, <1>2, <2>1, <3>2
  <2>2. CASE i # n
    <3>1. i \in 1 .. n - 1
      BY <2>2
    <3> QED BY <3>1
  <2> QED BY <2>1, <2>2
<1>4. \A i \in 1 .. n : \A k \in 1 .. Len(fs[i].frames) :
        /\ k \in 1 .. Len(fs2[i].frames) /\ fs2[i].frames[k] = fs[i].frames[k]
  <2>1. ASSUME NEW i \in 1 .. n, NEW k \in 1 .. Len(fs[i].frames)
        PROVE  k \in 1 .. Len(fs2[i].frames) /\ fs2[i].frames[k] = fs[i].frames[k]
    <3>1. CASE i = n
      <4>1. k \in 1 .. m
        BY <1>1, <3>1
      <4>2. k \in 1 .. m + 1
        BY <1>2, <4>1
      <4> QED BY <1>2, <3>1, <4>1, <4>2
    <3>2. CASE i # n
      <4>1. i \in 1 .. n - 1
        BY <3>2
      <4> QED BY <4>1
    <3> QED BY <3>1, <3>2
  <2> QED BY <2>1
<1>5. /\ \A i \in 1 .. n : \A k \in 1 .. Len(fs[i].frames) :
           /\ fs[i].frames[k][1] = fs[i].session
           /\ fs[i].frames[k] \in rec \ drp
           /\ fs[i].frames[k][2] < fr[2]
      /\ \A i, j \in 1 .. n : \A k \in 1 .. Len(fs[i].frames), l \in 1 .. Len(fs[j].frames) :
           i < j \/ (i = j /\ k < l) => fs[i].frames[k][2] < fs[j].frames[l][2]
  BY DEF Kept
<1>6. ASSUME NEW i \in 1 .. n, NEW k \in 1 .. Len(fs2[i].frames)
      PROVE  fs2[i].frames[k][1] = fs2[i].session /\ fs2[i].frames[k] \in rec \ drp
  BY <1>3, <1>5
<1>7. \A g \in rec : g \in drp
         \/ \E i \in 1 .. n : \E k \in 1 .. Len(fs2[i].frames) : g = fs2[i].frames[k]
  <2>1. ASSUME NEW g \in rec, g \notin drp
        PROVE  \E i \in 1 .. n : \E k \in 1 .. Len(fs2[i].frames) : g = fs2[i].frames[k]
    <3>1. CASE g = fr
      <4>1. n \in 1 .. n /\ m + 1 \in 1 .. Len(fs2[n].frames)
        BY <1>2
      <4> QED BY <1>2, <3>1, <4>1
    <3>2. CASE \E i \in 1 .. n : \E k \in 1 .. Len(fs[i].frames) : g = fs[i].frames[k]
      <4>1. PICK i \in 1 .. n : \E k \in 1 .. Len(fs[i].frames) : g = fs[i].frames[k]
        BY <3>2
      <4>2. PICK k \in 1 .. Len(fs[i].frames) : g = fs[i].frames[k]
        BY <4>1
      <4>3. k \in 1 .. Len(fs2[i].frames) /\ g = fs2[i].frames[k]
        BY <1>4, <4>2
      <4> QED BY <4>3
    <3> QED BY <2>1, <3>1, <3>2 DEF Kept
  <2> QED BY <2>1
<1>8. ASSUME NEW i \in 1 .. n, NEW j \in 1 .. n,
             NEW k \in 1 .. Len(fs2[i].frames), NEW l \in 1 .. Len(fs2[j].frames),
             i < j \/ (i = j /\ k < l)
      PROVE  fs2[i].frames[k][2] < fs2[j].frames[l][2]
  <2>1. ~ (i = n /\ k = m + 1)
    <3>1. SUFFICES ASSUME i = n, k = m + 1 PROVE FALSE
      OBVIOUS
    <3>2. j = n /\ k < l
      BY <1>8, <3>1
    <3>3. l \in 1 .. m + 1
      BY <1>2, <3>2
    <3> QED BY <1>2, <3>1, <3>2, <3>3
  <2>2. k \in 1 .. Len(fs[i].frames) /\ fs2[i].frames[k] = fs[i].frames[k]
    BY <1>3, <2>1
  <2>3. CASE l \in 1 .. Len(fs[j].frames) /\ fs2[j].frames[l] = fs[j].frames[l]
    <3>1. fs[i].frames[k][2] < fs[j].frames[l][2]
      BY <1>5, <1>8, <2>2, <2>3
    <3> QED BY <2>2, <2>3, <3>1
  <2>4. CASE fs2[j].frames[l] = fr
    <3>1. fs[i].frames[k][2] < fr[2]
      BY <1>5, <2>2
    <3> QED BY <2>2, <2>4, <3>1
  <2> QED BY <1>3, <2>3, <2>4
<1>9. drp \subseteq rec
  BY DEF Kept
<1>10. /\ \A i \in 1 .. n : \A k \in 1 .. Len(fs2[i].frames) :
           fs2[i].frames[k][1] = fs2[i].session /\ fs2[i].frames[k] \in rec \ drp
       /\ \A i, j \in 1 .. n : \A k \in 1 .. Len(fs2[i].frames), l \in 1 .. Len(fs2[j].frames) :
           i < j \/ (i = j /\ k < l) => fs2[i].frames[k][2] < fs2[j].frames[l][2]
  BY <1>6, <1>8
<1> QED BY <1>7, <1>9, <1>10 DEF Kept

LEMMA FileFields ==
  ASSUME NEW fs \in Seq(File)
  PROVE  /\ Len(fs) \in Nat
         /\ \A i \in 1 .. Len(fs) :
              /\ fs[i] \in File /\ fs[i].frames \in Seq(Entry) /\ Len(fs[i].frames) \in Nat
              /\ fs[i].session \in Nat /\ fs[i].records \in Nat
<1>1. Len(fs) \in Nat /\ \A i \in 1 .. Len(fs) : fs[i] \in File
  BY LenProperties, ElementOfSeq
<1>2. \A file \in File : /\ file.frames \in Seq(Entry) /\ file.session \in Nat
                         /\ file.records \in Nat
  BY DEF File
<1>3. \A x \in Seq(Entry) : Len(x) \in Nat
  BY LenProperties
<1> QED BY <1>1, <1>2, <1>3

NeedsFile(f, st, size) ==
  f[1] # st.session_id \/ (size /\ st.total_bytes > FileSize)

NameUsedAgain(file, file2, f) ==
  file.session = f[1] /\ file2.session = f[1] /\ file2.frames = <<>>

\* The list fs2 is fs with a new file for f behind it; its last file may have been emptied.
GetsFile(fs, fs2, f, info) ==
  /\ Len(fs2) = Len(fs) + 1
  /\ \A i \in 1 .. Len(fs) - 1 : fs2[i] = fs[i]
  /\ Len(fs) # 0 => \/ fs2[Len(fs)] = fs[Len(fs)]
                    \/ NameUsedAgain(fs[Len(fs)], fs2[Len(fs)], f) /\ fs2[Len(fs)].records = 0
  /\ fs2[Len(fs) + 1] = [session |-> f[1], frames |-> <<>>, records |-> IF info THEN 1 ELSE 0]

\* A new session, or a file over its size: the file before ends where it must.
LEMMA NewFileOpen ==
  ASSUME NEW fs \in Seq(File), NEW st \in State, NEW ok \in BOOLEAN, NEW size \in BOOLEAN,
         NEW info \in BOOLEAN,
         OpenOne(st, fs, NoFrame, ok, info), CutRight(st, fs, NoFrame, ok, size, info),
         NEW f \in Entry, f # NoFrame,
         NeedsFile(f, st, size), NEW fs2 \in Seq(File), GetsFile(fs, fs2, f, info),
         NEW st2 \in State, st2.fd = Len(fs) + 1, st2.session_id = f[1], st2.total_bytes = 1,
         st2.fd_info = IF info THEN Len(fs) + 1 ELSE st.fd_info
  PROVE  OpenOne(st2, fs2, f, ok, info) /\ CutRight(st2, fs2, f, ok, size, info)
<1> USE DEF GetsFile
<1>1. PICK n, new : n = Len(fs) /\ new = fs2[n + 1]
  OBVIOUS
<1>2. /\ n \in Nat /\ Len(fs2) = n + 1 /\ new.session = f[1] /\ new.frames = <<>>
      /\ new.records = (IF info THEN 1 ELSE 0) /\ Len(new.frames) = 0
      /\ \A i \in 1 .. n - 1 : fs2[i] = fs[i]
  BY <1>1, FileFields
<1>3. /\ st.session_id \in Nat /\ st.total_bytes \in Nat /\ st.fd_info \in Nat /\ f[1] \in Nat
      /\ \A i \in 1 .. n : Len(fs[i].frames) \in Nat
  BY <1>1, FileFields DEF State, Entry
<1>4. OpenOne(st2, fs2, f, ok, info)
  <2>1. ~ info => st2.fd_info = 0
    BY DEF OpenOne
  <2>2. st2.fd = n + 1 /\ st2.fd_info <= n + 1 /\ (info => st2.fd_info = st2.fd)
    BY <1>1, <1>2, <2>1
  <2>3. fs2[n + 1].session = f[1] /\ f[1] <= st2.session_id
    BY <1>1, <1>2, <1>3
  <2> QED BY <1>1, <1>2, <2>1, <2>2, <2>3 DEF OpenOne
<1>5. ASSUME ok
      PROVE  /\ size => /\ \A i \in 1 .. n + 1 : Len(fs2[i].frames) <= FileSize + 1
                        /\ st2.total_bytes <= FileSize + 1
             /\ \A i \in 1 .. n :
                  \/ fs2[i].session # fs2[i + 1].session
                  \/ size /\ Len(fs2[i].frames) \in {0, FileSize + 1}
             /\ info => \A i \in 1 .. n + 1 :
                  fs2[i].records = Len(fs2[i].frames) + (IF i = n + 1 THEN 1 ELSE 0)
  <2>1. /\ size => /\ \A i \in 1 .. n : Len(fs[i].frames) <= FileSize + 1
                   /\ n # 0 => st.total_bytes <= FileSize + 1
        /\ \A i \in 1 .. n - 1 : \/ fs[i].session # fs[i + 1].session
                                 \/ size /\ Len(fs[i].frames) \in {0, FileSize + 1}
        /\ info => \A i \in 1 .. n : fs[i].records = Len(fs[i].frames) + 0
    BY <1>1, <1>5 DEF CutRight
  <2>2. n # 0 => fs[n].session = st.session_id /\ st.total_bytes = Len(fs[n].frames) + 0
    BY <1>1, <1>5 DEF OpenOne
  <2>3. \A i \in 1 .. n + 1 : i \in 1 .. n - 1 \/ (i = n /\ n # 0) \/ i = n + 1
    BY <1>2
  <2>4. n # 0 => \/ fs2[n] = fs[n]
                 \/ /\ fs[n].session = f[1] /\ fs2[n].session = f[1]
                    /\ Len(fs2[n].frames) = 0 /\ fs2[n].records = 0
    BY <1>1 DEF NameUsedAgain
  <2>5. n # 0 => fs2[n].session = fs[n].session
    BY <2>4
  <2>6. \A i \in 1 .. n - 1 : i \in 1 .. n /\ i + 1 \in 1 .. n
    BY <1>2
  <2>7. size => \A i \in 1 .. n + 1 : Len(fs2[i].frames) <= FileSize + 1
    <3>1. ASSUME size, NEW i \in 1 .. n + 1 PROVE Len(fs2[i].frames) <= FileSize + 1
      <4>1. CASE i \in 1 .. n - 1
        BY <1>2, <2>1, <2>6, <3>1, <4>1
      <4>2. CASE i = n /\ n # 0
        <5>1. n \in 1 .. n /\ Len(fs[n].frames) <= FileSize + 1
          BY <1>2, <2>1, <3>1, <4>2
        <5> QED BY <2>4, <4>2, <5>1, RecorderSizes
      <4>3. CASE i = n + 1
        BY <1>1, <1>2, <4>3, RecorderSizes
      <4> QED BY <2>3, <4>1, <4>2, <4>3
    <3> QED BY <3>1
  <2>8. ASSUME NEW i \in 1 .. n
        PROVE  \/ fs2[i].session # fs2[i + 1].session
               \/ size /\ Len(fs2[i].frames) \in {0, FileSize + 1}
    <3>1. CASE i = n
      <4>1. fs2[i + 1].session = f[1] /\ n # 0 /\ fs2[i].session = st.session_id
        BY <1>1, <1>2, <2>2, <2>5, <3>1
      <4>2. CASE f[1] # st.session_id
        BY <4>1, <4>2
      <4>3. CASE size /\ st.total_bytes > FileSize
        <5>1. PICK k : k = Len(fs[n].frames)
          OBVIOUS
        <5>2. k \in Nat /\ st.total_bytes = k + 0
          BY <1>3, <2>2, <3>1, <4>1, <5>1
        <5>3. st.total_bytes <= FileSize + 1
          BY <2>1, <4>1, <4>3
        <5>4. k = FileSize + 1
          BY <4>3, <5>2, <5>3, RecorderSizes
        <5>5. Len(fs2[n].frames) = k \/ Len(fs2[n].frames) = 0
          BY <2>4, <4>1, <5>1
        <5> QED BY <3>1, <4>3, <5>4, <5>5
      <4> QED BY <4>2, <4>3 DEF NeedsFile
    <3>2. CASE i # n
      <4>1. i \in 1 .. n - 1 /\ i + 1 \in 1 .. n
        BY <1>2, <3>2
      <4>2. fs2[i] = fs[i] /\ fs2[i + 1].session = fs[i + 1].session
        <5>1. i + 1 = n \/ i + 1 \in 1 .. n - 1
          BY <1>2, <4>1
        <5> QED BY <1>2, <2>5, <4>1, <5>1
      <4> QED BY <2>1, <4>1, <4>2
    <3> QED BY <3>1, <3>2
  <2>9. ASSUME info, NEW i \in 1 .. n + 1
        PROVE  fs2[i].records = Len(fs2[i].frames) + (IF i = n + 1 THEN 1 ELSE 0)
    <3>1. CASE i = n + 1
      <4>1. fs2[i] = new
        BY <1>1, <3>1
      <4> QED BY <1>2, <2>9, <3>1, <4>1
    <3>2. CASE i \in 1 .. n - 1
      <4>1. fs2[i] = fs[i] /\ i # n + 1 /\ fs[i].records = Len(fs[i].frames) + 0
        BY <1>2, <2>1, <2>6, <2>9, <3>2, SMTT(60)
      <4> QED BY <4>1
    <3>3. CASE i = n /\ n # 0
      <4>1. i # n + 1 /\ n \in 1 .. n /\ fs[n].records = Len(fs[n].frames) + 0
        BY <1>2, <2>1, <2>9, <3>3
      <4>2. CASE fs2[n] = fs[n]
        BY <3>3, <4>1, <4>2
      <4>3. CASE Len(fs2[n].frames) = 0 /\ fs2[n].records = 0
        BY <3>3, <4>1, <4>3
      <4> QED BY <2>4, <3>3, <4>2, <4>3
    <3> QED BY <2>3, <3>1, <3>2, <3>3
  <2>10. st2.total_bytes <= FileSize + 1
    BY RecorderSizes
  <2> QED BY <2>7, <2>8, <2>9, <2>10
<1>6. Len(fs2) - 1 = n
  BY <1>2
<1>7. ASSUME ok, info, NEW i \in 1 .. Len(fs2)
      PROVE  fs2[i].records =
               Len(fs2[i].frames) + (IF f # NoFrame /\ i = Len(fs2) THEN 1 ELSE 0)
  BY <1>2, <1>5, <1>7
<1>8. CutRight(st2, fs2, f, ok, size, info)
  BY <1>2, <1>5, <1>6, <1>7 DEF CutRight
<1> QED BY <1>4, <1>8

LEMMA NotedRecord ==
  ASSUME NEW list \in Seq(File), NEW i \in 0 .. Len(list)
  PROVE  /\ Noted(list, i) \in Seq(File) /\ Len(Noted(list, i)) = Len(list)
         /\ \A j \in 1 .. Len(list) :
              /\ j # i => Noted(list, i)[j] = list[j]
              /\ j = i => Noted(list, i)[j] = [list[j] EXCEPT !.records = @ + 1]
<1>1. CASE i = 0
  <2>1. \A j \in 1 .. Len(list) : j # i
    BY <1>1
  <2> QED BY <1>1, <2>1 DEF Noted
<1>2. CASE i # 0
  <2>1. i \in 1 .. Len(list) /\ list[i] \in File
    BY <1>2, FileFields
  <2>2. [list[i] EXCEPT !.records = @ + 1] \in File
    <3>1. ASSUME NEW file \in File PROVE [file EXCEPT !.records = @ + 1] \in File
      <4>1. file.records + 1 \in Nat
        BY DEF File
      <4> QED BY <4>1, Zenon DEF File
    <3> QED BY <2>1, <3>1
  <2>3. Noted(list, i) = [list EXCEPT ![i] = [list[i] EXCEPT !.records = @ + 1]]
    BY <1>2 DEF Noted
  <2> QED BY <2>1, <2>2, <2>3, ExceptSeq
<1> QED BY <1>1, <1>2

LEMMA NotedFields ==
  ASSUME NEW list \in Seq(File), NEW i \in 0 .. Len(list), NEW new, new = Noted(list, i)
  PROVE  /\ new \in Seq(File) /\ Len(new) = Len(list)
         /\ \A j \in 1 .. Len(list) :
              /\ new[j].session = list[j].session /\ new[j].frames = list[j].frames
              /\ new[j].records = list[j].records + (IF j = i THEN 1 ELSE 0)
<1>1. /\ new \in Seq(File) /\ Len(new) = Len(list)
      /\ \A j \in 1 .. Len(list) :
           /\ j # i => new[j] = list[j]
           /\ j = i => new[j] = [list[j] EXCEPT !.records = @ + 1]
  BY NotedRecord
<1>2. ASSUME NEW j \in 1 .. Len(list)
      PROVE  /\ new[j].session = list[j].session /\ new[j].frames = list[j].frames
             /\ new[j].records = list[j].records + (IF j = i THEN 1 ELSE 0)
  <2>1. list[j] \in File /\ list[j].records \in Nat
    BY FileFields
  <2>2. CASE j = i
    <3>1. new[j] = [list[j] EXCEPT !.records = @ + 1]
      BY <1>1, <2>2
    <3> QED BY <2>1, <2>2, <3>1 DEF File
  <2>3. CASE j # i
    <3>1. new[j] = list[j]
      BY <1>1, <2>3
    <3> QED BY <2>1, <2>3, <3>1
  <2> QED BY <2>2, <2>3
<1> QED BY <1>1, <1>2

HasFiles(st, info) == st.fd # 0 /\ (info => st.fd_info # 0)

\* The next frame of the file that is open.
LEMMA SameFileOpen ==
  ASSUME NEW fs \in Seq(File), NEW st \in State, NEW ok \in BOOLEAN, NEW size \in BOOLEAN,
         NEW info \in BOOLEAN,
         OpenOne(st, fs, NoFrame, ok, info), CutRight(st, fs, NoFrame, ok, size, info),
         NEW f \in Entry, f # NoFrame,
         ~ NeedsFile(f, st, size), HasFiles(st, info), NEW fs2, fs2 = Noted(fs, st.fd_info),
         NEW st2 \in State, st2.fd = st.fd, st2.fd_info = st.fd_info,
         st2.session_id = st.session_id, st2.total_bytes = st.total_bytes + 1
  PROVE  OpenOne(st2, fs2, f, ok, info) /\ CutRight(st2, fs2, f, ok, size, info)
<1>1. PICK n : n = Len(fs)
  OBVIOUS
<1>2. /\ n \in Nat \ {0} /\ Len(fs2) = n /\ st.fd = n
      /\ \A i \in 1 .. n : /\ Len(fs[i].frames) \in Nat /\ fs[i].records \in Nat
                           /\ fs2[i].session = fs[i].session /\ fs2[i].frames = fs[i].frames
                           /\ fs2[i].records = fs[i].records + (IF i = st.fd_info THEN 1 ELSE 0)
      /\ n \in 1 .. n
  <2>1. n \in Nat \ {0} /\ st.fd = n /\ n \in 1 .. n
    BY <1>1, FileFields DEF OpenOne, HasFiles
  <2>2. st.fd_info \in 0 .. Len(fs)
    BY <1>1, <2>1 DEF OpenOne, State
  <2>3. /\ Len(fs2) = Len(fs)
        /\ \A i \in 1 .. Len(fs) :
             /\ fs2[i].session = fs[i].session /\ fs2[i].frames = fs[i].frames
             /\ fs2[i].records = fs[i].records + (IF i = st.fd_info THEN 1 ELSE 0)
    BY <2>2, NotedFields
  <2> QED BY <1>1, <2>1, <2>3, FileFields
<1>3. /\ st.fd_info <= n /\ fs[n].session = st.session_id
      /\ ~ info => st.fd_info = 0
      /\ ok => /\ st.total_bytes = Len(fs[n].frames) + 0
               /\ info => st.fd_info = n
  BY <1>1, <1>2 DEF OpenOne
<1>4. OpenOne(st2, fs2, f, ok, info)
  <2>1. fs2[n].session <= st2.session_id
    BY <1>1, <1>2, <1>3 DEF OpenOne
  <2> QED BY <1>2, <1>3, <2>1 DEF OpenOne, HasFiles
<1>5. /\ \A i \in 1 .. n - 1 : i \in 1 .. n /\ i + 1 \in 1 .. n
      /\ st.total_bytes \in Nat /\ FileSize \in Nat
  BY <1>2, RecorderSizes DEF State
<1>6. ASSUME ok
      PROVE  /\ size => /\ \A i \in 1 .. n : Len(fs2[i].frames) <= FileSize + 1
                        /\ st2.total_bytes <= FileSize + 1
             /\ \A i \in 1 .. n - 1 :
                  \/ fs2[i].session # fs2[i + 1].session
                  \/ size /\ Len(fs2[i].frames) \in {0, FileSize + 1}
  <2>1. /\ size => \A i \in 1 .. n : Len(fs[i].frames) <= FileSize + 1
        /\ \A i \in 1 .. n - 1 : \/ fs[i].session # fs[i + 1].session
                                 \/ size /\ Len(fs[i].frames) \in {0, FileSize + 1}
    BY <1>1, <1>6 DEF CutRight
  <2>2. size => st2.total_bytes <= FileSize + 1
    <3>1. ~ (size /\ st.total_bytes > FileSize)
      BY DEF NeedsFile
    <3> QED BY <1>5, <3>1
  <2> QED BY <1>2, <1>5, <2>1, <2>2
<1>7. ASSUME ok, info, NEW i \in 1 .. n
      PROVE  fs2[i].records = Len(fs2[i].frames) + (IF i = n THEN 1 ELSE 0)
  <2>1. fs[i].records = Len(fs[i].frames) + 0
    BY <1>1, <1>7 DEF CutRight
  <2>2. fs2[i].records = fs[i].records + (IF i = n THEN 1 ELSE 0)
    BY <1>1, <1>2, <1>3, <1>7
  <2>3. PICK k, r : k = Len(fs[i].frames) /\ r = fs[i].records
    OBVIOUS
  <2>4. k \in Nat /\ r \in Nat /\ Len(fs2[i].frames) = k
    BY <1>2, <2>3
  <2>5. fs2[i].records = r + (IF i = n THEN 1 ELSE 0) /\ r = k
    BY <2>1, <2>2, <2>3, <2>4
  <2> QED BY <2>4, <2>5
<1>8. CutRight(st2, fs2, f, ok, size, info)
  <2>1. Len(fs2) = n
    BY <1>2
  <2> QED BY <2>1, <1>6, <1>7 DEF CutRight
<1> QED BY <1>4, <1>8

\* The list fs2 is fs with the frame f at the end of its file fd.
GetsFrame(fs, fs2, fd, f) ==
  /\ Len(fs2) = Len(fs)
  /\ \A i \in 1 .. Len(fs) :
       /\ fs2[i].session = fs[i].session /\ fs2[i].records = fs[i].records
       /\ fs2[i].frames = IF i = fd THEN Append(fs[i].frames, f) ELSE fs[i].frames

\* The frame in hand is written.
LEMMA FrameWritten ==
  ASSUME NEW fs \in Seq(File), NEW st \in State, NEW ok \in BOOLEAN, NEW size \in BOOLEAN,
         NEW info \in BOOLEAN, NEW f \in Entry, f # NoFrame, st.fd # 0,
         OpenOne(st, fs, f, ok, info), CutRight(st, fs, f, ok, size, info),
         NEW fs2 \in Seq(File), GetsFrame(fs, fs2, st.fd, f)
  PROVE  OpenOne(st, fs2, NoFrame, ok, info) /\ CutRight(st, fs2, NoFrame, ok, size, info)
<1> USE DEF GetsFrame
<1>1. PICK n, k : n = Len(fs) /\ k = Len(fs[n].frames)
  OBVIOUS
<1>2. /\ n \in Nat \ {0} /\ Len(fs2) = n /\ st.fd = n /\ n \in 1 .. n /\ k \in Nat
      /\ \A i \in 1 .. n : /\ Len(fs[i].frames) \in Nat /\ fs2[i].session = fs[i].session
                           /\ fs2[i].records = fs[i].records
  BY <1>1, FileFields DEF OpenOne
<1>3. Len(fs2[n].frames) = k + 1
  <2>1. fs2[n].frames = Append(fs[n].frames, f) /\ fs[n].frames \in Seq(Entry)
    BY <1>1, <1>2, FileFields
  <2> QED BY <1>1, <2>1, AppendProperties
<1>4. \A i \in 1 .. n : i # n => fs2[i].frames = fs[i].frames
  BY <1>1, <1>2
<1>5. /\ st.fd_info <= n /\ fs[n].session = st.session_id
      /\ ~ info => st.fd_info = 0
      /\ ok => /\ st.total_bytes = k + 1
               /\ info => st.fd_info = n
  BY <1>1, <1>2 DEF OpenOne
<1>6. k + 1 + 0 = k + 1 /\ FileSize \in Nat
  BY <1>2, RecorderSizes
<1>7. OpenOne(st, fs2, NoFrame, ok, info)
  <2>1. ok => st.total_bytes = Len(fs2[n].frames) + 0
    BY <1>3, <1>5, <1>6
  <2>2. fs2[n].session <= st.session_id
    BY <1>1, <1>2 DEF OpenOne
  <2> QED BY <1>2, <1>5, <2>1, <2>2 DEF OpenOne
<1>8. ASSUME ok
      PROVE  /\ size => /\ \A i \in 1 .. n : Len(fs2[i].frames) <= FileSize + 1
                        /\ st.total_bytes <= FileSize + 1
             /\ \A i \in 1 .. n - 1 :
                  \/ fs2[i].session # fs2[i + 1].session
                  \/ size /\ Len(fs2[i].frames) \in {0, FileSize + 1}
             /\ info => \A i \in 1 .. n : fs2[i].records = Len(fs2[i].frames) + 0
  <2>1. /\ size => /\ \A i \in 1 .. n : Len(fs[i].frames) <= FileSize + 1
                   /\ st.total_bytes <= FileSize + 1
        /\ \A i \in 1 .. n - 1 : \/ fs[i].session # fs[i + 1].session
                                 \/ size /\ Len(fs[i].frames) \in {0, FileSize + 1}
        /\ info => \A i \in 1 .. n :
             fs[i].records = Len(fs[i].frames) + (IF i = n THEN 1 ELSE 0)
    BY <1>1, <1>2, <1>8 DEF CutRight
  <2>2. ASSUME size, NEW i \in 1 .. n
        PROVE  Len(fs2[i].frames) <= FileSize + 1
    <3>1. CASE i = n
      BY <1>3, <1>5, <1>8, <2>1, <2>2, <3>1
    <3>2. CASE i # n
      BY <1>4, <2>1, <2>2, <3>2
    <3> QED BY <3>1, <3>2
  <2>3. \A i \in 1 .. n - 1 : i \in 1 .. n /\ i + 1 \in 1 .. n /\ i # n
    BY <1>2
  <2>4. \A i \in 1 .. n - 1 : \/ fs2[i].session # fs2[i + 1].session
                              \/ size /\ Len(fs2[i].frames) \in {0, FileSize + 1}
    BY <1>2, <1>4, <2>1, <2>3
  <2>5. ASSUME info, NEW i \in 1 .. n
        PROVE  fs2[i].records = Len(fs2[i].frames) + 0
    <3>1. CASE i = n
      <4>1. fs2[n].records = k + 1
        BY <1>1, <1>2, <2>1, <2>5
      <4> QED BY <1>3, <1>6, <3>1, <4>1
    <3>2. CASE i # n
      <4>1. fs2[i].records = Len(fs[i].frames) + 0 /\ fs2[i].frames = fs[i].frames
        BY <1>2, <1>4, <2>1, <2>5, <3>2
      <4> QED BY <4>1
    <3> QED BY <3>1, <3>2
  <2> QED BY <2>1, <2>2, <2>4, <2>5
<1>9. CutRight(st, fs2, NoFrame, ok, size, info)
  <2>1. ok /\ info => \A i \in 1 .. n :
          fs2[i].records = Len(fs2[i].frames)
                             + (IF NoFrame # NoFrame /\ i = Len(fs2) THEN 1 ELSE 0)
    BY <1>8
  <2> QED BY <1>2, <1>8, <2>1 DEF CutRight
<1> QED BY <1>7, <1>9

\* The end of a session: its files are closed.
LEMMA FilesClosed ==
  ASSUME NEW fs, NEW st, NEW ok, NEW size, NEW info,
         OpenOne(st, fs, NoFrame, ok, info), CutRight(st, fs, NoFrame, ok, size, info),
         NEW st2, st2.fd = 0, st2.fd_info = 0, st2.session_id = st.session_id,
         st2.total_bytes = st.total_bytes, Len(fs) \in Nat
  PROVE  OpenOne(st2, fs, NoFrame, ok, info) /\ CutRight(st2, fs, NoFrame, ok, size, info)
<1>1. OpenOne(st2, fs, NoFrame, ok, info)
  BY DEF OpenOne
<1>2. CutRight(st2, fs, NoFrame, ok, size, info)
  BY DEF CutRight
<1> QED BY <1>1, <1>2

LEMMA StreamTyped ==
  ASSUME RecorderTypes, NEW s \in RecordStreams
  PROVE  /\ output[s] \in Seq(Entry) /\ encoder[s] \in Coder /\ encoding_states[s] \in State
         /\ files[s] \in Seq(File) /\ frame[s] \in Entry /\ received[s] \in SUBSET Entry
         /\ GoneOf(s) \subseteq Entry /\ Len(files[s]) \in Nat
         /\ file_size_flag \in BOOLEAN /\ frame_info_flag \in BOOLEAN
         /\ leaked \in Nat /\ failures \in Nat
<1>1. /\ output[s] \in Seq(Entry) /\ encoder[s] \in Coder /\ encoding_states[s] \in State
      /\ files[s] \in Seq(File) /\ frame[s] \in Entry /\ received[s] \in SUBSET Entry
      /\ file_size_flag \in BOOLEAN /\ frame_info_flag \in BOOLEAN
      /\ leaked \in Nat /\ failures \in Nat
  BY DEF RecorderTypes
<1>2. GoneOf(s) \subseteq Entry
  BY DEF GoneOf
<1> QED BY <1>1, <1>2, FileFields

\* A stream that a step leaves alone; another one may fail to get its files.
LEMMA Unmoved ==
  ASSUME NEW s \in RecordStreams, StreamInv(s),
         output'[s] = output[s], encoder'[s] = encoder[s],
         encoding_states'[s] = encoding_states[s], files'[s] = files[s], frame'[s] = frame[s],
         received'[s] = received[s], GoneOf(s)' = GoneOf(s),
         failures' = 0 => failures = 0, UNCHANGED optionVars,
         reading'[s] = "write" => reading[s] = "write",
         reading'[s] \in {"none", "look", "get"} => frame[s] = NoFrame
  PROVE  StreamInv(s)'
<1>1. PICK out, enc, st, fs, fr, rd, rec, drp :
        /\ out = output'[s] /\ enc = encoder'[s] /\ st = encoding_states'[s]
        /\ fs = files'[s] /\ fr = frame'[s] /\ rd = reading'[s] /\ rec = received'[s]
        /\ drp = GoneOf(s)'
  OBVIOUS
<1>2. PICK ok, ok2 : ok = (failures = 0) /\ ok2 = (failures' = 0)
  OBVIOUS
<1>3. /\ InQueue(out, enc) /\ Ahead(out, enc, st, rec, ok)
      /\ OpenOne(st, fs, fr, ok, frame_info_flag)
      /\ InHand(fr, reading[s], st, rec, drp) /\ Kept(fs, fr, rec, drp)
      /\ CutRight(st, fs, fr, ok, file_size_flag, frame_info_flag)
  BY <1>1, <1>2 DEF StreamInv
<1>4. ok2 => ok
  BY <1>2
<1>5. Ahead(out, enc, st, rec, ok2)
  BY <1>3, <1>4 DEF Ahead
<1>6. OpenOne(st, fs, fr, ok2, frame_info_flag)
  BY <1>3, <1>4 DEF OpenOne
<1>7. CutRight(st, fs, fr, ok2, file_size_flag, frame_info_flag)
  BY <1>3, <1>4 DEF CutRight
<1>8. InHand(fr, rd, st, rec, drp)
  BY <1>1, <1>3 DEF InHand
<1>9. file_size_flag' = file_size_flag /\ frame_info_flag' = frame_info_flag
  BY DEF optionVars
<1> QED BY <1>1, <1>2, <1>3, <1>5, <1>6, <1>7, <1>8, <1>9 DEF StreamInv

LEMMA EndRead ==
  ASSUME RecorderTypes, NEW s \in RecordStreams, StreamInv(s), frame[s] = NoFrame,
         output[s] # <<>>, Head(output[s])[2] = 0, StreamEnd(s), UNCHANGED <<optionVars, encoder>>,
         output'[s] = Tail(output[s]), reading'[s] # "write"
  PROVE  /\ StreamInv(s)' /\ encoding_states' \in [RecordStreams -> State] /\ leaked' \in Nat
         /\ \A t \in RecordStreams : t # s => encoding_states'[t] = encoding_states[t]
<1>1. /\ output[s] \in Seq(Entry) /\ encoder[s] \in Coder /\ encoding_states[s] \in State
      /\ files[s] \in Seq(File) /\ Len(files[s]) \in Nat /\ leaked \in Nat
  BY StreamTyped
<1>2. PICK st : st = encoding_states'[s]
  OBVIOUS
<1>3. encoding_states' = [encoding_states EXCEPT ![s] =
                            [encoding_states[s] EXCEPT !.fd = 0, !.fd_info = 0]]
  BY DEF StreamEnd, RecorderTypes
<1>4. [encoding_states[s] EXCEPT !.fd = 0, !.fd_info = 0] \in State
  BY <1>1 DEF State
<1>5. st = [encoding_states[s] EXCEPT !.fd = 0, !.fd_info = 0]
  BY <1>2, <1>3 DEF RecorderTypes
<1>6. /\ st \in State /\ st.fd = 0 /\ st.fd_info = 0
      /\ st.session_id = encoding_states[s].session_id
      /\ st.total_bytes = encoding_states[s].total_bytes
  BY <1>1, <1>4, <1>5 DEF State
<1>7. PICK ok : ok = (failures = 0)
  OBVIOUS
<1>8. ok \in BOOLEAN
  BY <1>7
<1>9. /\ InQueue(output[s], encoder[s])
      /\ Ahead(output[s], encoder[s], encoding_states[s], received[s], ok)
      /\ OpenOne(encoding_states[s], files[s], NoFrame, ok, frame_info_flag)
      /\ Kept(files[s], NoFrame, received[s], GoneOf(s))
      /\ CutRight(encoding_states[s], files[s], NoFrame, ok, file_size_flag, frame_info_flag)
  BY <1>7 DEF StreamInv
<1>10. InQueue(Tail(output[s]), encoder[s])
  BY <1>1, <1>9, QueueRead
<1>11. Ahead(Tail(output[s]), encoder[s], st, received[s], ok)
  BY <1>1, <1>6, <1>8, <1>9, AheadEnd
<1>12. /\ OpenOne(st, files[s], NoFrame, ok, frame_info_flag)
       /\ CutRight(st, files[s], NoFrame, ok, file_size_flag, frame_info_flag)
  BY <1>1, <1>6, <1>9, FilesClosed
<1>13. InHand(NoFrame, reading'[s], st, received[s], GoneOf(s))
  BY DEF InHand
<1>14. /\ frame'[s] = NoFrame /\ files'[s] = files[s] /\ received'[s] = received[s]
       /\ GoneOf(s)' = GoneOf(s) /\ (failures' = 0) = ok /\ encoder'[s] = encoder[s]
       /\ file_size_flag' = file_size_flag /\ frame_info_flag' = frame_info_flag
  BY <1>7 DEF StreamEnd, GoneOf, optionVars
<1>15. StreamInv(s)'
  BY <1>2, <1>9, <1>10, <1>11, <1>12, <1>13, <1>14 DEF StreamInv
<1>16. encoding_states' \in [RecordStreams -> State]
  BY <1>3, <1>4 DEF RecorderTypes
<1>17. leaked' \in Nat
  BY <1>1 DEF StreamEnd
<1>18. \A t \in RecordStreams : t # s => encoding_states'[t] = encoding_states[t]
  BY <1>3 DEF RecorderTypes
<1> QED BY <1>15, <1>16, <1>17, <1>18

\* What a step of stream s loses.
Loses(s, lost) ==
  dropped' \cup overwritten' = (dropped \cup overwritten) \cup {<<s, g>> : g \in lost}

LEMMA GoneMoves ==
  ASSUME NEW s \in RecordStreams, NEW lost \in SUBSET Entry, Loses(s, lost)
  PROVE  /\ GoneOf(s)' = GoneOf(s) \cup lost
         /\ \A t \in RecordStreams : t # s => GoneOf(t)' = GoneOf(t)
BY DEF Loses, GoneOf

LEMMA DropOne ==
  ASSUME NEW s \in RecordStreams, NEW f \in Entry, dropped' = dropped \cup {<<s, f>>},
         UNCHANGED overwritten
  PROVE  /\ GoneOf(s)' = GoneOf(s) \cup {f}
         /\ \A t \in RecordStreams : t # s => GoneOf(t)' = GoneOf(t)
         /\ dropped \subseteq RecordStreams \X Entry => dropped' \subseteq RecordStreams \X Entry
<1>1. Loses(s, {f})
  BY DEF Loses
<1>2. {f} \in SUBSET Entry
  OBVIOUS
<1> QED BY <1>1, <1>2, GoneMoves

LEMMA DropNone ==
  ASSUME UNCHANGED <<dropped, overwritten>>
  PROVE  \A t \in RecordStreams : GoneOf(t)' = GoneOf(t)
BY DEF GoneOf

\* What a step of stream s does to the types and to the other streams.
WriterMoves(s) ==
  /\ encoding_states' \in [RecordStreams -> State] /\ files' \in [RecordStreams -> Seq(File)]
  /\ frame' \in [RecordStreams -> Entry] /\ received' \in [RecordStreams -> SUBSET Entry]
  /\ dropped' \subseteq RecordStreams \X Entry
  /\ overwritten' \subseteq RecordStreams \X Entry
  /\ ~ file_size_flag => overwritten' = {}
  /\ leaked' \in Nat /\ failures' \in 0 .. MaxFailures
  /\ failures' = 0 => failures = 0 /\ dropped' = {}
  /\ \A t \in RecordStreams : t # s =>
       /\ encoding_states'[t] = encoding_states[t] /\ files'[t] = files[t]
       /\ frame'[t] = frame[t] /\ received'[t] = received[t] /\ GoneOf(t)' = GoneOf(t)

LEMMA EmptyFile ==
  ASSUME NEW f \in Entry
  PROVE  [session |-> f[1], frames |-> <<>>, records |-> 0] \in File
<1>1. f[1] \in Nat /\ <<>> \in Seq(Entry)
  BY EmptySeq DEF Entry
<1> QED BY <1>1 DEF File

\* The file that check_session_file_handle opens, and the record in its frame info file.
LEMMA FileCreated ==
  ASSUME NEW list \in Seq(File), NEW n \in Nat, n = Len(list), NEW f \in Entry,
         NEW file, file = [session |-> f[1], frames |-> <<>>, records |-> 0],
         NEW noted \in BOOLEAN, NEW new,
         new = Noted(Append(list, file), IF noted THEN n + 1 ELSE 0)
  PROVE  /\ new \in Seq(File) /\ Len(new) = n + 1 /\ \A i \in 1 .. n : new[i] = list[i]
         /\ new[n + 1] = [session |-> f[1], frames |-> <<>>,
                          records |-> IF noted THEN 1 ELSE 0]
<1>1. file \in File
  BY EmptyFile
<1>2. PICK more : more = Append(list, file)
  OBVIOUS
<1>3. /\ more \in Seq(File) /\ Len(more) = n + 1 /\ more[n + 1] = file
      /\ \A i \in 1 .. n : more[i] = list[i]
  BY <1>1, <1>2, AppendProperties
<1>4. PICK i : i = IF noted THEN n + 1 ELSE 0
  OBVIOUS
<1>5. i \in 0 .. Len(more)
  BY <1>3, <1>4
<1>6. new = Noted(more, i)
  BY <1>2, <1>4
<1>7. /\ new \in Seq(File) /\ Len(new) = n + 1
      /\ \A j \in 1 .. n + 1 : /\ j # i => new[j] = more[j]
                               /\ j = i => new[j] = [more[j] EXCEPT !.records = @ + 1]
  <2>1. /\ new \in Seq(File) /\ Len(new) = Len(more)
        /\ \A j \in 1 .. Len(more) :
             /\ j # i => new[j] = more[j]
             /\ j = i => new[j] = [more[j] EXCEPT !.records = @ + 1]
    <3>1. more \in Seq(File)
      BY <1>3
    <3> QED BY <1>5, <1>6, <3>1, NotedRecord
  <2> QED BY <1>3, <2>1
<1>8. \A j \in 1 .. n : new[j] = list[j]
  <2>1. \A j \in 1 .. n : j \in 1 .. n + 1 /\ j # i
    BY <1>4
  <2> QED BY <1>3, <1>7, <2>1
<1>9. new[n + 1] = [session |-> f[1], frames |-> <<>>, records |-> IF noted THEN 1 ELSE 0]
  <2>1. n + 1 \in 1 .. n + 1
    OBVIOUS
  <2>2. CASE noted
    <3>1. new[n + 1] = [file EXCEPT !.records = @ + 1]
      BY <1>3, <1>4, <1>7, <2>1, <2>2
    <3> QED BY <2>2, <3>1
  <2>3. CASE ~ noted
    <3>1. n + 1 # i
      BY <1>4, <2>3
    <3>2. new[n + 1] = file
      BY <1>3, <1>7, <2>1, <3>1
    <3> QED BY <2>3, <3>2
  <2> QED BY <2>2, <2>3
<1> QED BY <1>2, <1>3, <1>4, <1>6, <1>7, <1>8, <1>9

LEMMA FdInfoIs ==
  ASSUME NEW s, NEW made \in Creates
  PROVE  /\ made = "both" => FdInfo(s, made) = (IF frame_info_flag THEN Len(files[s]) + 1
                                                ELSE encoding_states[s].fd_info)
         /\ made = "header" /\ frame_info_flag => FdInfo(s, made) = Len(files[s]) + 1
         /\ made = "none" => FdInfo(s, made) = encoding_states[s].fd_info
         /\ made = "video" /\ frame_info_flag => FdInfo(s, made) = 0
<1>1. CASE ~ frame_info_flag
  BY <1>1 DEF FdInfo
<1>2. CASE frame_info_flag /\ made = "none"
  BY <1>2 DEF FdInfo, Creates
<1>3. CASE frame_info_flag /\ made \in {"both", "header"}
  BY <1>3 DEF FdInfo
<1>4. CASE frame_info_flag /\ made = "video"
  BY <1>4 DEF FdInfo
<1> QED BY <1>1, <1>2, <1>3, <1>4 DEF Creates

\* The files there are when the new one is opened: as they were, or the last one emptied.
Opened(list, made, same) == IF same THEN Emptied(list, made) ELSE list
LostTo(list, same) == IF same THEN Range(Last(list).frames) ELSE {}

LastEmptied(list, b, n, made) ==
  /\ b \in Seq(File) /\ Len(b) = n /\ \A i \in 1 .. n - 1 : b[i] = list[i]
  /\ b[n].session = list[n].session /\ b[n].frames = <<>>
  /\ made = "both" => b[n].records = 0

LEMMA EmptiedIs ==
  ASSUME NEW list \in Seq(File), NEW n \in Nat \ {0}, n = Len(list), NEW made,
         NEW b, b = Emptied(list, made)
  PROVE  LastEmptied(list, b, n, made)
<1>1. n \in 1 .. n /\ list[n] \in File /\ list[n].records \in Nat
  BY FileFields
<1>2. PICK r : r = IF made = "video" THEN list[n].records ELSE 0
  OBVIOUS
<1>3. r \in Nat /\ (made = "both" => r = 0)
  BY <1>1, <1>2
<1>4. PICK file : file = [list[n] EXCEPT !.frames = <<>>, !.records = r]
  OBVIOUS
<1>5. /\ file \in File /\ file.session = list[n].session /\ file.frames = <<>>
      /\ file.records = r
  <2>1. ASSUME NEW x \in File, NEW y, y = [x EXCEPT !.frames = <<>>, !.records = r]
        PROVE  y \in File /\ y.session = x.session /\ y.frames = <<>> /\ y.records = r
    BY <1>3, <2>1, EmptySeq DEF File
  <2> QED BY <1>1, <1>4, <2>1
<1>6. b = [list EXCEPT ![n] = file]
  BY <1>2, <1>4 DEF Emptied
<1>7. /\ b \in Seq(File) /\ Len(b) = n /\ b[n] = file
      /\ \A i \in 1 .. n : i # n => b[i] = list[i]
  BY <1>1, <1>5, <1>6, ExceptSeq
<1>8. \A i \in 1 .. n - 1 : i \in 1 .. n /\ i # n
  BY <1>1
<1> QED BY <1>3, <1>5, <1>7, <1>8 DEF LastEmptied

\* The frames of the file that was emptied are lost, the others stay.
LEMMA KeptEmptied ==
  ASSUME NEW list \in Seq(File), NEW n \in Nat \ {0}, n = Len(list), NEW made,
         NEW b, b = Emptied(list, made), NEW rec \in SUBSET Entry, NEW drp,
         NEW lost, lost = Range(Last(list).frames), Kept(list, NoFrame, rec, drp)
  PROVE  Kept(b, NoFrame, rec, drp \cup lost) /\ lost \in SUBSET Entry
<1>1. Len(b) = n /\ (\A i \in 1 .. n - 1 : b[i] = list[i]) /\ b[n].frames = <<>>
      /\ b[n].session = list[n].session
  <2>1. LastEmptied(list, b, n, made)
    BY EmptiedIs
  <2> QED BY <2>1 DEF LastEmptied
<1>2. n \in 1 .. n /\ list[n].frames \in Seq(Entry)
  BY FileFields
<1>3. Len(b[n].frames) = 0
  BY <1>1
<1>4. lost = {list[n].frames[k] : k \in 1 .. Len(list[n].frames)}
  <2>1. DOMAIN list[n].frames = 1 .. Len(list[n].frames)
    BY <1>2, LenProperties
  <2> QED BY <2>1 DEF LostTo, Last, Range
<1>5. lost \in SUBSET Entry
  BY <1>2, <1>4, ElementOfSeq
<1>6. \A i \in 1 .. n : i \in 1 .. n - 1 \/ i = n
  BY <1>2
<1>7. \A i \in 1 .. n - 1 : i \in 1 .. n /\ i < n
  BY <1>2
<1>8. /\ \A i \in 1 .. n : \A k \in 1 .. Len(list[i].frames) :
            list[i].frames[k][1] = list[i].session /\ list[i].frames[k] \in rec \ drp
      /\ \A g \in rec : g \in drp \/ g = NoFrame
            \/ \E i \in 1 .. n : \E k \in 1 .. Len(list[i].frames) : g = list[i].frames[k]
      /\ \A i, j \in 1 .. n :
           \A k \in 1 .. Len(list[i].frames), l \in 1 .. Len(list[j].frames) :
             i < j \/ (i = j /\ k < l) => list[i].frames[k][2] < list[j].frames[l][2]
      /\ drp \subseteq rec
  BY DEF Kept
<1>9. ASSUME NEW i \in 1 .. n, NEW k \in 1 .. Len(b[i].frames)
      PROVE  i \in 1 .. n - 1 /\ b[i] = list[i]
  <2>1. i # n
    BY <1>3
  <2> QED BY <1>1, <1>6, <2>1
<1>10. ASSUME NEW i \in 1 .. n, NEW k \in 1 .. Len(b[i].frames)
       PROVE  /\ b[i].frames[k][1] = b[i].session
              /\ b[i].frames[k] \in rec \ (drp \cup lost)
  <2>1. i \in 1 .. n - 1 /\ b[i] = list[i] /\ i \in 1 .. n /\ i < n
    BY <1>7, <1>9
  <2>2. list[i].frames[k][1] = list[i].session /\ list[i].frames[k] \in rec \ drp
    BY <1>8, <2>1
  <2>3. list[i].frames[k] \notin lost
    <3>1. ASSUME NEW l \in 1 .. Len(list[n].frames) PROVE list[i].frames[k] # list[n].frames[l]
      <4>1. list[i].frames[k][2] < list[n].frames[l][2]
        BY <1>2, <1>8, <2>1
      <4>2. list[i].frames[k] \in Entry
        BY <2>2
      <4>3. list[i].frames[k][2] \in Nat
        BY <4>2 DEF Entry
      <4> QED BY <4>1, <4>3
    <3> QED BY <1>4, <3>1
  <2> QED BY <2>1, <2>2, <2>3
<1>11. ASSUME NEW g \in rec
       PROVE  \/ g \in drp \cup lost \/ g = NoFrame
              \/ \E i \in 1 .. n : \E k \in 1 .. Len(b[i].frames) : g = b[i].frames[k]
  <2>1. CASE \E i \in 1 .. n : \E k \in 1 .. Len(list[i].frames) : g = list[i].frames[k]
    <3>1. PICK i \in 1 .. n : \E k \in 1 .. Len(list[i].frames) : g = list[i].frames[k]
      BY <2>1
    <3>2. CASE i = n
      BY <1>4, <3>1, <3>2
    <3>3. CASE i # n
      <4>1. b[i] = list[i]
        BY <1>1, <1>6, <3>3
      <4> QED BY <3>1, <4>1
    <3> QED BY <3>2, <3>3
  <2> QED BY <1>8, <2>1
<1>12. ASSUME NEW i \in 1 .. n, NEW j \in 1 .. n,
              NEW k \in 1 .. Len(b[i].frames), NEW l \in 1 .. Len(b[j].frames),
              i < j \/ (i = j /\ k < l)
       PROVE  b[i].frames[k][2] < b[j].frames[l][2]
  <2>1. b[i] = list[i] /\ b[j] = list[j]
    BY <1>9
  <2> QED BY <1>8, <1>12, <2>1
<1>13. drp \cup lost \subseteq rec
  <2>1. \A k \in 1 .. Len(list[n].frames) : list[n].frames[k] \in rec
    BY <1>2, <1>8
  <2> QED BY <1>4, <1>8, <2>1
<1> QED BY <1>1, <1>5, <1>10, <1>11, <1>12, <1>13 DEF Kept

\* check_session_file_handle opens new files for the frame read.
LEMMA NewRead ==
  ASSUME RecorderTypes, NEW s \in RecordStreams, StreamInv(s), frame[s] = NoFrame,
         output[s] # <<>>, Head(output[s])[2] # 0, NEW f, f = Head(output[s]),
         received' = [received EXCEPT ![s] = @ \cup {f}],
         NEW made \in Creates, NEW same \in BOOLEAN, NewFiles(s, f, made),
         same => SameName(s, f) /\ made # "none",
         files' = [files EXCEPT ![s] =
           IF made = "both" THEN Noted(Created(s, f, made, same), encoding_states'[s].fd_info)
                            ELSE Created(s, f, made, same)],
         overwritten' = overwritten \cup
           IF same THEN {<<s, g>> : g \in Range(Last(files[s]).frames)} ELSE {},
         IF made = "both" THEN frame' = [frame EXCEPT ![s] = f] /\ UNCHANGED dropped
                          ELSE dropped' = dropped \cup {<<s, f>>} /\ UNCHANGED frame,
         UNCHANGED <<optionVars, encoder>>, output'[s] = Tail(output[s]),
         reading'[s] = "write" => frame'[s] # NoFrame,
         reading'[s] \in {"none", "look", "get"} => frame'[s] = NoFrame
  PROVE  StreamInv(s)' /\ WriterMoves(s)
<1>1. /\ output[s] \in Seq(Entry) /\ encoder[s] \in Coder /\ encoding_states[s] \in State
      /\ files[s] \in Seq(File) /\ Len(files[s]) \in Nat /\ leaked \in Nat /\ failures \in Nat
      /\ received[s] \in SUBSET Entry /\ GoneOf(s) \subseteq Entry
      /\ file_size_flag \in BOOLEAN /\ frame_info_flag \in BOOLEAN
  BY StreamTyped
<1>2. PICK n, ok, st, fs, st2, fs2 :
        /\ fs = files[s] /\ n = Len(fs) /\ ok = (failures = 0) /\ st = encoding_states[s]
        /\ st2 = encoding_states'[s] /\ fs2 = files'[s]
  OBVIOUS
<1>3. ok \in BOOLEAN /\ n \in Nat /\ st \in State /\ fs \in Seq(File) /\ n = Len(fs)
  BY <1>1, <1>2
<1>4. /\ InQueue(output[s], encoder[s]) /\ Ahead(output[s], encoder[s], st, received[s], ok)
      /\ OpenOne(st, fs, NoFrame, ok, frame_info_flag)
      /\ Kept(fs, NoFrame, received[s], GoneOf(s))
      /\ CutRight(st, fs, NoFrame, ok, file_size_flag, frame_info_flag)
  BY <1>2 DEF StreamInv
<1>5. /\ InQueue(Tail(output[s]), encoder[s]) /\ f \in Entry /\ f # NoFrame /\ f[1] \in Nat
  <2>1. f \in Entry /\ InQueue(Tail(output[s]), encoder[s])
    BY <1>1, <1>4, QueueRead
  <2>2. f # NoFrame
    BY DEF NoFrame
  <2> QED BY <2>1, <2>2 DEF Entry
<1>6. /\ \A g \in received[s] : g \in Entry /\ g[2] # 0 /\ g[2] < f[2]
      /\ st.session_id <= f[1] /\ st.session_id \in Nat
  <2>1. PICK out, enc, rec : out = output[s] /\ enc = encoder[s] /\ rec = received[s]
    OBVIOUS
  <2>2. /\ out \in Seq(Entry) /\ out # <<>> /\ enc \in Coder /\ InQueue(out, enc)
        /\ Ahead(out, enc, st, rec, ok) /\ Head(out)[2] # 0 /\ f = Head(out)
    BY <1>1, <1>4, <2>1, Zenon
  <2>3. (\A g \in rec : g \in Entry /\ g[2] # 0 /\ g[2] < f[2]) /\ st.session_id <= f[1]
    BY <1>3, <2>2, FrameRead
  <2> QED BY <1>3, <2>1, <2>3 DEF State
<1>7. st.fd_info \in 0 .. n /\ (~ frame_info_flag => st.fd_info = 0)
  BY <1>2, <1>3, <1>4 DEF OpenOne, State
<1>8. PICK new : new = [fd |-> IF made = "none" THEN 0 ELSE n + 1, fd_info |-> FdInfo(s, made),
                        session_id |-> f[1], total_bytes |-> 1]
  OBVIOUS
<1>9. encoding_states' = [encoding_states EXCEPT ![s] = new] /\ st2 = new
  <2>1. encoding_states' = [encoding_states EXCEPT ![s] = new]
    BY <1>2, <1>8 DEF NewFiles, TotalBytes
  <2> QED BY <1>2, <2>1 DEF RecorderTypes
<1>10. made \in {"header", "video"} => frame_info_flag
  BY DEF NewFiles
<1>11. FdInfo(s, made) \in 0 .. n + 1
  BY <1>2, <1>3, <1>7, <1>10, FdInfoIs DEF Creates
<1>12. /\ st2 \in State /\ st2.session_id = f[1] /\ st2.total_bytes = 1
       /\ st2.fd = (IF made = "none" THEN 0 ELSE n + 1) /\ st2.fd_info = FdInfo(s, made)
  <2>1. (IF made = "none" THEN 0 ELSE n + 1) \in Nat
    BY <1>3
  <2>2. new \in State
    BY <1>3, <1>5, <1>8, <1>11, <2>1 DEF State
  <2> QED BY <1>8, <1>9, <2>2
<1>13. encoding_states' \in [RecordStreams -> State]
  BY <1>9, <1>12 DEF RecorderTypes
<1>14. leaked' \in Nat
  BY <1>1 DEF NewFiles
<1>15. PICK file, more, b, lost, gone :
         /\ file = [session |-> f[1], frames |-> <<>>, records |-> 0]
         /\ more = Append(b, file) /\ b = Opened(fs, made, same) /\ lost = LostTo(fs, same)
         /\ gone = GoneOf(s) \cup lost
  OBVIOUS
<1>16. IsNewSession(s, f)
  BY DEF NewFiles
<1>17. received' \in [RecordStreams -> SUBSET Entry] /\ received'[s] = received[s] \cup {f}
  BY <1>5 DEF RecorderTypes
<1>18. /\ \A t \in RecordStreams : t # s =>
            /\ encoding_states'[t] = encoding_states[t] /\ files'[t] = files[t]
            /\ received'[t] = received[t]
       /\ encoder'[s] = encoder[s]
       /\ file_size_flag' = file_size_flag /\ frame_info_flag' = frame_info_flag
  BY <1>9 DEF RecorderTypes, optionVars
<1>19. same => n # 0 /\ fs[n].session = f[1]
  <2>1. ASSUME same PROVE n # 0 /\ fs[n].session = f[1]
    <3>1. fs # <<>> /\ Last(fs).session = f[1]
      BY <1>2, <2>1 DEF SameName
    <3>2. n # 0
      BY <1>3, <3>1, EmptySeq
    <3> QED BY <1>3, <3>1, <3>2 DEF Last
  <2> QED BY <2>1
<1>20. /\ b \in Seq(File) /\ Len(b) = n /\ \A i \in 1 .. n - 1 : b[i] = fs[i]
       /\ ~ same => b = fs
       /\ same => NameUsedAgain(fs[n], b[n], f) /\ (made = "both" => b[n].records = 0)
  <2>1. CASE same
    <3>1. b = Emptied(fs, made)
      BY <1>15, <2>1 DEF Opened
    <3>2. n \in Nat \ {0} /\ fs[n].session = f[1]
      BY <1>3, <1>19, <2>1
    <3>3. /\ b \in Seq(File) /\ Len(b) = n /\ \A i \in 1 .. n - 1 : b[i] = fs[i]
          /\ b[n].session = fs[n].session /\ b[n].frames = <<>>
          /\ made = "both" => b[n].records = 0
      <4>1. LastEmptied(fs, b, n, made)
        BY <1>3, <3>1, <3>2, EmptiedIs
      <4> QED BY <4>1 DEF LastEmptied
    <3> QED BY <2>1, <3>2, <3>3 DEF NameUsedAgain
  <2>2. CASE ~ same
    <3>1. b = fs
      BY <1>15, <2>2 DEF Opened
    <3> QED BY <1>3, <2>2, <3>1
  <2> QED BY <2>1, <2>2
<1>21. Kept(b, NoFrame, received[s], gone) /\ lost \in SUBSET Entry
  <2>1. PICK rec, drp : rec = received[s] /\ drp = GoneOf(s)
    OBVIOUS
  <2>2. rec \in SUBSET Entry /\ Kept(fs, NoFrame, rec, drp) /\ gone = drp \cup lost
    BY <1>1, <1>4, <1>15, <2>1
  <2>3. Kept(b, NoFrame, rec, drp \cup lost) /\ lost \in SUBSET Entry
    <3>1. CASE same
      <4>1. b = Emptied(fs, made) /\ lost = Range(Last(fs).frames) /\ n \in Nat \ {0}
        BY <1>3, <1>15, <1>19, <3>1 DEF Opened, LostTo
      <4>2. fs \in Seq(File) /\ n = Len(fs)
        BY <1>3
      <4> QED BY <2>2, <4>1, <4>2, KeptEmptied, ZenonT(30)
    <3>2. CASE ~ same
      <4>1. b = fs /\ lost = {} /\ drp \cup lost = drp
        BY <1>15, <3>2 DEF Opened, LostTo
      <4> QED BY <2>2, <4>1
    <3> QED BY <3>1, <3>2
  <2> QED BY <2>1, <2>2, <2>3
<1>22. overwritten' = overwritten \cup {<<s, g>> : g \in lost}
  <2>1. CASE same
    <3>1. lost = Range(Last(files[s]).frames)
      BY <1>2, <1>15, <2>1 DEF LostTo
    <3> QED BY <2>1, <3>1
  <2>2. CASE ~ same
    <3>1. lost = {}
      BY <1>15, <2>2 DEF LostTo
    <3> QED BY <2>2, <3>1
  <2> QED BY <2>1, <2>2
<1>23. same => file_size_flag
  <2>1. ASSUME same PROVE file_size_flag
    <3>1. fs[n].session = f[1] /\ fs[n].session <= st.session_id
      BY <1>2, <1>4, <1>19, <2>1 DEF OpenOne
    <3>3. f[1] = st.session_id
      BY <1>5, <1>6, <3>1
    <3> QED BY <1>2, <1>16, <3>3 DEF IsNewSession
  <2> QED BY <2>1
<1>24. /\ overwritten' \subseteq RecordStreams \X Entry
       /\ ~ file_size_flag => overwritten' = {}
  <2>1. ~ file_size_flag => lost = {}
    BY <1>15, <1>23 DEF LostTo
  <2> QED BY <1>21, <1>22, <2>1 DEF RecorderTypes
<1>25. CASE made = "both"
  <2>1. fs2 = Noted(more, IF frame_info_flag THEN n + 1 ELSE 0)
    <3>1. st2.fd_info = IF frame_info_flag THEN n + 1 ELSE 0
      BY <1>2, <1>7, <1>12, <1>25, FdInfoIs
    <3>2. fs2 = Noted(Created(s, f, made, same), st2.fd_info)
      BY <1>2, <1>25 DEF RecorderTypes
    <3>3. Created(s, f, made, same) = more
      BY <1>2, <1>15, <1>25 DEF Created, Opened
    <3> QED BY <3>1, <3>2, <3>3
  <2>2. /\ fs2 \in Seq(File) /\ Len(fs2) = n + 1 /\ \A i \in 1 .. n : fs2[i] = b[i]
        /\ fs2[n + 1] = [session |-> f[1], frames |-> <<>>,
                         records |-> IF frame_info_flag THEN 1 ELSE 0]
    <3>1. frame_info_flag \in BOOLEAN
      BY <1>1
    <3>2. /\ file = [session |-> f[1], frames |-> <<>>, records |-> 0]
          /\ fs2 = Noted(Append(b, file), IF frame_info_flag THEN n + 1 ELSE 0)
      BY <1>15, <2>1
    <3> QED BY <1>3, <1>5, <1>20, <3>1, <3>2, FileCreated
  <2>3. /\ OpenOne(st2, fs2, f, ok, frame_info_flag)
        /\ CutRight(st2, fs2, f, ok, file_size_flag, frame_info_flag)
    <3>1. NeedsFile(f, st, file_size_flag)
      BY <1>2, <1>16 DEF IsNewSession, NeedsFile
    <3>2. st2.fd_info = IF frame_info_flag THEN n + 1 ELSE st.fd_info
      BY <1>2, <1>12, <1>25, FdInfoIs
    <3>3. st2.fd = n + 1
      BY <1>2, <1>12, <1>25
    <3>4. frame_info_flag \in BOOLEAN /\ file_size_flag \in BOOLEAN
      BY <1>1
    <3>5. /\ \A i \in 1 .. Len(fs) - 1 : fs2[i] = fs[i]
          /\ Len(fs2) = Len(fs) + 1
          /\ fs2[Len(fs) + 1] = [session |-> f[1], frames |-> <<>>,
                                 records |-> IF frame_info_flag THEN 1 ELSE 0]
          /\ st2.fd = Len(fs) + 1
          /\ st2.fd_info = IF frame_info_flag THEN Len(fs) + 1 ELSE st.fd_info
      <4>1. \A i \in 1 .. n - 1 : i \in 1 .. n
        BY <1>3
      <4> QED BY <1>3, <1>20, <2>2, <3>2, <3>3, <4>1
    <3>6. Len(fs) # 0 => \/ fs2[Len(fs)] = fs[Len(fs)]
                         \/ NameUsedAgain(fs[Len(fs)], fs2[Len(fs)], f)
                              /\ fs2[Len(fs)].records = 0
      <4>1. n # 0 => fs2[n] = b[n]
        BY <1>3, <2>2
      <4> QED BY <1>3, <1>25, <1>20, <4>1
    <3>7. fs \in Seq(File) /\ fs2 \in Seq(File) /\ st \in State /\ ok \in BOOLEAN
      BY <1>3, <2>2
    <3>8. PICK size, info : size = file_size_flag /\ info = frame_info_flag
      OBVIOUS
    <3>9. /\ size \in BOOLEAN /\ info \in BOOLEAN /\ NeedsFile(f, st, size)
          /\ OpenOne(st, fs, NoFrame, ok, info) /\ CutRight(st, fs, NoFrame, ok, size, info)
      BY <1>4, <3>1, <3>4, <3>8, Zenon
    <3>10. /\ fs2[Len(fs) + 1] = [session |-> f[1], frames |-> <<>>,
                                  records |-> IF info THEN 1 ELSE 0]
           /\ st2.fd_info = IF info THEN Len(fs) + 1 ELSE st.fd_info
      BY <3>5, <3>8
    <3>11. OpenOne(st2, fs2, f, ok, info) /\ CutRight(st2, fs2, f, ok, size, info)
      <4>1. GetsFile(fs, fs2, f, info)
        BY <3>5, <3>6, <3>10 DEF GetsFile
      <4>2. /\ st2 \in State /\ st2.fd = Len(fs) + 1 /\ st2.session_id = f[1]
            /\ st2.total_bytes = 1 /\ f \in Entry /\ f # NoFrame
        BY <1>5, <1>12, <3>5
      <4> QED BY <3>7, <3>9, <3>10, <4>1, <4>2, NewFileOpen
    <3> QED BY <3>8, <3>11, Zenon
  <2>4. Kept(fs2, f, received[s] \cup {f}, gone)
    <3>1. \A i \in 1 .. n : fs2[i].frames = b[i].frames
                            /\ fs2[i].session = b[i].session
      BY <2>2
    <3>2. Extended(b, fs2)
      BY <1>20, <2>2, <3>1 DEF Extended
    <3>3. TakenOrLost(f, gone, f, gone)
      BY DEF TakenOrLost
    <3> QED BY <1>3, <1>5, <1>6, <1>20, <1>21, <3>2, <3>3, KeptRead
  <2>5. Ahead(Tail(output[s]), encoder[s], st2, received[s] \cup {f}, ok)
    <3>1. st2.fd # 0
      BY <1>3, <1>12, <1>25
    <3>2. PICK out, enc, rec : out = output[s] /\ enc = encoder[s] /\ rec = received[s]
      OBVIOUS
    <3>3. /\ out \in Seq(Entry) /\ out # <<>> /\ enc \in Coder /\ InQueue(out, enc)
          /\ Ahead(out, enc, st, rec, ok) /\ Head(out)[2] # 0 /\ f = Head(out)
      BY <1>1, <1>4, <3>2, Zenon
    <3>4. Ahead(Tail(out), enc, st2, rec \cup {Head(out)}, ok)
      BY <1>3, <1>12, <3>1, <3>3, AheadRead
    <3> QED BY <3>2, <3>3, <3>4, Zenon
  <2>6. frame' = [frame EXCEPT ![s] = f] /\ frame'[s] = f /\ UNCHANGED dropped
    BY <1>25 DEF RecorderTypes
  <2>7. InHand(f, reading'[s], st2, received[s] \cup {f}, gone)
    <3>1. f \notin gone
      <4>1. f \notin received[s]
        BY <1>5, <1>6 DEF Entry
      <4> QED BY <1>21, <4>1 DEF Kept
    <3>2. st2.fd # 0 /\ f[1] = st2.session_id
      BY <1>3, <1>12, <1>25
    <3>3. reading'[s] \notin {"none", "look", "get"}
      BY <1>5, <2>6
    <3> QED BY <1>5, <3>1, <3>2, <3>3 DEF InHand
  <2>8. failures' = failures
    BY <1>1, <1>25 DEF NewFiles
  <2>9. GoneOf(s)' = gone /\ \A t \in RecordStreams : t # s => GoneOf(t)' = GoneOf(t)
    <3>1. Loses(s, lost)
      BY <1>22, <2>6 DEF Loses
    <3> QED BY <1>15, <1>21, <3>1, GoneMoves
  <2>10. StreamInv(s)'
    BY <1>2, <1>5, <1>17, <1>18, <2>3, <2>4, <2>5, <2>6, <2>7, <2>8, <2>9 DEF StreamInv
  <2>11. frame' \in [RecordStreams -> Entry]
    BY <1>5, <2>6 DEF RecorderTypes
  <2>12. files' \in [RecordStreams -> Seq(File)]
    <3>1. files' = [files EXCEPT ![s] = fs2]
      BY <1>2 DEF RecorderTypes
    <3> QED BY <2>2, <3>1 DEF RecorderTypes
  <2>13. \A t \in RecordStreams : t # s => frame'[t] = frame[t] /\ GoneOf(t)' = GoneOf(t)
    BY <2>6, <2>9 DEF RecorderTypes
  <2>14. /\ dropped' \subseteq RecordStreams \X Entry /\ failures' \in 0 .. MaxFailures
         /\ failures' = 0 => failures = 0 /\ dropped' = {}
    BY <2>6, <2>8 DEF RecorderTypes
  <2> QED BY <1>13, <1>14, <1>17, <1>18, <2>10, <2>11, <2>12, <2>13, <2>14, <1>24 DEF WriterMoves
<1>26. CASE made # "both"
  <2>1. UNCHANGED frame /\ dropped' = dropped \cup {<<s, f>>}
    BY <1>26
  <2>2. fs2 = (IF made = "none" THEN fs ELSE more)
    BY <1>2, <1>15, <1>26 DEF RecorderTypes, Created, Opened
  <2>3. more \in Seq(File) /\ Len(more) = n + 1 /\ \A i \in 1 .. n : more[i] = b[i]
        /\ more[n + 1] = file
    <3>1. file \in File
      BY <1>5, <1>15, EmptyFile
    <3> QED BY <1>3, <1>15, <1>20, <3>1, AppendProperties
  <2>4. fs2 \in Seq(File)
    BY <1>3, <2>2, <2>3
  <2>5. /\ OpenOne(st2, fs2, NoFrame, FALSE, frame_info_flag)
        /\ CutRight(st2, fs2, NoFrame, FALSE, file_size_flag, frame_info_flag)
    <3>1. CASE made = "none"
      <4>1. fs2 = fs /\ st2.fd = 0 /\ st2.fd_info = st.fd_info
        BY <1>2, <1>12, <2>2, <3>1, FdInfoIs
      <4>2. n # 0 => fs[n].session <= st.session_id
        BY <1>3, <1>4 DEF OpenOne
      <4>4. n # 0 => fs[n].session \in Nat
        BY <1>3, FileFields
      <4>5. n # 0 => fs[n].session <= st2.session_id
        BY <1>5, <1>6, <1>12, <4>2, <4>4
      <4>6. st2.fd_info <= n /\ (~ frame_info_flag => st2.fd_info = 0)
        BY <1>3, <1>7, <4>1
      <4>7. OpenOne(st2, fs2, NoFrame, FALSE, frame_info_flag)
        BY <1>3, <4>1, <4>5, <4>6 DEF OpenOne
      <4> QED BY <4>7 DEF CutRight
    <3>2. CASE made \in {"header", "video"}
      <4>1. st2.fd_info \in {0, n + 1} /\ st2.fd = n + 1 /\ fs2 = more /\ frame_info_flag
        BY <1>2, <1>10, <1>12, <2>2, <3>2, FdInfoIs
      <4>2. Len(fs2) = n + 1 /\ fs2[n + 1].session = f[1] /\ f[1] <= f[1]
        BY <1>5, <1>15, <2>3, <4>1
      <4>3. OpenOne(st2, fs2, NoFrame, FALSE, frame_info_flag)
        BY <1>3, <1>12, <4>1, <4>2 DEF OpenOne
      <4> QED BY <4>3 DEF CutRight
    <3> QED BY <1>26, <3>1, <3>2 DEF Creates
  <2>6. Kept(fs2, NoFrame, received[s] \cup {f}, gone \cup {f})
    <3>5. made = "none" => b = fs
      BY <1>20
    <3>1. \A i \in 1 .. n : fs2[i].frames = b[i].frames
                            /\ fs2[i].session = b[i].session
      BY <2>2, <2>3, <3>5
    <3>2. Len(fs2) = n \/ (Len(fs2) = n + 1 /\ fs2[n + 1].frames = <<>>)
      BY <1>2, <1>15, <2>2, <2>3
    <3>3. Extended(b, fs2)
      BY <1>20, <3>1, <3>2 DEF Extended
    <3>4. TakenOrLost(f, gone, NoFrame, gone \cup {f})
      BY DEF TakenOrLost
    <3> QED BY <1>3, <1>5, <1>6, <1>20, <1>21, <3>3, <3>4, KeptRead
  <2>7. Ahead(Tail(output[s]), encoder[s], st2, received[s] \cup {f}, FALSE)
    BY <1>1, <1>3, <1>4, <1>12, AheadRead
  <2>8. frame'[s] = NoFrame /\ InHand(NoFrame, reading'[s], st2, received[s] \cup {f},
                                      gone \cup {f})
    BY <2>1 DEF InHand
  <2>9. failures < MaxFailures /\ failures' = failures + 1
    BY <1>26 DEF NewFiles
  <2>10. failures' \in 0 .. MaxFailures /\ failures' # 0 /\ (failures' = 0) = FALSE
    BY <1>1, <2>9, RecorderSizes
  <2>11. /\ GoneOf(s)' = gone \cup {f}
         /\ \A t \in RecordStreams : t # s => GoneOf(t)' = GoneOf(t)
         /\ dropped' \subseteq RecordStreams \X Entry
    <3>1. Loses(s, lost \cup {f})
      BY <1>22, <2>1 DEF Loses
    <3>2. lost \cup {f} \in SUBSET Entry
      BY <1>5, <1>21
    <3>3. dropped' \subseteq RecordStreams \X Entry
      BY <1>5, <2>1 DEF RecorderTypes
    <3> QED BY <1>15, <3>1, <3>2, <3>3, GoneMoves
  <2>12. StreamInv(s)'
    BY <1>2, <1>5, <1>17, <1>18, <2>5, <2>6, <2>7, <2>8, <2>10, <2>11 DEF StreamInv
  <2>13. frame' \in [RecordStreams -> Entry]
         /\ \A t \in RecordStreams : frame'[t] = frame[t]
    BY <2>1 DEF RecorderTypes
  <2>14. files' \in [RecordStreams -> Seq(File)]
    <3>1. files' = [files EXCEPT ![s] = fs2]
      BY <1>2 DEF RecorderTypes
    <3> QED BY <2>4, <3>1 DEF RecorderTypes
  <2> QED BY <1>13, <1>14, <1>17, <1>18, <2>10, <2>11, <2>12, <2>13, <2>14, <1>24 DEF WriterMoves
<1> QED BY <1>25, <1>26

\* The frame read belongs to the files that are open, or to none that could be opened.
LEMMA SameRead ==
  ASSUME RecorderTypes, NEW s \in RecordStreams, StreamInv(s), frame[s] = NoFrame,
         output[s] # <<>>, Head(output[s])[2] # 0, NEW f, f = Head(output[s]),
         received' = [received EXCEPT ![s] = @ \cup {f}], SameFiles(s, f), UNCHANGED failures,
         files' = [files EXCEPT ![s] = Noted(@, encoding_states[s].fd_info)],
         IF encoding_states[s].fd = 0 \/ (frame_info_flag /\ encoding_states[s].fd_info = 0)
           THEN dropped' = dropped \cup {<<s, f>>} /\ UNCHANGED frame
           ELSE frame' = [frame EXCEPT ![s] = f] /\ UNCHANGED dropped,
         UNCHANGED <<optionVars, encoder>>, output'[s] = Tail(output[s]),
         reading'[s] = "write" => frame'[s] # NoFrame,
         reading'[s] \in {"none", "look", "get"} => frame'[s] = NoFrame
  PROVE  StreamInv(s)' /\ WriterMoves(s)
<1>1. /\ output[s] \in Seq(Entry) /\ encoder[s] \in Coder /\ encoding_states[s] \in State
      /\ files[s] \in Seq(File) /\ Len(files[s]) \in Nat /\ leaked \in Nat /\ failures \in Nat
      /\ received[s] \in SUBSET Entry /\ GoneOf(s) \subseteq Entry
      /\ file_size_flag \in BOOLEAN /\ frame_info_flag \in BOOLEAN
  BY StreamTyped
<1>2. PICK n, ok, st, fs, st2, fs2 :
        /\ fs = files[s] /\ n = Len(fs) /\ ok = (failures = 0) /\ st = encoding_states[s]
        /\ st2 = encoding_states'[s] /\ fs2 = files'[s]
  OBVIOUS
<1>3. ok \in BOOLEAN /\ n \in Nat /\ st \in State /\ fs \in Seq(File) /\ n = Len(fs)
  BY <1>1, <1>2
<1>4. /\ InQueue(output[s], encoder[s]) /\ Ahead(output[s], encoder[s], st, received[s], ok)
      /\ OpenOne(st, fs, NoFrame, ok, frame_info_flag)
      /\ Kept(fs, NoFrame, received[s], GoneOf(s))
      /\ CutRight(st, fs, NoFrame, ok, file_size_flag, frame_info_flag)
  BY <1>2 DEF StreamInv
<1>5. /\ InQueue(Tail(output[s]), encoder[s]) /\ f \in Entry /\ f # NoFrame /\ f[1] \in Nat
  <2>1. f \in Entry /\ InQueue(Tail(output[s]), encoder[s])
    BY <1>1, <1>4, QueueRead
  <2>2. f # NoFrame
    BY DEF NoFrame
  <2> QED BY <2>1, <2>2 DEF Entry
<1>6. \A g \in received[s] : g \in Entry /\ g[2] # 0 /\ g[2] < f[2]
  BY <1>1, <1>3, <1>4, FrameRead, SMTT(30)
<1>7. st.fd_info \in 0 .. n /\ (~ frame_info_flag => st.fd_info = 0)
  BY <1>2, <1>3, <1>4 DEF OpenOne, State
<1>8. f[1] = st.session_id /\ ~ (file_size_flag /\ st.total_bytes > FileSize)
  BY <1>2 DEF SameFiles, IsNewSession
<1>9. /\ st.total_bytes + 1 \in Nat
      /\ encoding_states' = [encoding_states EXCEPT ![s] =
                               [st EXCEPT !.total_bytes = st.total_bytes + 1]]
      /\ st2 = [st EXCEPT !.total_bytes = st.total_bytes + 1]
  <2>1. st.total_bytes + 1 \in Nat
    BY <1>3 DEF State
  <2>2. encoding_states' = [encoding_states EXCEPT ![s] =
                               [st EXCEPT !.total_bytes = st.total_bytes + 1]]
    BY <1>2 DEF SameFiles, TotalBytes
  <2> QED BY <1>2, <2>1, <2>2 DEF RecorderTypes
<1>10. /\ st2 \in State /\ st2.fd = st.fd /\ st2.fd_info = st.fd_info
       /\ st2.session_id = st.session_id /\ st2.total_bytes = st.total_bytes + 1
  BY <1>3, <1>9 DEF State
<1>11. encoding_states' \in [RecordStreams -> State]
  BY <1>2, <1>9, <1>10 DEF RecorderTypes
<1>12. fs2 = Noted(fs, st.fd_info) /\ files' = [files EXCEPT ![s] = fs2]
  BY <1>2 DEF RecorderTypes
<1>13. fs2 \in Seq(File) /\ Len(fs2) = n
  <2>1. st.fd_info \in 0 .. Len(fs)
    BY <1>3, <1>7
  <2> QED BY <1>3, <1>12, <2>1, NotedFields
<1>14. \A j \in 1 .. n : fs2[j].session = fs[j].session /\ fs2[j].frames = fs[j].frames
  <2>1. st.fd_info \in 0 .. Len(fs)
    BY <1>3, <1>7
  <2> QED BY <1>3, <1>12, <2>1, NotedFields
<1>15. files' \in [RecordStreams -> Seq(File)]
  BY <1>12, <1>13 DEF RecorderTypes
<1>16. Extended(fs, fs2)
  BY <1>3, <1>13, <1>14 DEF Extended
<1>17. received' \in [RecordStreams -> SUBSET Entry] /\ received'[s] = received[s] \cup {f}
  BY <1>5 DEF RecorderTypes
<1>18. /\ \A t \in RecordStreams : t # s =>
            /\ encoding_states'[t] = encoding_states[t] /\ files'[t] = files[t]
            /\ received'[t] = received[t]
       /\ encoder'[s] = encoder[s]
       /\ file_size_flag' = file_size_flag /\ frame_info_flag' = frame_info_flag
       /\ failures' = failures /\ (failures' = 0) = ok /\ leaked' \in Nat
       /\ UNCHANGED overwritten
       /\ overwritten' \subseteq RecordStreams \X Entry
       /\ ~ file_size_flag => overwritten' = {}
  BY <1>1, <1>2, <1>9 DEF RecorderTypes, optionVars, SameFiles
<1>19. ok => st.fd # 0 /\ (frame_info_flag => st.fd_info # 0)
  <2>1. ok => st.fd # 0
    <3>1. PICK out, enc, rec : out = output[s] /\ enc = encoder[s] /\ rec = received[s]
      OBVIOUS
    <3>2. /\ out \in Seq(Entry) /\ out # <<>> /\ enc \in Coder /\ InQueue(out, enc)
          /\ Ahead(out, enc, st, rec, ok) /\ Head(out)[2] # 0 /\ f = Head(out)
      BY <1>1, <1>4, <3>1, Zenon
    <3>3. ok /\ st.fd = 0 => st.session_id < Head(out)[1]
      BY <1>3, <3>2, FrameRead
    <3> QED BY <1>3, <1>8, <3>2, <3>3 DEF State
  <2>2. ok /\ frame_info_flag => st.fd_info = st.fd
    BY <1>4 DEF OpenOne
  <2> QED BY <2>1, <2>2
<1>20. Ahead(Tail(output[s]), encoder[s], st2, received[s] \cup {f}, ok)
  <2>1. ok => st2.fd # 0
    BY <1>10, <1>19
  <2>2. st2.session_id = f[1]
    BY <1>8, <1>10
  <2>3. PICK out, enc, rec : out = output[s] /\ enc = encoder[s] /\ rec = received[s]
    OBVIOUS
  <2>4. /\ out \in Seq(Entry) /\ out # <<>> /\ enc \in Coder /\ InQueue(out, enc)
        /\ Ahead(out, enc, st, rec, ok) /\ Head(out)[2] # 0 /\ f = Head(out)
    BY <1>1, <1>4, <2>3, Zenon
  <2>5. Ahead(Tail(out), enc, st2, rec \cup {Head(out)}, ok)
    BY <1>3, <1>10, <2>1, <2>2, <2>4, AheadRead
  <2> QED BY <2>3, <2>4, <2>5, Zenon
<1>21. CASE ~ (st.fd = 0 \/ (frame_info_flag /\ st.fd_info = 0))
  <2>1. frame' = [frame EXCEPT ![s] = f] /\ frame'[s] = f /\ UNCHANGED dropped
    BY <1>2, <1>21 DEF RecorderTypes
  <2>2. /\ OpenOne(st2, fs2, f, ok, frame_info_flag)
        /\ CutRight(st2, fs2, f, ok, file_size_flag, frame_info_flag)
    <3>1. HasFiles(st, frame_info_flag) /\ ~ NeedsFile(f, st, file_size_flag)
      BY <1>8, <1>21 DEF HasFiles, NeedsFile
    <3>2. frame_info_flag \in BOOLEAN /\ file_size_flag \in BOOLEAN
      BY <1>1
    <3> QED BY <1>3, <1>4, <1>5, <1>10, <1>12, <3>1, <3>2, SameFileOpen
  <2>3. Kept(fs2, f, received[s] \cup {f}, GoneOf(s))
    <3>1. TakenOrLost(f, GoneOf(s), f, GoneOf(s))
      BY DEF TakenOrLost
    <3> QED BY <1>3, <1>4, <1>5, <1>6, <1>16, <3>1, KeptRead
  <2>4. InHand(f, reading'[s], st2, received[s] \cup {f}, GoneOf(s))
    <3>1. f \notin GoneOf(s)
      <4>1. f \notin received[s]
        BY <1>5, <1>6 DEF Entry
      <4> QED BY <1>4, <4>1 DEF Kept
    <3>2. st2.fd # 0 /\ f[1] = st2.session_id
      BY <1>8, <1>10, <1>21
    <3>3. reading'[s] \notin {"none", "look", "get"}
      BY <1>5, <2>1
    <3> QED BY <1>5, <3>1, <3>2, <3>3 DEF InHand
  <2>5. GoneOf(s)' = GoneOf(s)
    BY <1>18, <2>1, DropNone
  <2>6. StreamInv(s)'
    BY <1>2, <1>5, <1>17, <1>18, <1>20, <2>1, <2>2, <2>3, <2>4, <2>5 DEF StreamInv
  <2>7. frame' \in [RecordStreams -> Entry]
    BY <1>5, <2>1 DEF RecorderTypes
  <2>8. \A t \in RecordStreams : t # s => frame'[t] = frame[t] /\ GoneOf(t)' = GoneOf(t)
    BY <1>18, <2>1, DropNone DEF RecorderTypes
  <2>9. /\ dropped' \subseteq RecordStreams \X Entry /\ failures' \in 0 .. MaxFailures
        /\ failures' = 0 => failures = 0 /\ dropped' = {}
    BY <1>18, <2>1 DEF RecorderTypes
  <2> QED BY <1>11, <1>15, <1>17, <1>18, <2>6, <2>7, <2>8, <2>9 DEF WriterMoves
<1>22. CASE st.fd = 0 \/ (frame_info_flag /\ st.fd_info = 0)
  <2>1. UNCHANGED frame /\ dropped' = dropped \cup {<<s, f>>}
    BY <1>2, <1>22
  <2>2. ok = FALSE
    BY <1>3, <1>19, <1>22
  <2>3. /\ OpenOne(st2, fs2, NoFrame, FALSE, frame_info_flag)
        /\ CutRight(st2, fs2, NoFrame, FALSE, file_size_flag, frame_info_flag)
    <3>1. st.fd # 0 => fs2[st.fd].session = fs[st.fd].session
      BY <1>3, <1>4, <1>14 DEF OpenOne
    <3>2. n # 0 => fs2[n].session <= st2.session_id
      BY <1>3, <1>4, <1>10, <1>14 DEF OpenOne
    <3>3. OpenOne(st2, fs2, NoFrame, FALSE, frame_info_flag)
      BY <1>3, <1>4, <1>10, <1>13, <3>1, <3>2 DEF OpenOne
    <3> QED BY <3>3 DEF CutRight
  <2>4. Kept(fs2, NoFrame, received[s] \cup {f}, GoneOf(s) \cup {f})
    <3>1. TakenOrLost(f, GoneOf(s), NoFrame, GoneOf(s) \cup {f})
      BY DEF TakenOrLost
    <3> QED BY <1>3, <1>4, <1>5, <1>6, <1>16, <3>1, KeptRead
  <2>5. frame'[s] = NoFrame /\ InHand(NoFrame, reading'[s], st2, received[s] \cup {f},
                                      GoneOf(s) \cup {f})
    BY <2>1 DEF InHand
  <2>6. failures' # 0 /\ (failures' = 0) = FALSE
    BY <1>2, <1>18, <2>2
  <2>7. /\ GoneOf(s)' = GoneOf(s) \cup {f}
        /\ \A t \in RecordStreams : t # s => GoneOf(t)' = GoneOf(t)
        /\ dropped' \subseteq RecordStreams \X Entry
    BY <1>5, <1>18, <2>1, DropOne DEF RecorderTypes
  <2>8. StreamInv(s)'
    BY <1>2, <1>5, <1>17, <1>18, <1>20, <2>2, <2>3, <2>4, <2>5, <2>6, <2>7 DEF StreamInv
  <2>9. frame' \in [RecordStreams -> Entry]
        /\ (\A t \in RecordStreams : frame'[t] = frame[t]) /\ failures' \in 0 .. MaxFailures
    BY <1>18, <2>1 DEF RecorderTypes
  <2> QED BY <1>11, <1>15, <1>17, <1>18, <2>6, <2>7, <2>8, <2>9 DEF WriterMoves
<1> QED BY <1>21, <1>22

\* The record cannot be written: the frame is dropped, the files stay.
LEMMA RecordLost ==
  ASSUME RecorderTypes, NEW s \in RecordStreams, StreamInv(s), frame[s] = NoFrame,
         output[s] # <<>>, Head(output[s])[2] # 0, NEW f, f = Head(output[s]),
         received' = [received EXCEPT ![s] = @ \cup {f}], SameFiles(s, f),
         failures < MaxFailures, failures' = failures + 1,
         dropped' = dropped \cup {<<s, f>>}, UNCHANGED <<files, frame>>,
         UNCHANGED <<optionVars, encoder>>, output'[s] = Tail(output[s]),
         reading'[s] # "write"
  PROVE  StreamInv(s)' /\ WriterMoves(s)
<1>1. /\ output[s] \in Seq(Entry) /\ encoder[s] \in Coder /\ encoding_states[s] \in State
      /\ files[s] \in Seq(File) /\ Len(files[s]) \in Nat /\ leaked \in Nat /\ failures \in Nat
      /\ received[s] \in SUBSET Entry
  BY StreamTyped
<1>2. PICK n, ok, st, fs, st2, out, enc, rec, drp :
        /\ fs = files[s] /\ n = Len(fs) /\ ok = (failures = 0) /\ st = encoding_states[s]
        /\ st2 = encoding_states'[s] /\ out = output[s] /\ enc = encoder[s]
        /\ rec = received[s] /\ drp = GoneOf(s)
  OBVIOUS
<1>3. /\ ok \in BOOLEAN /\ n \in Nat /\ st \in State /\ fs \in Seq(File) /\ n = Len(fs)
      /\ out \in Seq(Entry) /\ out # <<>> /\ enc \in Coder /\ rec \in SUBSET Entry
      /\ Head(out)[2] # 0 /\ f = Head(out)
  BY <1>1, <1>2
<1>4. /\ InQueue(out, enc) /\ Ahead(out, enc, st, rec, ok)
      /\ OpenOne(st, fs, NoFrame, ok, frame_info_flag) /\ Kept(fs, NoFrame, rec, drp)
  BY <1>2 DEF StreamInv
<1>5. InQueue(Tail(out), enc) /\ f \in Entry
  BY <1>3, <1>4, QueueRead
<1>6. \A g \in rec : g \in Entry /\ g[2] # 0 /\ g[2] < f[2]
  BY <1>3, <1>4, FrameRead
<1>7. f[1] = st.session_id
  BY <1>2 DEF SameFiles, IsNewSession
<1>8. /\ st.total_bytes + 1 \in Nat
      /\ encoding_states' = [encoding_states EXCEPT ![s] =
                               [st EXCEPT !.total_bytes = st.total_bytes + 1]]
      /\ st2 = [st EXCEPT !.total_bytes = st.total_bytes + 1]
  <2>1. st.total_bytes + 1 \in Nat
    BY <1>3 DEF State
  <2>2. encoding_states' = [encoding_states EXCEPT ![s] =
                               [st EXCEPT !.total_bytes = st.total_bytes + 1]]
    BY <1>2 DEF SameFiles, TotalBytes
  <2> QED BY <1>2, <2>1, <2>2 DEF RecorderTypes
<1>9. /\ st2 \in State /\ st2.fd = st.fd /\ st2.fd_info = st.fd_info
      /\ st2.session_id = st.session_id /\ st2.total_bytes = st.total_bytes + 1
  BY <1>3, <1>8 DEF State
<1>10. encoding_states' \in [RecordStreams -> State]
  BY <1>2, <1>8, <1>9 DEF RecorderTypes
<1>11. Ahead(Tail(out), enc, st2, rec \cup {f}, FALSE)
  BY <1>3, <1>4, <1>7, <1>9, AheadRead
<1>12. OpenOne(st2, fs, NoFrame, FALSE, frame_info_flag)
       /\ CutRight(st2, fs, NoFrame, FALSE, file_size_flag, frame_info_flag)
  <2>1. OpenOne(st2, fs, NoFrame, FALSE, frame_info_flag)
    BY <1>4, <1>9 DEF OpenOne
  <2> QED BY <2>1 DEF CutRight
<1>13. Kept(fs, NoFrame, rec \cup {f}, drp \cup {f})
  <2>1. Extended(fs, fs)
    BY <1>3 DEF Extended
  <2>2. TakenOrLost(f, drp, NoFrame, drp \cup {f})
    BY DEF TakenOrLost
  <2> QED BY <1>3, <1>4, <1>5, <1>6, <2>1, <2>2, KeptRead
<1>14. InHand(NoFrame, reading'[s], st2, rec \cup {f}, drp \cup {f})
  BY DEF InHand
<1>15. received' \in [RecordStreams -> SUBSET Entry] /\ received'[s] = rec \cup {f}
  BY <1>2, <1>5 DEF RecorderTypes
<1>16. UNCHANGED overwritten
  BY DEF SameFiles
<1>17. /\ GoneOf(s)' = drp \cup {f}
       /\ \A t \in RecordStreams : t # s => GoneOf(t)' = GoneOf(t)
       /\ dropped' \subseteq RecordStreams \X Entry
  BY <1>2, <1>5, <1>16, DropOne DEF RecorderTypes
<1>18. /\ \A t \in RecordStreams : t # s =>
            /\ encoding_states'[t] = encoding_states[t] /\ files'[t] = files[t]
            /\ frame'[t] = frame[t] /\ received'[t] = received[t]
       /\ encoder'[s] = enc /\ output'[s] = Tail(out) /\ files'[s] = fs /\ frame'[s] = NoFrame
       /\ file_size_flag' = file_size_flag /\ frame_info_flag' = frame_info_flag
  BY <1>2, <1>8 DEF RecorderTypes, optionVars
<1>19. failures' \in 0 .. MaxFailures /\ failures' # 0 /\ (failures' = 0) = FALSE
  BY <1>1, RecorderSizes
<1>20. StreamInv(s)'
  BY <1>2, <1>5, <1>11, <1>12, <1>13, <1>14, <1>15, <1>17, <1>18, <1>19 DEF StreamInv
<1>21. /\ files' \in [RecordStreams -> Seq(File)] /\ frame' \in [RecordStreams -> Entry]
       /\ leaked' \in Nat /\ overwritten' \subseteq RecordStreams \X Entry
       /\ ~ file_size_flag => overwritten' = {}
  BY <1>16 DEF RecorderTypes, SameFiles
<1> QED BY <1>10, <1>15, <1>17, <1>18, <1>19, <1>20, <1>21 DEF WriterMoves

LEMMA ReadStep ==
  ASSUME RecorderTypes, NEW s \in RecordStreams, StreamInv(s), frame[s] = NoFrame,
         output[s] # <<>>, Process(s), UNCHANGED <<optionVars, encoder>>,
         output'[s] = Tail(output[s]),
         reading'[s] = "write" => frame'[s] # NoFrame,
         reading'[s] \in {"none", "look", "get"} => frame'[s] = NoFrame
  PROVE  StreamInv(s)' /\ WriterMoves(s)
<1>1. CASE Head(output[s])[2] = 0
  <2>1. StreamEnd(s)
    BY <1>1 DEF Process
  <2>2. UNCHANGED <<frame, files, failures, received, dropped, overwritten>>
    BY <2>1 DEF StreamEnd
  <2>3. reading'[s] # "write"
    BY <2>2
  <2>4. /\ StreamInv(s)' /\ encoding_states' \in [RecordStreams -> State] /\ leaked' \in Nat
        /\ \A t \in RecordStreams : t # s => encoding_states'[t] = encoding_states[t]
    BY <1>1, <2>1, <2>3, EndRead
  <2>5. \A t \in RecordStreams : GoneOf(t)' = GoneOf(t)
    BY <2>2, DropNone
  <2> QED BY <2>2, <2>4, <2>5 DEF WriterMoves, RecorderTypes
<1>2. CASE Head(output[s])[2] # 0
  <2>1. PICK f : f = Head(output[s])
    OBVIOUS
  <2>2. WriteFrameInfo(s, f)
    BY <1>2, <2>1 DEF Process
  <2>3. received' = [received EXCEPT ![s] = @ \cup {f}]
    BY <2>2 DEF WriteFrameInfo
  <2>4. CASE \E made \in Creates, same \in BOOLEAN :
               /\ NewFiles(s, f, made)
               /\ same => SameName(s, f) /\ made # "none"
               /\ files' = [files EXCEPT ![s] =
                    IF made = "both" THEN Noted(Created(s, f, made, same), encoding_states'[s].fd_info)
                                     ELSE Created(s, f, made, same)]
               /\ overwritten' = overwritten \cup
                    IF same THEN {<<s, g>> : g \in Range(Last(files[s]).frames)} ELSE {}
               /\ IF made = "both" THEN frame' = [frame EXCEPT ![s] = f] /\ UNCHANGED dropped
                                   ELSE dropped' = dropped \cup {<<s, f>>} /\ UNCHANGED frame
    <3>1. PICK made \in Creates, same \in BOOLEAN :
               /\ NewFiles(s, f, made)
               /\ same => SameName(s, f) /\ made # "none"
               /\ files' = [files EXCEPT ![s] =
                    IF made = "both" THEN Noted(Created(s, f, made, same), encoding_states'[s].fd_info)
                                     ELSE Created(s, f, made, same)]
               /\ overwritten' = overwritten \cup
                    IF same THEN {<<s, g>> : g \in Range(Last(files[s]).frames)} ELSE {}
               /\ IF made = "both" THEN frame' = [frame EXCEPT ![s] = f] /\ UNCHANGED dropped
                                   ELSE dropped' = dropped \cup {<<s, f>>} /\ UNCHANGED frame
      BY <2>4
    <3> QED BY <1>2, <2>1, <2>3, <3>1, NewRead
  <2>5. CASE /\ SameFiles(s, f)
             /\ files' = [files EXCEPT ![s] = Noted(@, encoding_states[s].fd_info)]
             /\ IF encoding_states[s].fd = 0 \/ (frame_info_flag /\ encoding_states[s].fd_info = 0)
                  THEN dropped' = dropped \cup {<<s, f>>} /\ UNCHANGED frame
                  ELSE frame' = [frame EXCEPT ![s] = f] /\ UNCHANGED dropped
             /\ UNCHANGED failures
    BY <1>2, <2>1, <2>3, <2>5, SameRead
  <2>6. CASE /\ SameFiles(s, f) /\ encoding_states[s].fd_info # 0
             /\ failures < MaxFailures /\ failures' = failures + 1
             /\ dropped' = dropped \cup {<<s, f>>}
             /\ UNCHANGED <<files, frame>>
    <3>1. reading'[s] # "write"
      BY <2>6
    <3> QED BY <1>2, <2>1, <2>3, <2>6, <3>1, RecordLost
  <2> QED BY <2>2, <2>4, <2>5, <2>6 DEF WriteFrameInfo
<1> QED BY <1>1, <1>2

LEMMA WriteWell ==
  ASSUME RecorderTypes, NEW s \in RecordStreams, StreamInv(s), reading[s] = "write",
         files' = [files EXCEPT ![s][encoding_states[s].fd].frames = Append(@, frame[s])],
         frame' = [frame EXCEPT ![s] = NoFrame],
         UNCHANGED <<encoding_states, leaked, received, overwritten, failures, dropped>>,
         UNCHANGED <<optionVars, encoder, output>>,
         reading'[s] # "write"
  PROVE  StreamInv(s)' /\ WriterMoves(s)
<1>1. /\ files[s] \in Seq(File) /\ Len(files[s]) \in Nat /\ frame[s] \in Entry
      /\ encoding_states[s] \in State
      /\ file_size_flag \in BOOLEAN /\ frame_info_flag \in BOOLEAN
  BY StreamTyped
<1>2. PICK n, ok, st, fs, fr, file, fs2 :
        /\ fs = files[s] /\ n = Len(fs) /\ ok = (failures = 0) /\ st = encoding_states[s]
        /\ fr = frame[s] /\ fs2 = files'[s]
        /\ file = [fs[n] EXCEPT !.frames = Append(@, fr)]
  OBVIOUS
<1>3. /\ ok \in BOOLEAN /\ n \in Nat /\ st \in State /\ fs \in Seq(File) /\ n = Len(fs)
      /\ fr \in Entry
  BY <1>1, <1>2
<1>4. /\ InQueue(output[s], encoder[s]) /\ Ahead(output[s], encoder[s], st, received[s], ok)
      /\ OpenOne(st, fs, fr, ok, frame_info_flag)
      /\ InHand(fr, "write", st, received[s], GoneOf(s))
      /\ Kept(fs, fr, received[s], GoneOf(s))
      /\ CutRight(st, fs, fr, ok, file_size_flag, frame_info_flag)
  BY <1>2 DEF StreamInv
<1>5. /\ fr # NoFrame /\ st.fd # 0 /\ fr[1] = st.session_id /\ fr \in received[s]
      /\ fr \notin GoneOf(s)
  BY <1>4 DEF InHand
<1>6. st.fd = n /\ n \in 1 .. n /\ fs[n].session = st.session_id
  BY <1>3, <1>4, <1>5 DEF OpenOne
<1>7. fs[n] \in File /\ fs[n].frames \in Seq(Entry)
  BY <1>3, <1>6, FileFields
<1>8. file \in File /\ file.frames = Append(fs[n].frames, fr)
      /\ file.session = fs[n].session /\ file.records = fs[n].records
  <2>1. Append(fs[n].frames, fr) \in Seq(Entry)
    BY <1>3, <1>7, AppendProperties
  <2> QED BY <1>2, <1>7, <2>1 DEF File
<1>9. fs2 = [fs EXCEPT ![n] = file] /\ files' = [files EXCEPT ![s] = fs2]
  <2>1. files' = [files EXCEPT ![s] = [fs EXCEPT ![n] = file]]
    BY <1>2, <1>6
  <2> QED BY <1>2, <2>1 DEF RecorderTypes
<1>10. /\ fs2 \in Seq(File) /\ Len(fs2) = n /\ fs2[n] = file
       /\ \A i \in 1 .. n : i # n => fs2[i] = fs[i]
  BY <1>3, <1>6, <1>8, <1>9, ExceptSeq
<1>11. \A i \in 1 .. n :
         /\ fs2[i].session = fs[i].session /\ fs2[i].records = fs[i].records
         /\ fs2[i].frames = IF i = st.fd THEN Append(fs[i].frames, fr) ELSE fs[i].frames
  <2>1. ASSUME NEW i \in 1 .. n
        PROVE  /\ fs2[i].session = fs[i].session /\ fs2[i].records = fs[i].records
               /\ fs2[i].frames = IF i = st.fd THEN Append(fs[i].frames, fr) ELSE fs[i].frames
    <3>1. CASE i = n
      BY <1>6, <1>8, <1>10, <3>1
    <3>2. CASE i # n
      BY <1>6, <1>10, <3>2
    <3> QED BY <3>1, <3>2
  <2> QED BY <2>1
<1>12. /\ OpenOne(st, fs2, NoFrame, ok, frame_info_flag)
       /\ CutRight(st, fs2, NoFrame, ok, file_size_flag, frame_info_flag)
  <2>1. frame_info_flag \in BOOLEAN /\ file_size_flag \in BOOLEAN
    BY <1>1
  <2>2. GetsFrame(fs, fs2, st.fd, fr)
    BY <1>3, <1>10, <1>11 DEF GetsFrame
  <2>3. PICK size, info : size = file_size_flag /\ info = frame_info_flag
    OBVIOUS
  <2>4. /\ size \in BOOLEAN /\ info \in BOOLEAN
        /\ OpenOne(st, fs, fr, ok, info) /\ CutRight(st, fs, fr, ok, size, info)
    BY <1>4, <2>1, <2>3, Zenon
  <2>5. OpenOne(st, fs2, NoFrame, ok, info) /\ CutRight(st, fs2, NoFrame, ok, size, info)
    <3>1. fs2 \in Seq(File) /\ fr # NoFrame /\ st.fd # 0
      BY <1>5, <1>10
    <3> QED BY <1>3, <2>2, <2>4, <3>1, FrameWritten
  <2> QED BY <2>3, <2>5, Zenon
<1>13. Kept(fs2, NoFrame, received[s], GoneOf(s))
  <2>1. n \in Nat \ {0} /\ Len(fs) = n /\ Len(fs2) = n
    BY <1>3, <1>6, <1>10
  <2>2. \A i \in 1 .. n : fs[i].frames \in Seq(Entry) /\ fs2[i].session = fs[i].session
    BY <1>3, <1>11, FileFields
  <2>3. \A i \in 1 .. n - 1 : fs2[i].frames = fs[i].frames
    BY <1>3, <1>10
  <2>4. fs2[n].frames = Append(fs[n].frames, fr) /\ fr[1] = fs[n].session
    BY <1>5, <1>6, <1>8, <1>10
  <2> QED BY <1>3, <1>4, <1>5, <2>1, <2>2, <2>3, <2>4, KeptWritten
<1>14. frame' = [frame EXCEPT ![s] = NoFrame] /\ frame'[s] = NoFrame
  BY DEF RecorderTypes
<1>15. InHand(NoFrame, reading'[s], st, received[s], GoneOf(s))
  BY DEF InHand
<1>16. UNCHANGED <<encoding_states, leaked, failures, received, dropped, overwritten>>
  OBVIOUS
<1>17. \A t \in RecordStreams : GoneOf(t)' = GoneOf(t)
  BY <1>16, DropNone
<1>18. /\ encoder'[s] = encoder[s] /\ output'[s] = output[s] /\ encoding_states'[s] = st
       /\ received'[s] = received[s] /\ (failures' = 0) = ok
       /\ file_size_flag' = file_size_flag /\ frame_info_flag' = frame_info_flag
  BY <1>2, <1>16 DEF optionVars
<1>19. StreamInv(s)'
  BY <1>2, <1>4, <1>12, <1>13, <1>14, <1>15, <1>17, <1>18 DEF StreamInv
<1>20. files' \in [RecordStreams -> Seq(File)] /\ frame' \in [RecordStreams -> Entry]
       /\ \A t \in RecordStreams : t # s => files'[t] = files[t] /\ frame'[t] = frame[t]
  <2>1. NoFrame \in Entry
    BY DEF NoFrame, Entry
  <2>2. /\ files \in [RecordStreams -> Seq(File)] /\ frame \in [RecordStreams -> Entry]
        /\ fs2 \in Seq(File)
    BY <1>10 DEF RecorderTypes
  <2> QED BY <1>9, <1>14, <2>1, <2>2
<1> QED BY <1>16, <1>17, <1>19, <1>20 DEF WriterMoves, RecorderTypes

\* The write of the frame in hand fails: it is in no file.
LEMMA KeptLost ==
  ASSUME NEW fs, NEW fr \in Entry, NEW rec \in SUBSET Entry, NEW drp, Kept(fs, fr, rec, drp),
         fr # NoFrame, fr \in rec
  PROVE  Kept(fs, NoFrame, rec, drp \cup {fr})
<1>1. ASSUME NEW i \in 1 .. Len(fs), NEW k \in 1 .. Len(fs[i].frames)
      PROVE  /\ fs[i].frames[k][1] = fs[i].session
             /\ fs[i].frames[k] \in rec \ (drp \cup {fr})
  <2>1. /\ fs[i].frames[k][1] = fs[i].session /\ fs[i].frames[k] \in rec \ drp
        /\ fs[i].frames[k][2] < fr[2]
    BY DEF Kept
  <2>2. fr[2] \in Nat
    BY DEF Entry
  <2>3. fs[i].frames[k] # fr
    BY <2>1, <2>2
  <2> QED BY <2>1, <2>3
<1>2. ASSUME NEW g \in rec
      PROVE  g \in drp \cup {fr}
             \/ \E i \in 1 .. Len(fs) : \E k \in 1 .. Len(fs[i].frames) : g = fs[i].frames[k]
  BY DEF Kept
<1>3. /\ drp \cup {fr} \subseteq rec
      /\ \A i, j \in 1 .. Len(fs) :
           \A k \in 1 .. Len(fs[i].frames), l \in 1 .. Len(fs[j].frames) :
             i < j \/ (i = j /\ k < l) => fs[i].frames[k][2] < fs[j].frames[l][2]
  BY DEF Kept
<1> QED BY <1>1, <1>2, <1>3 DEF Kept

LEMMA WriteFails ==
  ASSUME RecorderTypes, NEW s \in RecordStreams, StreamInv(s), reading[s] = "write",
         failures < MaxFailures, failures' = failures + 1,
         dropped' = dropped \cup {<<s, frame[s]>>}, UNCHANGED files,
         frame' = [frame EXCEPT ![s] = NoFrame],
         UNCHANGED <<encoding_states, leaked, received, overwritten>>,
         UNCHANGED <<optionVars, encoder, output>>,
         reading'[s] # "write"
  PROVE  StreamInv(s)' /\ WriterMoves(s)
<1>1. /\ files[s] \in Seq(File) /\ Len(files[s]) \in Nat /\ frame[s] \in Entry
      /\ encoding_states[s] \in State /\ received[s] \in SUBSET Entry /\ failures \in Nat
  BY StreamTyped
<1>2. PICK ok, st, fs, fr, rec, drp :
        /\ fs = files[s] /\ ok = (failures = 0) /\ st = encoding_states[s]
        /\ fr = frame[s] /\ rec = received[s] /\ drp = GoneOf(s)
  OBVIOUS
<1>3. /\ InQueue(output[s], encoder[s]) /\ Ahead(output[s], encoder[s], st, rec, ok)
      /\ OpenOne(st, fs, fr, ok, frame_info_flag)
      /\ InHand(fr, "write", st, rec, drp) /\ Kept(fs, fr, rec, drp)
  BY <1>2 DEF StreamInv
<1>4. fr # NoFrame /\ fr \in rec /\ fr \in Entry /\ rec \in SUBSET Entry
  BY <1>1, <1>2, <1>3 DEF InHand
<1>5. Kept(fs, NoFrame, rec, drp \cup {fr})
  BY <1>3, <1>4, KeptLost
<1>6. Ahead(output[s], encoder[s], st, rec, FALSE)
  BY <1>3 DEF Ahead
<1>7. OpenOne(st, fs, NoFrame, FALSE, frame_info_flag)
      /\ CutRight(st, fs, NoFrame, FALSE, file_size_flag, frame_info_flag)
  <2>1. OpenOne(st, fs, NoFrame, FALSE, frame_info_flag)
    BY <1>3 DEF OpenOne
  <2> QED BY <2>1 DEF CutRight
<1>8. InHand(NoFrame, reading'[s], st, rec, drp \cup {fr})
  BY DEF InHand
<1>9. /\ GoneOf(s)' = drp \cup {fr}
      /\ \A t \in RecordStreams : t # s => GoneOf(t)' = GoneOf(t)
      /\ dropped' \subseteq RecordStreams \X Entry
  BY <1>2, <1>4, DropOne DEF RecorderTypes
<1>10. failures' \in 0 .. MaxFailures /\ failures' # 0 /\ (failures' = 0) = FALSE
  BY <1>1, RecorderSizes
<1>11. /\ frame' \in [RecordStreams -> Entry] /\ frame'[s] = NoFrame
       /\ \A t \in RecordStreams : t # s => frame'[t] = frame[t]
  <2>1. NoFrame \in Entry
    BY DEF NoFrame, Entry
  <2> QED BY <2>1 DEF RecorderTypes
<1>12. /\ encoder'[s] = encoder[s] /\ output'[s] = output[s] /\ encoding_states'[s] = st
       /\ received'[s] = rec /\ files'[s] = fs
       /\ file_size_flag' = file_size_flag /\ frame_info_flag' = frame_info_flag
  BY <1>2 DEF optionVars
<1>13. StreamInv(s)'
  BY <1>3, <1>5, <1>6, <1>7, <1>8, <1>9, <1>10, <1>11, <1>12 DEF StreamInv
<1> QED BY <1>9, <1>10, <1>11, <1>13 DEF WriterMoves, RecorderTypes

LEMMA WriteStep ==
  ASSUME RecorderTypes, NEW s \in RecordStreams, StreamInv(s), reading[s] = "write",
         WriteVideoFile(s), UNCHANGED <<optionVars, encoder, output>>,
         reading'[s] # "write"
  PROVE  StreamInv(s)' /\ WriterMoves(s)
<1>1. CASE /\ files' = [files EXCEPT ![s][encoding_states[s].fd].frames = Append(@, frame[s])]
           /\ UNCHANGED <<failures, dropped>>
  BY <1>1, WriteWell DEF WriteVideoFile
<1>2. CASE /\ failures < MaxFailures /\ failures' = failures + 1
           /\ dropped' = dropped \cup {<<s, frame[s]>>}
           /\ UNCHANGED files
  BY <1>2, WriteFails DEF WriteVideoFile
<1> QED BY <1>1, <1>2 DEF WriteVideoFile

LEMMA SessionStarts ==
  ASSUME NEW s \in RecordStreams, StartSession(s)
  PROVE  /\ ~ encoder[s].on
         /\ encoder \in [RecordStreams -> Coder] => encoder' =
              [encoder EXCEPT ![s] =
                 [encoder[s] EXCEPT !.on = TRUE, !.session = encoder[s].session + 1]]
         /\ UNCHANGED <<recorder, optionVars, output, end_of_stream, reading, frame, writerOf>>
<1>1. encoder \in [RecordStreams -> Coder] =>
        [encoder EXCEPT ![s].on = TRUE, ![s].session = @ + 1] =
          [encoder EXCEPT ![s] =
             [encoder[s] EXCEPT !.on = TRUE, !.session = encoder[s].session + 1]]
  BY DEF Coder
<1> QED BY <1>1 DEF StartSession

LEMMA FrameEncoded ==
  ASSUME NEW s \in RecordStreams, Encode(s)
  PROVE  /\ encoder[s].on
         /\ encoder' = [encoder EXCEPT ![s] = [encoder[s] EXCEPT !.n = encoder[s].n + 1]]
         /\ output' = [output EXCEPT ![s] = Append(@, <<encoder[s].session, encoder'[s].n>>)]
         /\ UNCHANGED <<recorder, optionVars, end_of_stream, reading, frame, writerOf>>
BY DEF Encode

LEMMA RecorderInvInit ==
  ASSUME RecorderInit \/ RecorderOff
  PROVE  RecorderInv
<1>1. PICK program \in {"off", "bsreader", "stream"}, size \in BOOLEAN, info \in BOOLEAN :
        RecorderStart(program, size, info)
  BY DEF RecorderInit, RecorderOff
<1>2. RecorderTypes
  <2>1. <<>> \in Seq(Entry) /\ <<>> \in Seq(File) /\ NoFrame \in Entry
        /\ [on |-> FALSE, session |-> 0, n |-> 0] \in Coder
        /\ [fd |-> 0, fd_info |-> 0, session_id |-> 0, total_bytes |-> 0] \in State
    BY EmptySeq DEF NoFrame, Entry, Coder, State
  <2>2. recorder \in {"off", "bsreader", "stream", "stopping", "exited"}
        /\ reading \in [RecordStreams -> {"none", "look", "get", "write", "ended"}]
    BY <1>1 DEF RecorderStart
  <2> QED BY <1>1, <2>1, <2>2, RecorderSizes DEF RecorderStart, RecorderTypes
<1>3. ASSUME NEW s \in RecordStreams
      PROVE  StreamInv(s)
  <2>1. PICK enc, st : /\ enc = [on |-> FALSE, session |-> 0, n |-> 0]
                       /\ st = [fd |-> 0, fd_info |-> 0, session_id |-> 0, total_bytes |-> 0]
    OBVIOUS
  <2>2. /\ output[s] = <<>> /\ encoder[s] = enc /\ encoding_states[s] = st /\ files[s] = <<>>
        /\ frame[s] = NoFrame /\ received[s] = {} /\ reading[s] \in {"none", "look"}
        /\ GoneOf(s) = {} /\ failures = 0
    BY <1>1, <2>1 DEF RecorderStart, GoneOf
  <2>3. /\ enc.on = FALSE /\ enc.session = 0 /\ enc.n = 0 /\ st.fd = 0 /\ st.fd_info = 0
        /\ st.session_id = 0 /\ st.total_bytes = 0 /\ Len(<<>>) = 0
    BY <2>1
  <2>4. InQueue(<<>>, enc) /\ Ahead(<<>>, enc, st, {}, TRUE)
    BY <2>3 DEF InQueue, Ahead
  <2>5. OpenOne(st, <<>>, NoFrame, TRUE, frame_info_flag)
        /\ InHand(NoFrame, reading[s], st, {}, {})
    BY <2>2, <2>3 DEF OpenOne, InHand
  <2>6. Kept(<<>>, NoFrame, {}, {})
        /\ CutRight(st, <<>>, NoFrame, TRUE, file_size_flag, frame_info_flag)
    BY <2>3 DEF Kept, CutRight
  <2> QED BY <2>2, <2>4, <2>5, <2>6 DEF StreamInv
<1> QED BY <1>2, <1>3 DEF RecorderInv

\* The encoder moves stream s; the recorder's variables stay.
LEMMA EncoderMoves ==
  ASSUME RecorderInv, NEW s \in RecordStreams, NEW enc2 \in Coder, NEW out2 \in Seq(Entry),
         encoder' = [encoder EXCEPT ![s] = enc2], output' = [output EXCEPT ![s] = out2],
         UNCHANGED <<recorder, optionVars, end_of_stream, reading, frame, writerOf>>,
         InQueue(out2, enc2),
         Ahead(out2, enc2, encoding_states[s], received[s], failures = 0)
  PROVE  RecorderInv'
<1>1. RecorderTypes'
  BY DEF RecorderInv, RecorderTypes, writerOf, optionVars
<1>2. UNCHANGED <<recorder, file_size_flag, frame_info_flag, end_of_stream, reading, frame,
                  encoding_states, files, leaked, failures, received, dropped, overwritten>>
      /\ UNCHANGED optionVars
  BY DEF writerOf, optionVars
<1>3. \A t \in RecordStreams : GoneOf(t)' = GoneOf(t)
  BY <1>2, DropNone
<1>4. \A t \in RecordStreams : StreamInv(t)
  BY DEF RecorderInv
<1>5. StreamInv(s)'
  <2>1. output'[s] = out2 /\ encoder'[s] = enc2
    BY DEF RecorderInv, RecorderTypes
  <2>2. /\ encoding_states'[s] = encoding_states[s] /\ files'[s] = files[s]
        /\ frame'[s] = frame[s] /\ reading'[s] = reading[s] /\ received'[s] = received[s]
        /\ failures' = failures
    BY <1>2
  <2> QED BY <1>2, <1>3, <1>4, <2>1, <2>2 DEF StreamInv
<1>6. ASSUME NEW t \in RecordStreams, t # s
      PROVE  StreamInv(t)'
  <2>1. output'[t] = output[t] /\ encoder'[t] = encoder[t]
    BY <1>6 DEF RecorderInv, RecorderTypes
  <2>2. reading'[t] \in {"none", "look", "get"} => frame[t] = NoFrame
    BY <1>2, <1>4 DEF StreamInv, InHand
  <2>3. reading'[t] = reading[t]
    BY <1>2
  <2> QED BY <1>2, <1>3, <1>4, <2>1, <2>2, <2>3, Unmoved
<1> QED BY <1>1, <1>5, <1>6 DEF RecorderInv

LEMMA EncoderKeeps ==
  ASSUME RecorderInv, NEW s \in RecordStreams,
         StartSession(s) \/ Encode(s) \/ StopSession(s)
  PROVE  RecorderInv'
<1>1. /\ output[s] \in Seq(Entry) /\ encoder[s] \in Coder /\ encoding_states[s] \in State
  BY StreamTyped DEF RecorderInv
<1>2. PICK out, enc, st, rec, ok : /\ out = output[s] /\ enc = encoder[s]
                                   /\ st = encoding_states[s] /\ rec = received[s]
                                   /\ ok = (failures = 0)
  OBVIOUS
<1>3. /\ out \in Seq(Entry) /\ enc \in Coder /\ st \in State /\ ok \in BOOLEAN
      /\ InQueue(out, enc) /\ Ahead(out, enc, st, rec, ok)
  BY <1>1, <1>2 DEF RecorderInv, StreamInv
<1>4. CASE StartSession(s)
  <2>1. PICK enc2 : enc2 = [enc EXCEPT !.on = TRUE, !.session = enc.session + 1]
    OBVIOUS
  <2>2. /\ enc2 \in Coder /\ enc2.on /\ enc2.session = enc.session + 1 /\ enc2.n = enc.n
    <3>1. enc.session + 1 \in Nat
      BY <1>3 DEF Coder
    <3> QED BY <1>3, <2>1, <3>1 DEF Coder
  <2>3. /\ ~ enc.on /\ encoder' = [encoder EXCEPT ![s] = enc2]
        /\ UNCHANGED <<recorder, optionVars, output, end_of_stream, reading, frame, writerOf>>
    BY <1>2, <1>4, <2>1, SessionStarts DEF RecorderInv, RecorderTypes
  <2>4. InQueue(out, enc2) /\ Ahead(out, enc2, st, rec, ok)
    BY <1>3, <2>2, <2>3, QueueStart
  <2>5. output' = [output EXCEPT ![s] = out]
    BY <1>2, <2>3 DEF RecorderInv, RecorderTypes
  <2> QED BY <1>2, <1>3, <2>2, <2>3, <2>4, <2>5, EncoderMoves
<1>5. CASE Encode(s) \/ StopSession(s)
  <2>1. PICK enc2, e :
          /\ encoder' = [encoder EXCEPT ![s] = enc2]
          /\ output' = [output EXCEPT ![s] = Append(out, e)]
          /\ enc2 \in Coder /\ e \in Entry /\ e[1] = enc.session /\ enc2.session = enc.session
          /\ \/ e[2] = 0 /\ ~ enc2.on /\ enc2.n = enc.n
             \/ e[2] = enc.n + 1 /\ enc2.on /\ enc2.n = enc.n + 1
    <3>1. /\ enc.session \in Nat /\ enc.n \in Nat /\ enc.n + 1 \in Nat
          /\ \A k \in Nat : <<enc.session, k>> \in Entry
      BY <1>3 DEF Coder, Entry
    <3>2. CASE Encode(s)
      <4>1. enc.on /\ encoder' = [encoder EXCEPT ![s] = [enc EXCEPT !.n = enc.n + 1]]
            /\ output' = [output EXCEPT ![s] = Append(@, <<encoder[s].session, encoder'[s].n>>)]
        BY <1>2, <3>2, FrameEncoded
      <4>2. PICK enc2, e : enc2 = [enc EXCEPT !.n = enc.n + 1] /\ e = <<enc.session, enc.n + 1>>
        OBVIOUS
      <4>3. enc2 \in Coder /\ enc2.n = enc.n + 1 /\ enc2.on /\ enc2.session = enc.session
        BY <1>3, <3>1, <4>1, <4>2 DEF Coder
      <4>4. encoder'[s] = enc2
        BY <4>1, <4>2 DEF RecorderInv, RecorderTypes
      <4>5. output' = [output EXCEPT ![s] = Append(out, e)]
        BY <1>2, <4>1, <4>2, <4>3, <4>4
      <4>6. e \in Entry /\ e[1] = enc.session /\ e[2] = enc.n + 1
        BY <3>1, <4>2
      <4> QED BY <4>1, <4>2, <4>3, <4>5, <4>6, Zenon
    <3>3. CASE StopSession(s)
      <4>1. encoder' = [encoder EXCEPT ![s] = [enc EXCEPT !.on = FALSE]]
            /\ output' = [output EXCEPT ![s] = Append(out, <<enc.session, 0>>)]
        BY <1>2, <3>3 DEF StopSession
      <4>2. PICK enc2, e : enc2 = [enc EXCEPT !.on = FALSE] /\ e = <<enc.session, 0>>
        OBVIOUS
      <4>3. enc2 \in Coder /\ enc2.n = enc.n /\ ~ enc2.on /\ enc2.session = enc.session
        BY <1>3, <3>1, <4>2 DEF Coder
      <4>4. e \in Entry /\ e[1] = enc.session /\ e[2] = 0
        BY <3>1, <4>2
      <4> QED BY <4>1, <4>2, <4>3, <4>4, Zenon
    <3> QED BY <1>5, <3>2, <3>3
  <2>2. enc.on
    BY <1>2, <1>5, FrameEncoded DEF StopSession
  <2>3. UNCHANGED <<recorder, optionVars, end_of_stream, reading, frame, writerOf>>
    BY <1>5, FrameEncoded DEF StopSession
  <2>4. /\ Append(out, e) \in Seq(Entry) /\ InQueue(Append(out, e), enc2)
        /\ Ahead(Append(out, e), enc2, st, rec, ok)
    BY <1>3, <2>1, <2>2, QueueAppend
  <2> QED BY <1>2, <2>1, <2>3, <2>4, EncoderMoves
<1> QED BY <1>4, <1>5

Resting == {"none", "look", "get"}

\* Threads start, wait or end; nothing is read or written.
LEMMA ControlMoves ==
  ASSUME RecorderInv, UNCHANGED <<optionVars, encoder, output, frame, writerOf>>,
         recorder' \in {"off", "bsreader", "stream", "stopping", "exited"},
         end_of_stream' \subseteq RecordStreams,
         reading' \in [RecordStreams -> {"none", "look", "get", "write", "ended"}],
         \A t \in RecordStreams : /\ reading'[t] = "write" => reading[t] = "write"
                                  /\ reading'[t] \in Resting => reading[t] \in Resting
  PROVE  RecorderInv'
<1>1. RecorderTypes'
  BY DEF RecorderInv, RecorderTypes, writerOf, optionVars
<1>2. UNCHANGED <<encoding_states, files, leaked, failures, received, dropped, overwritten>>
      /\ UNCHANGED optionVars
  BY DEF writerOf
<1>3. \A t \in RecordStreams : GoneOf(t)' = GoneOf(t)
  BY <1>2, DropNone
<1>4. ASSUME NEW t \in RecordStreams
      PROVE  StreamInv(t)'
  <2>1. StreamInv(t)
    BY DEF RecorderInv
  <2>2. reading'[t] \in {"none", "look", "get"} => frame[t] = NoFrame
    BY <2>1 DEF StreamInv, InHand, Resting
  <2> QED BY <1>2, <1>3, <2>1, <2>2, Unmoved
<1> QED BY <1>1, <1>4 DEF RecorderInv

\* Stream s moves; the others may only go on waiting.
LEMMA StreamMoves ==
  ASSUME RecorderInv, NEW s \in RecordStreams, WriterMoves(s), StreamInv(s)',
         UNCHANGED <<optionVars, encoder, recorder>>,
         NEW out2 \in Seq(Entry), output' = [output EXCEPT ![s] = out2],
         end_of_stream' \subseteq RecordStreams,
         reading' \in [RecordStreams -> {"none", "look", "get", "write", "ended"}],
         \A t \in RecordStreams : t # s =>
           /\ reading'[t] = "write" => reading[t] = "write"
           /\ reading'[t] \in Resting => reading[t] \in Resting
  PROVE  RecorderInv'
<1>1. RecorderTypes'
  BY DEF RecorderInv, RecorderTypes, WriterMoves, optionVars
<1>2. ASSUME NEW t \in RecordStreams, t # s
      PROVE  StreamInv(t)'
  <2>1. StreamInv(t)
    BY DEF RecorderInv
  <2>2. reading'[t] \in {"none", "look", "get"} => frame[t] = NoFrame
    BY <1>2, <2>1 DEF StreamInv, InHand, Resting
  <2>3. output'[t] = output[t]
    BY <1>2 DEF RecorderInv, RecorderTypes
  <2>4. /\ encoding_states'[t] = encoding_states[t] /\ files'[t] = files[t]
        /\ frame'[t] = frame[t] /\ received'[t] = received[t] /\ GoneOf(t)' = GoneOf(t)
        /\ failures' = 0 => failures = 0
    BY <1>2 DEF WriterMoves
  <2>5. reading'[t] = "write" => reading[t] = "write"
    BY <1>2
  <2> QED BY <2>1, <2>2, <2>3, <2>4, <2>5, Unmoved
<1> QED BY <1>1, <1>2 DEF RecorderInv

LEMMA RecorderInductive ==
  ASSUME RecorderInv, [RecorderNext]_recorderVars
  PROVE  RecorderInv'
<1> USE DEF Resting
<1>1. /\ RecorderTypes /\ \A s \in RecordStreams : StreamInv(s)
      /\ reading \in [RecordStreams -> {"none", "look", "get", "write", "ended"}]
      /\ end_of_stream \subseteq RecordStreams
      /\ recorder \in {"off", "bsreader", "stream", "stopping", "exited"}
      /\ output \in [RecordStreams -> Seq(Entry)] /\ frame \in [RecordStreams -> Entry]
  BY DEF RecorderInv, RecorderTypes
<1>2. \A s \in RecordStreams : reading[s] \in {"none", "look", "get"} => frame[s] = NoFrame
  BY <1>1 DEF StreamInv, InHand
<1>3. ASSUME NEW s \in RecordStreams, output[s] # <<>>
      PROVE  Tail(output[s]) \in Seq(Entry)
  BY <1>1, <1>3, HeadTailProperties
<1>4. ASSUME NEW s \in RecordStreams, StartSession(s) \/ Encode(s) \/ StopSession(s)
      PROVE  RecorderInv'
  BY <1>4, EncoderKeeps
<1>5. ASSUME NEW s \in RecordStreams, CreateWorkingThread(s) PROVE RecorderInv'
  BY <1>1, <1>5, ControlMoves DEF CreateWorkingThread
<1>6. ASSUME NEW s \in RecordStreams, GetOneFrame(s) PROVE RecorderInv'
  <2>1. /\ output[s] # <<>> /\ output' = [output EXCEPT ![s] = Tail(output[s])] /\ Process(s)
        /\ UNCHANGED <<recorder, optionVars, encoder, end_of_stream>> /\ reading[s] = "get"
    BY <1>6 DEF GetOneFrame
  <2>2. PICK r \in {"ended", "get", "write"} :
          /\ reading' = [reading EXCEPT ![s] = r]
          /\ r = "write" => frame'[s] # NoFrame
          /\ r = "get" => frame'[s] = NoFrame
    BY <1>6 DEF GetOneFrame
  <2>3. reading'[s] = r /\ output'[s] = Tail(output[s]) /\ frame[s] = NoFrame
    BY <1>1, <1>2, <2>1, <2>2
  <2>4. StreamInv(s)' /\ WriterMoves(s)
    BY <1>1, <2>1, <2>2, <2>3, ReadStep
  <2>5. reading' \in [RecordStreams -> {"none", "look", "get", "write", "ended"}]
        /\ \A t \in RecordStreams : t # s => reading'[t] = reading[t]
    BY <1>1, <2>2
  <2>6. Tail(output[s]) \in Seq(Entry) /\ end_of_stream' \subseteq RecordStreams
    BY <1>1, <1>3, <2>1
  <2> QED BY <2>1, <2>4, <2>5, <2>6, StreamMoves
<1>7. ASSUME NEW s \in RecordStreams, Write(s) PROVE RecorderInv'
  <2>1. /\ UNCHANGED <<recorder, optionVars, encoder, output, end_of_stream>>
        /\ WriteVideoFile(s) /\ reading[s] = "write"
    BY <1>7 DEF Write
  <2>2. PICK r \in {"look", "get", "ended"} : reading' = [reading EXCEPT ![s] = r]
    BY <1>7 DEF Write
  <2>3. /\ reading' \in [RecordStreams -> {"none", "look", "get", "write", "ended"}]
        /\ reading'[s] = r /\ \A t \in RecordStreams : t # s => reading'[t] = reading[t]
    BY <1>1, <2>2
  <2>4. StreamInv(s)' /\ WriterMoves(s)
    BY <1>1, <2>1, <2>3, WriteStep
  <2>5. output[s] \in Seq(Entry) /\ output' = [output EXCEPT ![s] = output[s]]
        /\ end_of_stream' \subseteq RecordStreams
    BY <1>1, <2>1
  <2> QED BY <2>1, <2>3, <2>4, <2>5, StreamMoves
<1>8. ASSUME NEW s \in RecordStreams, CancelThread(s) PROVE RecorderInv'
  BY <1>1, <1>8, ControlMoves DEF CancelThread
<1>9. CASE StopRecorder
  BY <1>1, <1>9, ControlMoves DEF StopRecorder
<1>10. CASE BsreaderClose
  BY <1>1, <1>10, ControlMoves DEF BsreaderClose
<1>11. CASE LookAtStreams
  <2>1. end_of_stream' \subseteq RecordStreams
    BY <1>1, <1>11 DEF LookAtStreams, StreamsEnded
  <2> QED BY <1>1, <1>11, <2>1, ControlMoves DEF LookAtStreams
<1>12. CASE ReadBitstream
  <2>1. \A t \in RecordStreams : reading[t] = "get" /\ frame[t] = NoFrame
    BY <1>2, <1>12 DEF ReadBitstream
  <2>2. UNCHANGED <<recorder, optionVars, encoder>>
    BY <1>12 DEF ReadBitstream
  <2>3. CASE \E s \in RecordStreams :
               /\ output[s] # <<>>
               /\ output' = [output EXCEPT ![s] = Tail(@)]
               /\ Process(s)
               /\ end_of_stream' = IF Head(output[s])[2] = 0 THEN end_of_stream \cup {s}
                                                             ELSE end_of_stream
               /\ reading' = [t \in RecordStreams |->
                    IF frame'[t] = NoFrame THEN "look" ELSE "write"]
    <3>1. PICK s \in RecordStreams :
               /\ output[s] # <<>>
               /\ output' = [output EXCEPT ![s] = Tail(@)]
               /\ Process(s)
               /\ end_of_stream' = IF Head(output[s])[2] = 0 THEN end_of_stream \cup {s}
                                                             ELSE end_of_stream
               /\ reading' = [t \in RecordStreams |->
                    IF frame'[t] = NoFrame THEN "look" ELSE "write"]
      BY <2>3
    <3>2. /\ reading' \in [RecordStreams -> {"none", "look", "get", "write", "ended"}]
          /\ \A t \in RecordStreams : /\ frame'[t] = NoFrame => reading'[t] = "look"
                                      /\ frame'[t] # NoFrame => reading'[t] = "write"
      BY <3>1
    <3>3. end_of_stream' \subseteq RecordStreams /\ output'[s] = Tail(output[s])
      BY <1>1, <3>1
    <3>4. StreamInv(s)' /\ WriterMoves(s)
      BY <1>1, <2>1, <2>2, <3>1, <3>2, <3>3, ReadStep
    <3>5. \A t \in RecordStreams : t # s => reading'[t] = "look"
      BY <2>1, <3>2, <3>4 DEF WriterMoves
    <3>6. Tail(output[s]) \in Seq(Entry)
      BY <1>3, <3>1
    <3> QED BY <2>1, <2>2, <3>1, <3>2, <3>3, <3>4, <3>5, <3>6, StreamMoves
  <2>4. CASE /\ \A s \in RecordStreams : output[s] = <<>>
             /\ reading' = [s \in RecordStreams |-> "look"]
             /\ UNCHANGED <<output, end_of_stream, frame, writerOf>>
    BY <1>1, <2>1, <2>2, <2>4, ControlMoves
  <2> QED BY <1>12, <2>3, <2>4 DEF ReadBitstream
<1>13. CASE UNCHANGED recorderVars
  BY <1>1, <1>13, ControlMoves DEF recorderVars, optionVars, writerOf
<1> QED BY <1>4, <1>5, <1>6, <1>7, <1>8, <1>9, <1>10, <1>11, <1>12, <1>13 DEF RecorderNext

LEMMA RecorderInvSound ==
  ASSUME RecorderInv
  PROVE  FilesSound /\ RecorderTypeOK
<1>1. RecorderTypeOK
  <2>1. ASSUME NEW s \in RecordStreams
        PROVE  {encoding_states[s].fd, encoding_states[s].fd_info} \subseteq 0 .. Len(files[s])
    <3>1. encoding_states[s] \in State /\ Len(files[s]) \in Nat
      BY StreamTyped DEF RecorderInv
    <3>2. encoding_states[s].fd \in {0, Len(files[s])} /\ encoding_states[s].fd_info <= Len(files[s])
      BY DEF RecorderInv, StreamInv, OpenOne
    <3> QED BY <3>1, <3>2 DEF State
  <2> QED BY <2>1 DEF RecorderInv, RecorderTypes, RecorderTypeOK
<1>2. ASSUME NEW s \in RecordStreams
      PROVE  /\ files[s] \in Seq(File) /\ Len(files[s]) \in Nat /\ received[s] \subseteq Entry
             /\ DOMAIN files[s] = 1 .. Len(files[s])
             /\ \A i \in 1 .. Len(files[s]) :
                  DOMAIN files[s][i].frames = 1 .. Len(files[s][i].frames)
             /\ Kept(files[s], frame[s], received[s], GoneOf(s))
             /\ CutRight(encoding_states[s], files[s], frame[s], failures = 0, file_size_flag,
                         frame_info_flag)
             /\ InHand(frame[s], reading[s], encoding_states[s], received[s], GoneOf(s))
  <2>1. files[s] \in Seq(File) /\ Len(files[s]) \in Nat /\ received[s] \subseteq Entry
    BY StreamTyped DEF RecorderInv
  <2>2. \A i \in 1 .. Len(files[s]) :
          DOMAIN files[s][i].frames = 1 .. Len(files[s][i].frames)
    BY <2>1, FileFields, LenProperties
  <2>3. DOMAIN files[s] = 1 .. Len(files[s])
    BY <2>1, LenProperties
  <2> QED BY <2>1, <2>2, <2>3 DEF RecorderInv, StreamInv
<1>3. FramesInTheirFiles
  <2>1. (failures = 0 => dropped = {}) /\ (~ file_size_flag => overwritten = {})
    BY DEF RecorderInv, RecorderTypes
  <2>2. ASSUME NEW s \in RecordStreams
        PROVE  /\ UNION {Range(files[s][i].frames) : i \in DOMAIN files[s]}
                    = {f \in received[s] : <<s, f>> \notin dropped \cup overwritten} \ {frame[s]}
               /\ \A i, j \in DOMAIN files[s] :
                    \A k \in DOMAIN files[s][i].frames, l \in DOMAIN files[s][j].frames :
                      i < j \/ (i = j /\ k < l)
                        => files[s][i].frames[k][2] < files[s][j].frames[l][2]
               /\ \A i \in DOMAIN files[s] : \A f \in Range(files[s][i].frames) :
                    f[1] = files[s][i].session
    <3>1. PICK fs, fr, rec, drp : /\ fs = files[s] /\ fr = frame[s] /\ rec = received[s]
                                  /\ drp = GoneOf(s)
      OBVIOUS
    <3>2. /\ DOMAIN fs = 1 .. Len(fs) /\ rec \subseteq Entry /\ Kept(fs, fr, rec, drp)
          /\ \A i \in 1 .. Len(fs) : DOMAIN fs[i].frames = 1 .. Len(fs[i].frames)
          /\ fr # NoFrame => fr \in rec
      BY <1>2, <3>1 DEF InHand
    <3>3. \A f \in rec : f \in drp <=> <<s, f>> \in dropped \cup overwritten
      BY <3>1, <3>2 DEF GoneOf
    <3>4. ASSUME NEW i \in 1 .. Len(fs), NEW k \in 1 .. Len(fs[i].frames)
          PROVE  /\ fs[i].frames[k] \in rec /\ fs[i].frames[k] \notin drp
                 /\ fs[i].frames[k] # fr /\ fs[i].frames[k][1] = fs[i].session
      <4>1. /\ fs[i].frames[k] \in rec /\ fs[i].frames[k] \notin drp
            /\ fs[i].frames[k][1] = fs[i].session
            /\ fr # NoFrame => fs[i].frames[k][2] < fr[2]
        BY <3>2 DEF Kept
      <4>2. CASE fr # NoFrame
        <5>1. fr[2] \in Nat /\ fs[i].frames[k][2] < fr[2]
          BY <3>2, <4>1, <4>2 DEF Entry
        <5>2. fs[i].frames[k][2] # fr[2]
          BY <5>1
        <5> QED BY <4>1, <5>2
      <4>3. CASE fr = NoFrame
        <5>1. \A g \in rec : g # NoFrame
          <6>1. \A g \in rec : g[2] # 0
            BY <3>1 DEF RecorderInv, StreamInv, Ahead
          <6> QED BY <6>1 DEF NoFrame
        <5> QED BY <4>1, <4>3, <5>1
      <4> QED BY <4>1, <4>2, <4>3
    <3>5. UNION {Range(fs[i].frames) : i \in DOMAIN fs}
            = {f \in rec : <<s, f>> \notin dropped \cup overwritten} \ {fr}
      <4>1. ASSUME NEW g \in UNION {Range(fs[i].frames) : i \in DOMAIN fs}
            PROVE  g \in {f \in rec : <<s, f>> \notin dropped \cup overwritten} \ {fr}
        <5>1. PICK i \in 1 .. Len(fs) : g \in Range(fs[i].frames)
          BY <3>2, <4>1
        <5>2. PICK k \in 1 .. Len(fs[i].frames) : g = fs[i].frames[k]
          BY <3>2, <5>1 DEF Range
        <5> QED BY <3>3, <3>4, <5>2
      <4>2. ASSUME NEW g \in {f \in rec : <<s, f>> \notin dropped \cup overwritten} \ {fr}
            PROVE  g \in UNION {Range(fs[i].frames) : i \in DOMAIN fs}
        <5>1. g \in rec /\ g \notin drp /\ g # fr
          BY <3>3, <4>2
        <5>2. PICK i \in 1 .. Len(fs) : \E k \in 1 .. Len(fs[i].frames) : g = fs[i].frames[k]
          BY <3>2, <5>1 DEF Kept
        <5>3. g \in Range(fs[i].frames)
          BY <3>2, <5>2 DEF Range
        <5> QED BY <3>2, <5>3
      <4> QED BY <4>1, <4>2
    <3>6. \A i, j \in 1 .. Len(fs) :
            \A k \in 1 .. Len(fs[i].frames), l \in 1 .. Len(fs[j].frames) :
              i < j \/ (i = j /\ k < l) => fs[i].frames[k][2] < fs[j].frames[l][2]
      BY <3>2 DEF Kept
    <3>7. \A i, j \in DOMAIN fs :
            \A k \in DOMAIN fs[i].frames, l \in DOMAIN fs[j].frames :
              i < j \/ (i = j /\ k < l) => fs[i].frames[k][2] < fs[j].frames[l][2]
      <4>1. ASSUME NEW i \in DOMAIN fs, NEW j \in DOMAIN fs, NEW k \in DOMAIN fs[i].frames,
                   NEW l \in DOMAIN fs[j].frames, i < j \/ (i = j /\ k < l)
            PROVE  fs[i].frames[k][2] < fs[j].frames[l][2]
        BY <3>2, <3>6, <4>1
      <4> QED BY <4>1
    <3>8. \A i \in DOMAIN fs : \A f \in Range(fs[i].frames) : f[1] = fs[i].session
      BY <3>2, <3>4 DEF Range
    <3> QED BY <3>1, <3>5, <3>7, <3>8
  <2> QED BY <2>1, <2>2 DEF FramesInTheirFiles
<1>4. FilesSplitAtSize
  <2>1. ASSUME failures = 0, NEW s \in RecordStreams, NEW i \in 1 .. Len(files[s])
        PROVE  /\ file_size_flag => Len(files[s][i].frames) <= FileSize + 1
               /\ \/ i = Len(files[s]) \/ files[s][i].session # files[s][i + 1].session
                  \/ file_size_flag /\ Len(files[s][i].frames) \in {0, FileSize + 1}
    <3>1. i # Len(files[s]) => i \in 1 .. Len(files[s]) - 1
      BY <1>2
    <3> QED BY <1>2, <2>1, <3>1 DEF CutRight
  <2> QED BY <1>2, <2>1 DEF FilesSplitAtSize
<1>5. InfoMatchesFrames
  <2>1. ASSUME frame_info_flag, failures = 0, NEW s \in RecordStreams,
               NEW i \in 1 .. Len(files[s])
        PROVE  files[s][i].records =
                 Len(files[s][i].frames)
                   + (IF frame[s] # NoFrame /\ i = Len(files[s]) THEN 1 ELSE 0)
    BY <1>2, <2>1 DEF CutRight
  <2> QED BY <1>2, <2>1 DEF InfoMatchesFrames
<1> QED BY <1>1, <1>3, <1>4, <1>5 DEF FilesSound

\* The recorders: each frame read is in one file of its session, at its place, or in hand,
\* or dropped by a failed open or write, or in a file that was split from and created
\* again under its name; while nothing fails files are cut at their size and have a record
\* per frame; for any number of streams, sessions, frames and failures.
THEOREM Recorded == RecorderSpec => []FilesSound
<1>1. RecorderInit => RecorderInv
  BY RecorderInvInit
<1>2. RecorderInv /\ [RecorderNext]_recorderVars => RecorderInv'
  BY RecorderInductive
<1>3. RecorderInv => FilesSound
  BY RecorderInvSound
<1> QED BY <1>1, <1>2, <1>3, PTL DEF RecorderSpec
=============================================================================
