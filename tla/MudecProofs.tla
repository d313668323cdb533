------------------------------ MODULE MudecProofs ------------------------------
(***************************************************************************)
(* mudec.c for any number of streams, any queue and any sequence of        *)
(* commands: the types, what a thread makes of its messages, and which     *)
(* streams are fed.                                                        *)
(***************************************************************************)
EXTENDS Mudec, SequenceTheorems, FiniteSetTheorems, TLAPS

Messages == {"PAUSE", "RESUME", "KILL"}

\* The steps that a command is made of.
Steps ==
  [op : {"put"}, i : Udecs, a : Messages]
  \cup [op : {"trickplay"}, i : Udecs \cup {NoUdec}, a : {"RESUME"}]
  \cup [op : {"step"}, i : Udecs, a : {"STEP"}]
  \cup [op : {"pause_resume", "stop"}, i : Udecs, a : {""}]
  \cup [op : {"adjust_pts", "switch", "render"}, i : Udecs, a : Udecs]
  \cup [op : {"show"}, i : {0}, a : {"sd", "hd"}]
  \cup [op : {"wait_switch"}, i : Udecs, a : {NoUdec}]
  \cup UNION {[op : {"config"}, i : {n}, a : [0 .. n - 1 -> Udecs]] : n \in 0 .. total_num}

-----------------------------------------------------------------------------
(* Lists of steps *)

\* Streams are numbered.
LEMMA Streams ==
  /\ sds \in Nat \ {0} /\ hds \in Nat /\ total_num \in Nat \ {0}
  /\ Udecs = 0 .. total_num - 1 /\ Sd = 0 .. sds - 1 /\ Hd = sds .. total_num - 1
  /\ Udecs \subseteq Int /\ Renders = Udecs
  /\ Sd \cup Hd = Udecs /\ Sd \cap Hd = {} /\ 0 \in Sd
<1>1. sds \in Nat \ {0} /\ hds \in Nat
  BY MudecAssumption
<1>2. total_num \in Nat \ {0}
  BY <1>1 DEF total_num
<1>3. \A i : i \in Udecs <=> i \in Sd \/ i \in Hd
  BY <1>1 DEF Udecs, Sd, Hd, total_num
<1>4. Sd \cap Hd = {} /\ 0 \in Sd
  BY <1>1, <1>2 DEF Sd, Hd
<1>5. Udecs = 0 .. total_num - 1 /\ Sd = 0 .. sds - 1 /\ Hd = sds .. total_num - 1
  BY DEF Udecs, Sd, Hd
<1>6. Renders = Udecs /\ Udecs \subseteq Int
  BY DEF Renders, Udecs
<1> QED BY <1>1, <1>2, <1>3, <1>4, <1>5, <1>6

LEMMA Bounds ==
  /\ MAX_MSGS \in Nat \ {0} /\ FifoFrames \in Nat \ {0} /\ FileFrames \in Nat
  /\ first_show_hd_stream => hds > 0
BY MudecAssumption

\* The steps of a list whose head is taken.
LEMMA RangeTail ==
  ASSUME NEW S, NEW s \in Seq(S), s # <<>>
  PROVE  /\ Head(s) \in S /\ Tail(s) \in Seq(S)
         /\ Range(s) = {Head(s)} \cup Range(Tail(s))
<1>1. /\ Head(s) \in S /\ Tail(s) \in Seq(S) /\ Len(Tail(s)) = Len(s) - 1
      /\ \A k \in 1 .. Len(Tail(s)) : Tail(s)[k] = s[k + 1]
  BY HeadTailProperties
<1>2. /\ Len(s) \in Nat \ {0} /\ Head(s) = s[1] /\ DOMAIN s = 1 .. Len(s)
      /\ DOMAIN Tail(s) = 1 .. Len(Tail(s))
  BY <1>1, EmptySeq, LenProperties
<1>3. ASSUME NEW x \in Range(s) PROVE x = Head(s) \/ x \in Range(Tail(s))
  <2>1. PICK k \in 1 .. Len(s) : s[k] = x
    BY <1>2, <1>3 DEF Range
  <2>2. CASE k = 1
    BY <1>2, <2>1, <2>2
  <2>3. CASE k # 1
    <3>1. k - 1 \in 1 .. Len(Tail(s)) /\ (k - 1) + 1 = k
      BY <1>1, <1>2, <2>3
    <3>2. Tail(s)[k - 1] = x
      BY <1>1, <2>1, <3>1
    <3> QED BY <1>2, <3>1, <3>2 DEF Range
  <2> QED BY <2>2, <2>3
<1>4. ASSUME NEW x \in Range(Tail(s)) PROVE x \in Range(s)
  BY <1>1, <1>2, <1>4 DEF Range
<1>5. Head(s) \in Range(s)
  BY <1>2 DEF Range
<1> QED BY <1>1, <1>3, <1>4, <1>5

\* A function on 1 .. n is a list of its values.
LEMMA FunctionIsList ==
  ASSUME NEW S, NEW n \in Nat, NEW f \in [1 .. n -> S]
  PROVE  f \in Seq(S) /\ Range(f) = {f[k] : k \in 1 .. n}
BY SeqDef DEF Range

\* Each(S, op, a) is that step for every stream of an interval.
EachOf(S, op, a) == {Do(op, i, a) : i \in S}

LEMMA EachStream ==
  ASSUME NEW lo \in Int, NEW hi \in Int, NEW op, NEW a
  PROVE  /\ Each(lo .. hi, op, a) \in Seq(EachOf(lo .. hi, op, a))
         /\ Range(Each(lo .. hi, op, a)) = EachOf(lo .. hi, op, a)
<1> DEFINE S == lo .. hi
           E == EachOf(S, op, a)
           first == CHOOSE i \in S : \A j \in S : i <= j
<1>1. CASE lo > hi
  <2>1. S = {}
    BY <1>1
  <2>2. Each(S, op, a) = <<>> /\ E = {}
    BY <2>1 DEF Each, EachOf
  <2>3. Range(<<>>) = {}
    BY DEF Range
  <2> QED BY <2>2, <2>3, EmptySeq
<1>2. CASE lo <= hi
  <2> DEFINE n == hi - lo + 1
             each == [k \in 1 .. n |-> Do(op, lo + k - 1, a)]
  <2>1. lo \in S /\ \A j \in S : lo <= j
    BY <1>2
  <2>2. first = lo
    BY <2>1
  <2>3. Cardinality(S) = n
    BY <1>2, FS_Interval
  <2>4. S # {}
    BY <2>1
  <2>5. Each(S, op, a) = [k \in 1 .. Cardinality(S) |-> Do(op, first + k - 1, a)]
    BY <2>4 DEF Each
  <2>6. Each(S, op, a) = each
    BY <2>2, <2>3, <2>5
  <2>7. n \in Nat /\ \A k \in 1 .. n : lo + k - 1 \in S
    BY <1>2
  <2>8. \A i \in S : i - lo + 1 \in 1 .. n /\ lo + (i - lo + 1) - 1 = i
    BY <1>2
  <2>9. each \in [1 .. n -> E]
    BY <2>7 DEF EachOf
  <2> HIDE DEF n, E, each
  <2>10. each \in Seq(E) /\ Range(each) = {each[k] : k \in 1 .. n}
    BY <2>7, <2>9, FunctionIsList
  <2>11. {each[k] : k \in 1 .. n} = E
    <3>1. ASSUME NEW i \in S PROVE Do(op, i, a) \in {each[k] : k \in 1 .. n}
      <4>1. each[i - lo + 1] = Do(op, lo + (i - lo + 1) - 1, a)
        BY <2>8 DEF each
      <4> QED BY <2>8, <4>1
    <3>2. {each[k] : k \in 1 .. n} \subseteq E
      BY <2>9
    <3> QED BY <3>1, <3>2 DEF E, EachOf
  <2> QED BY <2>6, <2>10, <2>11 DEF E
<1> QED BY <1>1, <1>2
-----------------------------------------------------------------------------
(* What a command is made of *)

\* Every step that Each makes for main is one of a command.
LEMMA EachSteps ==
  /\ \A S \in {Udecs, Sd, Hd}, m \in Messages : Each(S, "put", m) \in Seq(Steps)
  /\ \A S \in {Udecs, Sd, Hd} : Each(S, "trickplay", "RESUME") \in Seq(Steps)
<1>1. ASSUME NEW S \in {Udecs, Sd, Hd} PROVE S \subseteq Udecs
  BY <1>1, Streams
<1>2. ASSUME NEW S \in {Udecs, Sd, Hd}, NEW op, NEW a,
             \A i \in Udecs : Do(op, i, a) \in Steps
      PROVE  Each(S, op, a) \in Seq(Steps)
  <2>1. PICK lo \in Int, hi \in Int : S = lo .. hi
    BY Streams
  <2>2. Each(S, op, a) \in Seq(EachOf(S, op, a))
    BY <2>1, EachStream
  <2>3. EachOf(S, op, a) \subseteq Steps
    BY <1>1, <1>2 DEF EachOf
  <2> QED BY <2>2, <2>3, SeqMonotonic
<1>3. \A i \in Udecs : Do("trickplay", i, "RESUME") \in Steps
  BY DEF Do, Steps
<1>4. \A i \in Udecs, m \in Messages : Do("put", i, m) \in Steps
  BY DEF Do, Steps
<1> QED BY <1>2, <1>3, <1>4

\* One step is a list of steps, and so are two lists put together.
LEMMA StepLists ==
  /\ <<>> \in Seq(Steps)
  /\ \A s \in Steps : <<s>> \in Seq(Steps)
  /\ \A s, t \in Seq(Steps) : s \o t \in Seq(Steps)
  /\ \A s \in Seq(Steps) : Feeding(s) \in Seq(Steps)
<1>1. <<>> \in Seq(Steps)
  BY EmptySeq
<1>2. \A s \in Steps : <<s>> \in Seq(Steps)
  OBVIOUS
<1>3. \A s, t \in Seq(Steps) : s \o t \in Seq(Steps)
  BY ConcatProperties
<1> QED BY <1>1, <1>2, <1>3 DEF Feeding

\* What the fields of a step are.
LEMMA StepFields ==
  ASSUME NEW s \in Steps
  PROVE  /\ s.op = "put" => s.i \in Udecs /\ s.a \in Messages
         /\ s.op = "trickplay" => s.i \in Udecs \cup {NoUdec} /\ s.a = "RESUME"
         /\ s.op \in {"step", "pause_resume", "stop", "adjust_pts"} => s.i \in Udecs
         /\ s.op \in {"switch", "render"} => s.i \in Udecs /\ s.a \in Udecs
         /\ s.op = "show" => s.a \in {"sd", "hd"} /\ s = Do("show", 0, s.a)
         /\ s.op = "wait_switch" => s.i \in Udecs
         /\ s.op = "config" => s.i \in 0 .. total_num /\ s.a \in [0 .. s.i - 1 -> Udecs]
<1>1. CASE s \in [op : {"put"}, i : Udecs, a : Messages]
  BY <1>1
<1>2. CASE s \in [op : {"trickplay"}, i : Udecs \cup {NoUdec}, a : {"RESUME"}]
  BY <1>2
<1>3. CASE s \in [op : {"step"}, i : Udecs, a : {"STEP"}]
            \cup [op : {"pause_resume", "stop"}, i : Udecs, a : {""}]
  BY <1>3
<1>4. CASE s \in [op : {"adjust_pts", "switch", "render"}, i : Udecs, a : Udecs]
  BY <1>4
<1>5. CASE s \in [op : {"show"}, i : {0}, a : {"sd", "hd"}]
  BY <1>5 DEF Do
<1>6. ASSUME NEW n \in 0 .. total_num, s \in [op : {"config"}, i : {n}, a : [0 .. n - 1 -> Udecs]]
      PROVE  s.op = "config" /\ s.i \in 0 .. total_num /\ s.a \in [0 .. s.i - 1 -> Udecs]
  BY <1>6
<1>7. CASE s \in [op : {"wait_switch"}, i : Udecs, a : {NoUdec}]
  BY <1>7
<1> QED BY <1>1, <1>2, <1>3, <1>4, <1>5, <1>6, <1>7 DEF Steps

\* What the operator types becomes a list of steps.
LEMMA CommandTyped ==
  ASSUME TypeOK, Command
  PROVE  /\ todo' \in Seq(Steps)
         /\ switch_new_udec_id' \in Udecs \cup {NoUdec}
         /\ \E c \in Commands, running \in BOOLEAN : Type(c, todo', running)
<1>0. ASSUME NEW r \in Renders PROVE WaitSwitched(r) \in Seq(Steps)
  <2>1. Do("wait_switch", r, NoUdec) \in Steps
    BY Streams DEF Do, Steps
  <2> QED BY <2>1, StepLists DEF WaitSwitched
<1>1. ASSUME NEW S \in {Udecs, Sd, Hd}
      PROVE  ResumeFeeding(S) \in Seq(Steps) /\ PauseFeeding(S) \in Seq(Steps)
  BY EachSteps, StepLists DEF ResumeFeeding, PauseFeeding, Messages
<1>2. Quit \in Seq(Steps)
  BY EachSteps DEF Quit
<1>3. Do("show", 0, "sd") \in Steps /\ Do("show", 0, "hd") \in Steps
  BY DEF Do, Steps
<1>4. Crsd \in Seq(Steps)
  BY <1>1, <1>3, EachSteps, StepLists DEF Crsd
<1>5. ASSUME NEW u \in Udecs \cup {NoUdec} PROVE Crhd(u) \in Seq(Steps)
  <2>1. Do("trickplay", u, "RESUME") \in Steps
    BY DEF Do, Steps
  <2> QED BY <1>1, <1>3, <2>1, StepLists DEF Crhd
<1>6. ASSUME NEW r \in Renders, NEW n \in Udecs, NEW auto \in BOOLEAN
      PROVE  Switch(r, n, auto) \in Seq(Steps)
  <2>1. r \in Udecs /\ renders[r] \in Udecs
    BY Streams DEF TypeOK
  <2> DEFINE wait == WaitSwitched(r)
  <2>2. /\ Do("adjust_pts", n, renders[r]) \in Steps /\ Put(n, "RESUME") \in Steps
        /\ Do("trickplay", n, "RESUME") \in Steps /\ Do("switch", r, n) \in Steps
        /\ Put(renders[r], "PAUSE") \in Steps /\ Do("render", r, n) \in Steps
    BY <2>1 DEF Do, Put, Steps, Messages
  <2>3. <<Do("adjust_pts", n, renders[r]), Put(n, "RESUME"), Do("trickplay", n, "RESUME")>>
          \in Seq(Steps)
    BY <2>2
  <2>4. (CASE auto /\ cur_display = 0 /\ n \in Hd ->
                <<Do("show", 0, "hd")>> \o PauseFeeding(Sd)
           [] auto /\ cur_display = 1 /\ n \in Sd ->
                ResumeFeeding(Sd) \o Feeding(Each(Sd, "trickplay", "RESUME"))
                  \o <<Do("show", 0, "sd")>> \o PauseFeeding(Hd)
           [] OTHER -> <<>>) \in Seq(Steps)
    <3>1. <<Do("show", 0, "hd")>> \o PauseFeeding(Sd) \in Seq(Steps)
      BY <1>1, <1>3, StepLists
    <3>2. ResumeFeeding(Sd) \o Feeding(Each(Sd, "trickplay", "RESUME"))
            \o <<Do("show", 0, "sd")>> \o PauseFeeding(Hd) \in Seq(Steps)
      BY <1>1, <1>3, EachSteps, StepLists
    <3>3. ~ ((auto /\ cur_display = 0 /\ n \in Hd) /\ (auto /\ cur_display = 1 /\ n \in Sd))
      OBVIOUS
    <3> QED BY <3>1, <3>2, <3>3, StepLists
  <2>5. wait \in Seq(Steps)
    BY <1>0
  <2> HIDE DEF wait
  <2>6. Feeding(<<Do("adjust_pts", n, renders[r]), Put(n, "RESUME"), Do("trickplay", n, "RESUME")>>)
          \o <<Do("switch", r, n)>> \o wait \o Feeding(<<Put(renders[r], "PAUSE")>>)
          \o <<Do("render", r, n)>> \in Seq(Steps)
    BY <2>2, <2>3, <2>5, StepLists
  <2> QED BY <2>4, <2>6, StepLists DEF Switch, wait
<1>7. ASSUME NEW n \in 0 .. total_num, NEW u \in [0 .. n - 1 -> Udecs]
      PROVE  <<Do("config", n, u)>> \in Seq(Steps)
  <2>1. Do("config", n, u) \in [op : {"config"}, i : {n}, a : [0 .. n - 1 -> Udecs]]
    BY DEF Do
  <2>2. Do("config", n, u) \in Steps
    BY <2>1 DEF Steps
  <2> QED BY <2>2, StepLists
<1>8. ASSUME NEW n \in Udecs
      PROVE  /\ <<Do("step", n, "STEP")>> \in Seq(Steps)
             /\ <<Do("pause_resume", n, "")>> \in Seq(Steps)
             /\ <<Do("stop", n, "")>> \in Seq(Steps)
  BY StepLists DEF Do, Steps
<1>9. \A c, steps, running : Type(c, steps, running) => c \in Commands /\ todo' = steps
  BY DEF Type
<1>10. ASSUME NEW n \in Udecs,
              \/ TypeFor("s", n, <<Do("step", n, "STEP")>>)
              \/ TypeFor(" ", n, <<Do("pause_resume", n, "")>>)
              \/ TypeFor("z", n, <<Do("stop", n, "")>>)
       PROVE  /\ todo' \in Seq(Steps) /\ switch_new_udec_id' \in Udecs
              /\ \E c \in Commands, running \in BOOLEAN : Type(c, todo', running)
  BY <1>8, <1>9, <1>10 DEF TypeFor
<1>11. ASSUME NEW n \in Udecs, NEW r \in Renders, NEW auto \in BOOLEAN,
              TypeFor(IF auto THEN "csa" ELSE "cs", n,
                      IF renders[r] = n THEN <<>> ELSE Switch(r, n, auto))
       PROVE  /\ todo' \in Seq(Steps) /\ switch_new_udec_id' \in Udecs
              /\ \E c \in Commands, running \in BOOLEAN : Type(c, todo', running)
  <2> DEFINE c == IF auto THEN "csa" ELSE "cs"
             steps == IF renders[r] = n THEN <<>> ELSE Switch(r, n, auto)
  <2>1. Type(c, steps, TRUE) /\ switch_new_udec_id' = n
    BY <1>11 DEF TypeFor
  <2>2. steps \in Seq(Steps)
    BY <1>6, StepLists
  <2>3. c \in Commands /\ todo' = steps
    BY <2>1 DEF Type
  <2>4. Type(c, todo', TRUE)
    BY <2>1, <2>3
  <2> HIDE DEF c, steps
  <2> QED BY <2>1, <2>2, <2>3, <2>4
<1>12. CASE /\ \/ Type("q", Quit, FALSE)
               \/ Type("crsd", Crsd, TRUE)
               \/ \E u \in Udecs \cup {NoUdec} :
                    /\ switch_new_udec_id \in {NoUdec, u}
                    /\ Type("crhd", Crhd(u), TRUE)
               \/ \E n \in 0 .. total_num : \E u \in [0 .. n - 1 -> Udecs] :
                    Type("cr", <<Do("config", n, u)>>, TRUE)
               \/ \E r \in Renders : Type("cw", WaitSwitched(r), TRUE)
            /\ UNCHANGED switch_new_udec_id
  BY <1>0, <1>2, <1>4, <1>5, <1>7, <1>9, <1>12 DEF TypeOK
<1> QED BY <1>10, <1>12, <1>11 DEF Command
-----------------------------------------------------------------------------
(* What a thread makes of its messages *)

\* Of thread i: it asked for the room it fills; the last message in its queue is
\* the last that main put there; before its first step, main has told it nothing
\* that it would not find in its queue; and it does what the last message said.
FeedRoom(i) == pc[i] = "feed" /\ udec[i] = "run" => bits[i] < FifoFrames
QueueEnds(i) == cmd_queue[i] # <<>> => cmd_queue[i][Len(cmd_queue[i])] = last_msg[i]
StartKnows(i) ==
  pc[i] = "init" /\ cmd_queue[i] = <<>> =>
    last_msg[i] = IF wait_cmd_begin(i) THEN "none" ELSE "RESUME"
Obeys(i) ==
  cmd_queue[i] = <<>> =>
    /\ last_msg[i] = "PAUSE" => pc[i] \notin {"drain", "request", "feed"}
    /\ last_msg[i] = "RESUME" => pc[i] \notin {"begin", "paused"}

ThreadInv(i) == FeedRoom(i) /\ QueueEnds(i) /\ StartKnows(i) /\ Obeys(i)

MudecInv == TypeOK /\ todo \in Seq(Steps) /\ \A i \in Udecs : ThreadInv(i)

LEMMA InitInv == Init => MudecInv
<1> SUFFICES ASSUME Init PROVE MudecInv
  OBVIOUS
<1>1. TypeOK
  <2>1. cmd_queue \in [Udecs -> Seq(Messages)]
    BY EmptySeq DEF Init
  <2>2. \A i \in Udecs : Len(cmd_queue[i]) <= MAX_MSGS
    <3>1. \A i \in Udecs : Len(cmd_queue[i]) = 0
      BY EmptySeq DEF Init
    <3> QED BY <3>1, Bounds
  <2>3. \A r \in DOMAIN screen : screen[r] \in Udecs
    <3>1. CASE first_show_hd_stream
      <4>1. hds > 0
        BY <3>1, Bounds
      <4>2. sds \in Udecs
        BY <4>1, Streams DEF total_num
      <4> QED BY <3>1, <4>2 DEF Init
    <3>2. CASE ~ first_show_hd_stream
      BY <3>2, Streams DEF Init
    <3> QED BY <3>1, <3>2
  <2>4. typed \in Seq(Commands)
    BY EmptySeq DEF Init
  <2>5. renders \in [Renders -> Udecs]
    BY Streams DEF Init
  <2>6. left \in [Udecs -> 0 .. FileFrames] /\ bits \in [Udecs -> 0 .. FifoFrames]
    BY Bounds DEF Init
  <2>7. switching \in [Renders -> Udecs \cup {NoUdec}]
    BY DEF Init
  <2> QED BY <2>1, <2>2, <2>3, <2>4, <2>5, <2>6, <2>7 DEF Init, TypeOK, Messages, ThreadPlaces, NoUdec
<1>2. todo \in Seq(Steps)
  BY EmptySeq DEF Init
<1>3. \A i \in Udecs : ThreadInv(i)
  BY DEF Init, ThreadInv, FeedRoom, QueueEnds, StartKnows, Obeys
<1> QED BY <1>1, <1>2, <1>3 DEF MudecInv

\* A step that leaves the threads and their queues alone.
LEMMA ThreadsKept ==
  ASSUME \A i \in Udecs : ThreadInv(i), UNCHANGED <<cmd_queue, last_msg, pc, bits>>,
         \A i \in Udecs : udec'[i] = "run" => udec[i] = "run"
  PROVE  \A i \in Udecs : ThreadInv(i)'
BY DEF ThreadInv, FeedRoom, QueueEnds, StartKnows, Obeys, wait_cmd_begin

LEMMA CommandKeeps == MudecInv /\ Command => MudecInv'
<1> SUFFICES ASSUME MudecInv, Command PROVE MudecInv'
  OBVIOUS
<1>1. /\ todo' \in Seq(Steps)
      /\ switch_new_udec_id' \in Udecs \cup {NoUdec}
  BY CommandTyped DEF MudecInv
<1>2. PICK c \in Commands, running \in BOOLEAN : Type(c, todo', running)
  BY CommandTyped DEF MudecInv
<1>3. typed' \in Seq(Commands) /\ mdec_running' \in BOOLEAN
  BY <1>2, AppendProperties DEF MudecInv, TypeOK, Type
<1>4. TypeOK'
  BY <1>1, <1>2, <1>3 DEF MudecInv, TypeOK, Type, queueVars, threadVars, dspVars
<1>5. \A i \in Udecs : ThreadInv(i)'
  BY <1>2, ThreadsKept DEF MudecInv, Type, queueVars, threadVars, dspVars
<1> QED BY <1>1, <1>4, <1>5 DEF MudecInv

\* The step that main takes next is one of Steps, and so are those after it.
LEMMA NextStepTyped ==
  ASSUME todo \in Seq(Steps), NEW op, NextStep(op)
  PROVE  Now \in Steps /\ Now.op = op /\ todo' \in Seq(Steps)
BY HeadTailProperties DEF NextStep, Now

LEMMA PutKeeps == MudecInv /\ PutMessage => MudecInv'
<1> SUFFICES ASSUME MudecInv, PutMessage PROVE MudecInv'
  OBVIOUS
<1>1. Now.i \in Udecs /\ Now.a \in Messages /\ todo' \in Seq(Steps)
  BY NextStepTyped, StepFields DEF MudecInv, PutMessage
<1> DEFINE n == Now.i
           msg == Now.a
           q == cmd_queue[n]
<1>2. q \in Seq(Messages) /\ Len(q) < MAX_MSGS
  BY <1>1 DEF MudecInv, TypeOK, PutMessage, Messages
<1>3. /\ Append(q, msg) \in Seq(Messages) /\ Append(q, msg) # <<>>
      /\ Len(Append(q, msg)) = Len(q) + 1 /\ Append(q, msg)[Len(q) + 1] = msg
  BY <1>1, <1>2, AppendProperties
<1>4. /\ cmd_queue' = [cmd_queue EXCEPT ![n] = Append(q, msg)]
      /\ last_msg' = [last_msg EXCEPT ![n] = msg]
      /\ UNCHANGED <<MainRest, renders, cur_display, trickplay_mode, pts_base,
                     threadVars, dspVars>>
  BY DEF PutMessage
<1> HIDE DEF n, msg, q
<1>5. Len(Append(q, msg)) <= MAX_MSGS
  <2>1. Len(q) \in Nat
    BY <1>2, LenProperties
  <2> QED BY <1>2, <1>3, <2>1, Bounds
<1>6. TypeOK'
  BY <1>1, <1>3, <1>4, <1>5 DEF MudecInv, TypeOK, MainRest, threadVars, dspVars, n, msg, Messages
<1>7. ASSUME NEW i \in Udecs PROVE ThreadInv(i)'
  <2>1. CASE i = n
    <3>1. cmd_queue'[i] = Append(q, msg) /\ last_msg'[i] = msg
      BY <1>4, <2>1 DEF MudecInv, TypeOK
    <3> QED BY <1>3, <1>4, <3>1
            DEF MudecInv, ThreadInv, FeedRoom, QueueEnds, StartKnows, Obeys, threadVars, dspVars
  <2>2. CASE i # n
    <3>1. cmd_queue'[i] = cmd_queue[i] /\ last_msg'[i] = last_msg[i]
      BY <1>4, <2>2 DEF MudecInv, TypeOK
    <3> QED BY <1>4, <3>1 DEF MudecInv, ThreadInv, FeedRoom, QueueEnds, StartKnows, Obeys,
                              wait_cmd_begin, threadVars, dspVars
  <2> QED BY <2>1, <2>2
<1> QED BY <1>1, <1>6, <1>7 DEF MudecInv

\* The other steps of a command leave the threads and the queues alone.
LEMMA MainKeeps ==
  MudecInv /\ (TrickplayCommand \/ StopCommand \/ AdjustPts \/ Display \/ WaitSwitch) => MudecInv'
<1> SUFFICES ASSUME MudecInv,
                    TrickplayCommand \/ StopCommand \/ AdjustPts \/ Display \/ WaitSwitch
             PROVE  MudecInv'
  OBVIOUS
<1>1. CASE TrickplayCommand
  <2>1. todo' \in Seq(Steps)
    BY <1>1, NextStepTyped DEF MudecInv, TrickplayCommand
  <2>2. trickplay_mode' \in [Udecs -> {"RESUME", "PAUSE", "STEP"}]
        /\ mode' \in [Udecs -> {"run", "hold", "step"}]
    <3>1. ASSUME NEW i, NEW m \in {"RESUME", "PAUSE", "STEP"}, Trickplay(i, m)
          PROVE  trickplay_mode' \in [Udecs -> {"RESUME", "PAUSE", "STEP"}]
                 /\ mode' \in [Udecs -> {"run", "hold", "step"}]
      BY <3>1 DEF MudecInv, TypeOK, Trickplay
    <3>2. CASE NextStep("trickplay")
      BY <1>1, <3>1, <3>2, NextStepTyped, StepFields DEF MudecInv, TypeOK, TrickplayCommand
    <3>3. CASE ~ NextStep("trickplay")
      BY <1>1, <3>1, <3>3 DEF TrickplayCommand
    <3> QED BY <3>2, <3>3
  <2>3. TypeOK'
    BY <1>1, <2>2 DEF MudecInv, TypeOK, TrickplayCommand, MainRest, queueVars, threadVars
  <2>4. \A i \in Udecs : ThreadInv(i)'
    BY <1>1, ThreadsKept DEF MudecInv, TrickplayCommand, queueVars, threadVars
  <2> QED BY <2>1, <2>3, <2>4 DEF MudecInv
<1>2. CASE StopCommand
  <2>1. todo' \in Seq(Steps) /\ Now.i \in Udecs
    BY <1>2, NextStepTyped, StepFields DEF MudecInv, StopCommand
  <2>2. TypeOK'
    BY <1>2, <2>1 DEF MudecInv, TypeOK, StopCommand, MainRest, queueVars, threadVars
  <2>3. \A i \in Udecs : ThreadInv(i)'
    BY <1>2, ThreadsKept DEF MudecInv, TypeOK, StopCommand, queueVars, threadVars
  <2> QED BY <2>1, <2>2, <2>3 DEF MudecInv
<1>3. CASE AdjustPts
  <2>1. todo' \in Seq(Steps)
    BY <1>3, NextStepTyped DEF MudecInv, AdjustPts
  <2>2. TypeOK'
    BY <1>3 DEF MudecInv, TypeOK, AdjustPts, MainRest, queueVars, threadVars, dspVars
  <2>3. \A i \in Udecs : ThreadInv(i)'
    BY <1>3, ThreadsKept DEF MudecInv, AdjustPts, queueVars, threadVars, dspVars
  <2> QED BY <2>1, <2>2, <2>3 DEF MudecInv
<1>4. CASE Display
  <2>1. todo' \in Seq(Steps)
    BY <1>4, NextStepTyped DEF MudecInv, Display
  <2>2. /\ renders' \in [Renders -> Udecs] /\ cur_display' \in {0, 1}
        /\ \A r \in DOMAIN screen' : screen'[r] \in Udecs
        /\ switching' \in [Renders -> Udecs \cup {NoUdec}]
    <3>1. CASE NextStep("switch")
      <4>1. /\ UNCHANGED <<renders, cur_display, screen>>
            /\ \/ switching' = [switching EXCEPT ![Now.i] = Now.a]
               \/ switching' = switching
        BY <1>4, <3>1 DEF Display, NextStep
      <4>2. Now.a \in Udecs
        BY <3>1, NextStepTyped, StepFields DEF MudecInv
      <4> QED BY <4>1, <4>2 DEF MudecInv, TypeOK
    <3>2. CASE NextStep("render")
      BY <1>4, <3>2, NextStepTyped, StepFields DEF MudecInv, TypeOK, Display, NextStep
    <3>3. CASE NextStep("show") /\ Now.a = "sd"
      <4>1. /\ Render([r \in Sd |-> renders[r]]) /\ cur_display' = 0
            /\ UNCHANGED <<renders, switching>>
        BY <1>4, <3>3 DEF Display, NextStep
      <4>2. \A r \in Sd : renders[r] \in Udecs
        BY Streams DEF MudecInv, TypeOK
      <4> QED BY <4>1, <4>2 DEF MudecInv, TypeOK, Render
    <3>4. CASE NextStep("show") /\ Now.a = "hd"
      <4>1. \A r \in 0 .. hds - 1 : r + sds \in Udecs
        BY Streams DEF total_num
      <4>2. /\ renders' = [r \in Renders |-> IF r \in Hd THEN r ELSE renders[r]]
            /\ Render([r \in 0 .. hds - 1 |-> r + sds]) /\ cur_display' = 1
            /\ switching' = switching
        BY <1>4, <3>4 DEF Display, NextStep
      <4>3. renders \in [Renders -> Udecs] /\ Hd \subseteq Udecs
        BY Streams DEF MudecInv, TypeOK
      <4>4. \A r \in DOMAIN screen' : screen'[r] \in Udecs
        BY <4>1, <4>2 DEF MudecInv, TypeOK, Render
      <4> QED BY <4>2, <4>3, <4>4 DEF MudecInv, TypeOK
    <3>5. CASE NextStep("config")
      <4>1. /\ renders' = [r \in Renders |-> IF r < Now.i THEN Now.a[r] ELSE renders[r]]
            /\ Render(Now.a) /\ UNCHANGED <<cur_display, switching>>
        BY <1>4, <3>5 DEF Display, NextStep
      <4>2. Now.i \in 0 .. total_num /\ Now.a \in [0 .. Now.i - 1 -> Udecs]
        BY <3>5, NextStepTyped, StepFields DEF MudecInv
      <4>3. \A r \in Renders : r < Now.i => r \in 0 .. Now.i - 1
        BY <4>2, Streams
      <4>4. \A r \in DOMAIN screen' : screen'[r] \in Udecs
        BY <4>1, <4>2 DEF MudecInv, TypeOK, Render
      <4> QED BY <4>1, <4>2, <4>3, <4>4 DEF MudecInv, TypeOK
    <3>6. \/ NextStep("switch") \/ NextStep("render") \/ NextStep("config")
          \/ NextStep("show") /\ Now.a = "sd"
          \/ NextStep("show") /\ Now.a = "hd"
      BY <1>4 DEF Display
    <3> QED BY <3>1, <3>2, <3>3, <3>4, <3>5, <3>6
  <2>3. TypeOK'
    BY <1>4, <2>2 DEF MudecInv, TypeOK, Display, MainRest, queueVars, threadVars
  <2>4. \A i \in Udecs : ThreadInv(i)'
    BY <1>4, ThreadsKept DEF MudecInv, Display, queueVars, threadVars
  <2> QED BY <2>1, <2>3, <2>4 DEF MudecInv
<1>5. CASE WaitSwitch
  <2>1. todo' \in Seq(Steps)
    BY <1>5, NextStepTyped DEF MudecInv, WaitSwitch
  <2>2. TypeOK'
    BY <1>5 DEF MudecInv, TypeOK, WaitSwitch, MainRest, queueVars, threadVars, dspVars
  <2>3. \A i \in Udecs : ThreadInv(i)'
    BY <1>5, ThreadsKept DEF MudecInv, WaitSwitch, queueVars, threadVars, dspVars
  <2> QED BY <2>1, <2>2, <2>3 DEF MudecInv
<1> QED BY <1>1, <1>2, <1>3, <1>4, <1>5

LEMMA ExitKeeps == MudecInv /\ (Exit \/ SigStop) => MudecInv'
<1> SUFFICES ASSUME MudecInv, Exit \/ SigStop PROVE MudecInv'
  OBVIOUS
<1>1. todo' \in Seq(Steps)
  BY EachSteps DEF MudecInv, Exit, SigStop, Messages
<1>2. TypeOK'
  BY DEF MudecInv, TypeOK, Exit, SigStop, queueVars, threadVars, dspVars
<1>3. \A i \in Udecs : ThreadInv(i)'
  BY ThreadsKept DEF MudecInv, Exit, SigStop, queueVars, threadVars, dspVars
<1> QED BY <1>1, <1>2, <1>3 DEF MudecInv

-----------------------------------------------------------------------------
(* The steps of the threads *)

\* What a step of thread n that leaves the queues alone owes the invariant.
LEMMA ThreadKeeps ==
  ASSUME MudecInv, NEW n \in Udecs,
         UNCHANGED <<mainVars, queueVars, screen, switching>>,
         mode' \in [Udecs -> {"run", "hold", "step"}],
         \E p \in ThreadPlaces : pc' = [pc EXCEPT ![n] = p],
         \E l \in 0 .. FileFrames : left' = [left EXCEPT ![n] = l],
         \E u \in {"none", "run", "stopped", "released"} : udec' = [udec EXCEPT ![n] = u],
         \E b \in 0 .. FifoFrames : bits' = [bits EXCEPT ![n] = b],
         ThreadInv(n)'
  PROVE  MudecInv'
<1>1. TypeOK'
  BY DEF MudecInv, TypeOK, mainVars, queueVars
<1>2. ASSUME NEW i \in Udecs, i # n PROVE ThreadInv(i)'
  <2>1. pc'[i] = pc[i] /\ udec'[i] = udec[i] /\ bits'[i] = bits[i]
    BY <1>2 DEF MudecInv, TypeOK
  <2> QED BY <2>1 DEF MudecInv, ThreadInv, FeedRoom, QueueEnds, StartKnows, Obeys,
                      wait_cmd_begin, queueVars
<1> QED BY <1>1, <1>2 DEF MudecInv, mainVars

LEMMA StartKeeps == ASSUME MudecInv, NEW i \in Udecs, Start(i) PROVE MudecInv'
<1>1. left' = [left EXCEPT ![i] = left[i]] /\ left[i] \in 0 .. FileFrames
  BY DEF MudecInv, TypeOK, Start
<1>2. bits' = [bits EXCEPT ![i] = bits[i]] /\ bits[i] \in 0 .. FifoFrames
  BY DEF MudecInv, TypeOK, Start
<1>3. \E p \in {"begin", "drain", "gone"} :
        /\ pc' = [pc EXCEPT ![i] = p]
        /\ p = "begin" => wait_cmd_begin(i)
        /\ p = "drain" => ~ wait_cmd_begin(i)
  BY DEF Start
<1>4. \E u \in {"none", "run", "stopped", "released"} : udec' = [udec EXCEPT ![i] = u]
  <2>1. udec = [udec EXCEPT ![i] = udec[i]] /\ udec[i] \in {"none", "run", "stopped", "released"}
    BY DEF MudecInv, TypeOK
  <2> QED BY <2>1 DEF Start
<1>5. ThreadInv(i)'
  BY <1>3 DEF MudecInv, TypeOK, Start, ThreadInv, FeedRoom, QueueEnds, StartKnows, Obeys, queueVars
<1> QED BY <1>1, <1>2, <1>3, <1>4, <1>5, ThreadKeeps DEF MudecInv, TypeOK, Start, ThreadPlaces

LEMMA TakeCommandKeeps == ASSUME MudecInv, NEW n \in Udecs, TakeCommand(n) PROVE MudecInv'
<1> DEFINE q == cmd_queue[n]
           msg == Head(q)
           rest == Tail(q)
           p == After(pc[n], msg)
<1>1. q \in Seq(Messages) /\ q # <<>> /\ Len(q) <= MAX_MSGS
  BY DEF MudecInv, TypeOK, TakeCommand, Messages
<1>2. /\ rest \in Seq(Messages) /\ msg \in Messages /\ Len(rest) = Len(q) - 1
      /\ \A k \in 1 .. Len(rest) : rest[k] = q[k + 1]
  BY <1>1, HeadTailProperties
<1>3. Len(q) \in Nat \ {0} /\ msg = q[1]
  BY <1>1, EmptySeq
<1>4. p \in {"stop", "drain", "paused", "begin", "exit_wait"}
  BY <1>2 DEF TakeCommand, ReadsQueue, After, Messages
<1>5. /\ cmd_queue' = [cmd_queue EXCEPT ![n] = rest] /\ pc' = [pc EXCEPT ![n] = p]
      /\ UNCHANGED <<mainVars, last_msg, pts_base, pts_read, dspVars>>
  BY DEF TakeCommand
<1>6. left' \in [Udecs -> 0 .. FileFrames]
  BY Bounds DEF MudecInv, TypeOK, TakeCommand
<1> HIDE DEF q, msg, rest, p
<1>7. Len(rest) <= MAX_MSGS
  BY <1>1, <1>2, <1>3, Bounds
<1>8. TypeOK'
  BY <1>2, <1>4, <1>5, <1>6, <1>7
     DEF MudecInv, TypeOK, mainVars, dspVars, ThreadPlaces, Messages
<1>9. ASSUME NEW i \in Udecs, i # n PROVE ThreadInv(i)'
  <2>1. pc'[i] = pc[i] /\ cmd_queue'[i] = cmd_queue[i]
    BY <1>5, <1>9 DEF MudecInv, TypeOK
  <2> QED BY <1>5, <2>1 DEF MudecInv, ThreadInv, FeedRoom, QueueEnds, StartKnows, Obeys,
                            wait_cmd_begin, dspVars
<1>10. ThreadInv(n)'
  <2>1. pc'[n] = p /\ cmd_queue'[n] = rest /\ last_msg'[n] = last_msg[n]
    BY <1>5 DEF MudecInv, TypeOK
  <2>2. q[Len(q)] = last_msg[n]
    BY <1>1 DEF MudecInv, ThreadInv, QueueEnds, q
  <2>3. FeedRoom(n)' /\ StartKnows(n)'
    BY <1>4, <2>1 DEF FeedRoom, StartKnows
  <2>4. QueueEnds(n)'
    <3>1. ASSUME rest # <<>> PROVE rest[Len(rest)] = q[Len(q)]
      <4>1. Len(rest) \in Nat \ {0}
        BY <1>2, <3>1, EmptySeq
      <4> QED BY <1>2, <1>3, <4>1
    <3> QED BY <2>1, <2>2, <3>1 DEF QueueEnds
  <2>5. Len(rest) = 0 => Len(q) = 1
    BY <1>2, <1>3
  <2>6. Obeys(n)'
    <3> SUFFICES ASSUME rest = <<>> PROVE Obeys(n)'
      BY <2>1 DEF Obeys
    <3>1. Len(q) = 1
      BY <2>5, EmptySeq
    <3>2. msg = last_msg[n]
      BY <1>3, <2>2, <3>1
    <3>3. pc[n] \in ReadsQueue
      BY DEF TakeCommand
    <3> QED BY <2>1, <3>2, <3>3 DEF Obeys, p, After, ReadsQueue
  <2> QED BY <2>3, <2>4, <2>6 DEF ThreadInv
<1> QED BY <1>5, <1>8, <1>9, <1>10 DEF MudecInv, mainVars

LEMMA NoCommandKeeps == ASSUME MudecInv, NEW i \in Udecs, NoCommand(i) PROVE MudecInv'
<1>1. \E l \in 0 .. FileFrames : left' = [left EXCEPT ![i] = l]
  <2>1. left = [left EXCEPT ![i] = left[i]] /\ left[i] \in 0 .. FileFrames
    BY DEF MudecInv, TypeOK
  <2> QED BY <2>1, Bounds DEF NoCommand
<1>2. bits' = [bits EXCEPT ![i] = bits[i]] /\ bits[i] \in 0 .. FifoFrames
  BY DEF MudecInv, TypeOK, NoCommand, dspVars
<1>3. \E p \in {"drain", "request"} : pc' = [pc EXCEPT ![i] = p]
  <2>1. pc = [pc EXCEPT ![i] = "drain"]
    BY DEF MudecInv, TypeOK, NoCommand
  <2> QED BY <2>1 DEF NoCommand
<1>4. udec' = [udec EXCEPT ![i] = udec[i]] /\ udec[i] \in {"none", "run", "stopped", "released"}
  BY DEF MudecInv, TypeOK, NoCommand, dspVars
<1>5. ThreadInv(i)'
  BY <1>3 DEF MudecInv, TypeOK, NoCommand, ThreadInv, FeedRoom, QueueEnds, StartKnows, Obeys, queueVars
<1> QED BY <1>1, <1>2, <1>3, <1>4, <1>5, ThreadKeeps
   DEF MudecInv, TypeOK, NoCommand, ThreadPlaces, dspVars

LEMMA RequestKeeps == ASSUME MudecInv, NEW i \in Udecs, RequestBitsFifo(i) PROVE MudecInv'
<1>1. left' = [left EXCEPT ![i] = left[i]] /\ left[i] \in 0 .. FileFrames
  BY DEF MudecInv, TypeOK, RequestBitsFifo
<1>2. bits' = [bits EXCEPT ![i] = bits[i]] /\ bits[i] \in 0 .. FifoFrames
  BY DEF MudecInv, TypeOK, RequestBitsFifo, dspVars
<1>3. udec' = [udec EXCEPT ![i] = udec[i]] /\ udec[i] \in {"none", "run", "stopped", "released"}
  BY DEF MudecInv, TypeOK, RequestBitsFifo, dspVars
<1>4. ThreadInv(i)'
  BY DEF MudecInv, TypeOK, RequestBitsFifo, FifoHasRoom, ThreadInv, FeedRoom, QueueEnds,
         StartKnows, Obeys, queueVars, dspVars
<1> QED BY <1>1, <1>2, <1>3, <1>4, ThreadKeeps
   DEF MudecInv, TypeOK, RequestBitsFifo, ThreadPlaces, dspVars

LEMMA DecodeKeeps == ASSUME MudecInv, NEW i \in Udecs, Decode(i) PROVE MudecInv'
<1>1. left[i] \in 0 .. FileFrames /\ bits[i] \in 0 .. FifoFrames
      /\ left = [left EXCEPT ![i] = left[i]] /\ bits = [bits EXCEPT ![i] = bits[i]]
  BY DEF MudecInv, TypeOK
<1>2. \E l \in 0 .. FileFrames : left' = [left EXCEPT ![i] = l]
  <2>1. left[i] > 0 => left[i] - 1 \in 0 .. FileFrames
    BY <1>1, Bounds
  <2> QED BY <1>1, <2>1 DEF Decode
<1>3. \E b \in 0 .. FifoFrames : bits' = [bits EXCEPT ![i] = b]
  <2>1. udec[i] = "run" => bits[i] + 1 \in 0 .. FifoFrames
    BY <1>1, Bounds DEF MudecInv, ThreadInv, FeedRoom, Decode
  <2> QED BY <1>1, <2>1 DEF Decode
<1>4. \E p \in {"drain", "exit_wait", "stop"} :
        pc' = [pc EXCEPT ![i] = p]
  BY DEF Decode
<1>5. udec' = [udec EXCEPT ![i] = udec[i]] /\ udec[i] \in {"none", "run", "stopped", "released"}
  BY DEF MudecInv, TypeOK, Decode
<1>6. ThreadInv(i)'
  BY <1>4 DEF MudecInv, TypeOK, Decode, ThreadInv, FeedRoom, QueueEnds, StartKnows, Obeys, queueVars
<1> QED BY <1>2, <1>3, <1>4, <1>5, <1>6, ThreadKeeps
   DEF MudecInv, TypeOK, Decode, ThreadPlaces

LEMMA StopKeeps == ASSUME MudecInv, NEW i \in Udecs, StopAndRelease(i) PROVE MudecInv'
<1>1. left' = [left EXCEPT ![i] = left[i]] /\ left[i] \in 0 .. FileFrames
  BY DEF MudecInv, TypeOK, StopAndRelease
<1>2. bits' = [bits EXCEPT ![i] = 0] /\ 0 \in 0 .. FifoFrames
  BY Bounds DEF StopAndRelease
<1>3. ThreadInv(i)'
  BY DEF MudecInv, TypeOK, StopAndRelease, ThreadInv, FeedRoom, QueueEnds, StartKnows, Obeys, queueVars
<1>4. mode' \in [Udecs -> {"run", "hold", "step"}]
  BY DEF MudecInv, TypeOK, StopAndRelease
<1> QED BY <1>1, <1>2, <1>3, <1>4, ThreadKeeps DEF StopAndRelease, ThreadPlaces

LEMMA ConsumeKeeps == ASSUME MudecInv, NEW n \in Udecs, Consume(n) PROVE MudecInv'
<1>1. bits' \in [Udecs -> 0 .. FifoFrames] /\ \A i \in Udecs : bits'[i] <= bits[i]
  BY Bounds DEF MudecInv, TypeOK, Consume
<1>2. mode' \in [Udecs -> {"run", "hold", "step"}]
  BY DEF MudecInv, TypeOK, Consume
<1>3. TypeOK'
  BY <1>1, <1>2 DEF MudecInv, TypeOK, Consume, mainVars, queueVars, threadVars
<1>4. \A i \in Udecs : bits[i] \in Int /\ bits'[i] \in Int
  BY <1>1 DEF MudecInv, TypeOK
<1>5. ASSUME NEW i \in Udecs PROVE ThreadInv(i)'
  BY <1>1, <1>4, Bounds DEF MudecInv, Consume, ThreadInv, FeedRoom, QueueEnds, StartKnows, Obeys,
     wait_cmd_begin, queueVars, threadVars
<1> QED BY <1>3, <1>5 DEF MudecInv, Consume, mainVars

LEMMA SwitchStreamKeeps == ASSUME MudecInv, NEW r \in Renders, SwitchStream(r) PROVE MudecInv'
<1>1. switching[r] \in Udecs
  BY DEF MudecInv, TypeOK, SwitchStream
<1>2. \A s \in DOMAIN screen' : screen'[s] \in Udecs
  BY <1>1 DEF MudecInv, TypeOK, SwitchStream
<1>3. switching' \in [Renders -> Udecs \cup {NoUdec}]
  BY DEF MudecInv, TypeOK, SwitchStream
<1>4. TypeOK'
  BY <1>2, <1>3 DEF MudecInv, TypeOK, SwitchStream, mainVars, queueVars, threadVars
<1>5. \A i \in Udecs : ThreadInv(i)'
  BY ThreadsKept DEF MudecInv, SwitchStream, queueVars, threadVars
<1> QED BY <1>4, <1>5 DEF MudecInv, SwitchStream, mainVars

LEMMA NextKeeps == MudecInv /\ [Next]_vars => MudecInv'
<1> SUFFICES ASSUME MudecInv, [Next]_vars PROVE MudecInv'
  OBVIOUS
<1>1. CASE Command \/ MainStep \/ WaitSwitch \/ SigStop
  BY <1>1, CommandKeeps, PutKeeps, MainKeeps, ExitKeeps DEF MainStep
<1>2. ASSUME NEW i \in Udecs, ThreadStep(i) \/ Consume(i) PROVE MudecInv'
  BY <1>2, StartKeeps, TakeCommandKeeps, NoCommandKeeps, RequestKeeps, DecodeKeeps, StopKeeps,
     ConsumeKeeps DEF ThreadStep
<1>3. ASSUME NEW r \in Renders, SwitchStream(r) PROVE MudecInv'
  BY <1>3, SwitchStreamKeeps
<1>4. CASE UNCHANGED vars
  <2>1. TypeOK' /\ todo' = todo
    BY <1>4 DEF MudecInv, TypeOK, vars, mainVars, queueVars, threadVars, dspVars
  <2>2. \A i \in Udecs : ThreadInv(i)'
    BY <1>4, ThreadsKept DEF MudecInv, vars, queueVars, threadVars, dspVars
  <2> QED BY <2>1, <2>2 DEF MudecInv
<1> QED BY <1>1, <1>2, <1>3, <1>4 DEF Next

\* mudec.c: the invariant holds of every behaviour of its threads and of main.
THEOREM AlwaysMudecInv == Spec => []MudecInv
<1>1. MudecInv /\ [Next]_vars => MudecInv'
  BY NextKeeps
<1> QED BY <1>1, InitInv, PTL DEF Spec

\* However many streams and messages: no queue and no bits fifo holds more than it
\* can, and main addresses only threads and renders that exist.
THEOREM Types == Spec => []TypeOK
<1>1. MudecInv => TypeOK
  BY DEF MudecInv
<1> QED BY <1>1, AlwaysMudecInv, PTL

\* A thread that has read all its messages does what the last one said, whatever it
\* was doing when it arrived and whatever the operator typed: process_cmd loses none.
THEOREM CommandObeyed == Spec => []LastCommandObeyed
<1>1. MudecInv => LastCommandObeyed
  BY DEF MudecInv, ThreadInv, Obeys, LastCommandObeyed
<1> QED BY <1>1, AlwaysMudecInv, PTL

-----------------------------------------------------------------------------
(* Which streams are fed *)

\* The steps that are left of the command, and the streams that will be on the
\* screen once main has made them.
StepsLeft == Range(todo)
Target ==
  IF Do("show", 0, "sd") \in StepsLeft THEN Sd
  ELSE IF Do("show", 0, "hd") \in StepsLeft THEN Hd ELSE Shown

\* These steps show and feed the same streams: they tell a stream to resume just
\* when it will be on the screen, and one that they tell nothing was told before.
FedPlan ==
  /\ Do("show", 0, "sd") \in StepsLeft => Do("show", 0, "hd") \notin StepsLeft
  /\ \A s \in StepsLeft : s.op = "put" => (s.a = "RESUME" <=> s.i \in Target)
  /\ \A i \in Udecs :
       (\A s \in StepsLeft : s.op = "put" => s.i # i) => (last_msg[i] = "RESUME" <=> i \in Target)

\* No command switches or configures a render, and 'crhd' has a stream to show.
PlainOps == {"put", "trickplay", "step", "pause_resume", "stop", "show", "wait_switch"}
PlainSteps ==
  /\ renders = [r \in Renders |-> r]
  /\ switching = [r \in Renders |-> NoUdec]
  /\ \A s \in StepsLeft : s.op \in PlainOps
  /\ Do("show", 0, "hd") \in StepsLeft => hds > 0

FedInv ==
  main = "loop" /\ mdec_running /\ ~ test_feed_background /\ DisplayKnown =>
    PlainSteps /\ (FedAsShown => FedPlan)

LEMMA RangeFour ==
  ASSUME NEW S, NEW s \in Seq(S), NEW t \in Seq(S), NEW u \in Seq(S), NEW v \in Seq(S)
  PROVE  Range(s \o t \o u \o v) = Range(s) \cup Range(t) \cup Range(u) \cup Range(v)
<1>1. Range(s \o t) = Range(s) \cup Range(t) /\ s \o t \in Seq(S)
  BY RangeConcatenation, ConcatProperties
<1> DEFINE st == s \o t
<1>2. Range(st \o u) = Range(st) \cup Range(u) /\ st \o u \in Seq(S)
  <2> HIDE DEF st
  <2>1. st \in Seq(S)
    BY <1>1 DEF st
  <2> QED BY <2>1, RangeConcatenation, ConcatProperties
<1> DEFINE stu == st \o u
<1>3. Range(stu \o v) = Range(stu) \cup Range(v)
  <2> HIDE DEF stu
  <2>1. stu \in Seq(S)
    BY <1>2 DEF stu
  <2> QED BY <2>1, RangeConcatenation
<1> QED BY <1>1, <1>2, <1>3

\* What crsd and crhd are made of.
CrsdSteps ==
  EachOf(Sd, "put", "RESUME") \cup EachOf(Sd, "trickplay", "RESUME")
    \cup {Do("show", 0, "sd")} \cup EachOf(Hd, "put", "PAUSE")
CrhdSteps(u) ==
  EachOf(Hd, "put", "RESUME") \cup {Do("trickplay", u, "RESUME")}
    \cup {Do("show", 0, "hd")} \cup EachOf(Sd, "put", "PAUSE")

LEMMA DisplaySteps ==
  ASSUME ~ test_feed_background
  PROVE  /\ Range(Crsd) = CrsdSteps
         /\ \A u \in Udecs \cup {NoUdec} : Range(Crhd(u)) = CrhdSteps(u)
<1> DEFINE R(S) == Each(S, "put", "RESUME")
           P(S) == Each(S, "put", "PAUSE")
           T == Each(Sd, "trickplay", "RESUME")
           show(d) == <<Do("show", 0, d)>>
<1>1. /\ R(Sd) \in Seq(Steps) /\ R(Hd) \in Seq(Steps) /\ T \in Seq(Steps)
      /\ P(Sd) \in Seq(Steps) /\ P(Hd) \in Seq(Steps)
  BY EachSteps DEF Messages
<1>2. ASSUME NEW op, NEW a
      PROVE  Range(Each(Sd, op, a)) = EachOf(Sd, op, a) /\ Range(Each(Hd, op, a)) = EachOf(Hd, op, a)
  <2>1. 0 \in Int /\ sds \in Int /\ sds - 1 \in Int /\ total_num - 1 \in Int
        /\ Sd = 0 .. sds - 1 /\ Hd = sds .. total_num - 1
    BY Streams
  <2> QED BY <2>1, EachStream
<1>3. ASSUME NEW s \in Steps PROVE <<s>> \in Seq(Steps) /\ Range(<<s>>) = {s}
  BY DEF Range
<1>4. ASSUME NEW d \in {"sd", "hd"}
      PROVE  show(d) \in Seq(Steps) /\ Range(show(d)) = {Do("show", 0, d)}
  BY <1>3 DEF Do, Steps
<1>5. Range(Crsd) = CrsdSteps
  <2>1. Crsd = R(Sd) \o T \o show("sd") \o P(Hd)
    BY DEF Crsd, ResumeFeeding, PauseFeeding, Feeding
  <2>2. show("sd") \in Seq(Steps)
    BY <1>4
  <2>3. Range(R(Sd)) = EachOf(Sd, "put", "RESUME") /\ Range(P(Hd)) = EachOf(Hd, "put", "PAUSE")
        /\ Range(T) = EachOf(Sd, "trickplay", "RESUME")
    BY <1>2
  <2> HIDE DEF R, P, T, show
  <2>4. Range(R(Sd) \o T \o show("sd") \o P(Hd))
          = Range(R(Sd)) \cup Range(T) \cup Range(show("sd")) \cup Range(P(Hd))
    BY <1>1, <2>2, RangeFour
  <2> QED BY <1>4, <2>1, <2>3, <2>4 DEF CrsdSteps
<1>6. ASSUME NEW u \in Udecs \cup {NoUdec} PROVE Range(Crhd(u)) = CrhdSteps(u)
  <2> DEFINE t == <<Do("trickplay", u, "RESUME")>>
  <2>1. Do("trickplay", u, "RESUME") \in Steps
    BY DEF Do, Steps
  <2>2. t \in Seq(Steps) /\ Range(t) = {Do("trickplay", u, "RESUME")}
    BY <1>3, <2>1
  <2>3. Crhd(u) = R(Hd) \o t \o show("hd") \o P(Sd)
    BY DEF Crhd, ResumeFeeding, PauseFeeding, Feeding
  <2>4. Range(R(Hd)) = EachOf(Hd, "put", "RESUME") /\ Range(P(Sd)) = EachOf(Sd, "put", "PAUSE")
    BY <1>2
  <2>5. show("hd") \in Seq(Steps)
    BY <1>4
  <2> HIDE DEF R, P, T, show, t
  <2>6. Range(R(Hd) \o t \o show("hd") \o P(Sd))
          = Range(R(Hd)) \cup Range(t) \cup Range(show("hd")) \cup Range(P(Sd))
    BY <1>1, <2>2, <2>5, RangeFour
  <2> QED BY <1>4, <2>2, <2>3, <2>4, <2>6 DEF CrhdSteps
<1> QED BY <1>5, <1>6

LEMMA RangeAppend ==
  ASSUME NEW S, NEW s \in Seq(S), NEW c \in S
  PROVE  Range(Append(s, c)) = Range(s) \cup {c}
<1>1. Range(<<c>>) = {c} /\ <<c>> \in Seq(S)
  BY DEF Range
<1> DEFINE t == <<c>>
<1>2. Append(s, c) = s \o t
  BY AppendIsConcat
<1> HIDE DEF t
<1>3. Range(s \o t) = Range(s) \cup Range(t)
  BY <1>1, RangeConcatenation DEF t
<1> QED BY <1>1, <1>2, <1>3 DEF t

\* The program starts feeding what it shows, unless that is the first of several
\* full-screen streams.
LEMMA InitFed == Init => FedInv
<1> SUFFICES ASSUME Init, ~ test_feed_background PROVE PlainSteps /\ (FedAsShown => FedPlan)
  BY DEF FedInv
<1>1. StepsLeft = {} /\ Range(typed) = {}
  BY DEF Init, StepsLeft, Range
<1>2. PlainSteps
  BY <1>1 DEF Init, PlainSteps
<1> SUFFICES ASSUME FedAsShown PROVE FedPlan
  BY <1>2
<1>3. Target = Shown
  BY <1>1 DEF Target
<1>4. first_show_hd_stream => hds <= 1
  BY <1>1, Streams DEF FedAsShown
<1>5. \A i \in Udecs : last_msg[i] = "RESUME" <=> i \in Shown
  <2>1. \A i \in Udecs : last_msg[i] = "RESUME" <=> ~ (i \in Sd <=> first_show_hd_stream)
    BY DEF Init, wait_cmd_begin
  <2>2. CASE first_show_hd_stream
    <3>1. hds = 1
      BY <1>4, <2>2, Bounds, Streams
    <3>2. Hd = {sds}
      BY <3>1, Streams DEF total_num
    <3>3. Shown = {sds}
      BY <2>2 DEF Init, Shown
    <3> QED BY <2>1, <2>2, <3>2, <3>3, Streams
  <2>3. CASE ~ first_show_hd_stream
    <3>1. Shown = Sd
      BY <2>3 DEF Init, Shown
    <3> QED BY <2>1, <2>3, <3>1, Streams
  <2> QED BY <2>2, <2>3
<1> QED BY <1>1, <1>3, <1>5 DEF FedPlan

\* A step that changes neither what is shown nor what the streams were told, and
\* takes away a step of no display command.
LEMMA FedKept ==
  ASSUME FedInv, UNCHANGED <<renders, screen, switching, last_msg, typed>>,
         main' = "loop" => main = "loop", mdec_running' => mdec_running,
         \/ todo' = todo
         \/ \E s : s.op \notin {"put", "show"} /\ StepsLeft = {s} \cup StepsLeft'
         \/ main' # "loop"
  PROVE  FedInv'
<1> SUFFICES ASSUME main' = "loop", mdec_running', ~ test_feed_background, DisplayKnown
             PROVE  PlainSteps' /\ (FedAsShown => FedPlan')
  BY DEF FedInv, DisplayKnown, FedAsShown
<1>1. PlainSteps /\ (FedAsShown => FedPlan)
  BY DEF FedInv
<1>2. Shown' = Shown
  BY DEF Shown
<1>3. CASE todo' = todo
  BY <1>1, <1>2, <1>3 DEF PlainSteps, FedPlan, Target, StepsLeft
<1>4. CASE \E s : s.op \notin {"put", "show"} /\ StepsLeft = {s} \cup StepsLeft'
  <2>1. PICK s : s.op \notin {"put", "show"} /\ StepsLeft = {s} \cup StepsLeft'
    BY <1>4
  <2>2. \A d : Do("show", 0, d) \in StepsLeft <=> Do("show", 0, d) \in StepsLeft'
    BY <2>1 DEF Do
  <2>3. Target' = Target
    BY <1>2, <2>2 DEF Target
  <2>4. PlainSteps'
    BY <1>1, <2>1, <2>2 DEF PlainSteps
  <2>5. FedPlan => FedPlan'
    BY <2>1, <2>2, <2>3 DEF FedPlan
  <2> QED BY <1>1, <2>4, <2>5
<1> QED BY <1>3, <1>4

LEMMA PutFed == ASSUME MudecInv, FedInv, PutMessage PROVE FedInv'
<1>1. /\ Now.i \in Udecs /\ Now.a \in Messages /\ Now.op = "put"
      /\ StepsLeft = {Now} \cup StepsLeft'
  BY NextStepTyped, StepFields, RangeTail DEF MudecInv, PutMessage, NextStep, Now, StepsLeft
<1>2. /\ last_msg' = [last_msg EXCEPT ![Now.i] = Now.a]
      /\ UNCHANGED <<renders, screen, switching, typed, main, mdec_running>>
  BY DEF PutMessage, MainRest, dspVars
<1> SUFFICES ASSUME PlainSteps PROVE PlainSteps' /\ (FedPlan => FedPlan')
  BY <1>2 DEF FedInv, DisplayKnown, FedAsShown
<1>3. \A d : Do("show", 0, d) \in StepsLeft <=> Do("show", 0, d) \in StepsLeft'
  BY <1>1 DEF Do
<1>4. Target' = Target
  BY <1>2, <1>3 DEF Target, Shown
<1>6. PlainSteps'
  BY <1>1, <1>2, <1>3 DEF PlainSteps
<1> SUFFICES ASSUME FedPlan PROVE FedPlan'
  BY <1>6
<1>5. ASSUME NEW i \in Udecs, \A s \in StepsLeft' : s.op = "put" => s.i # i
      PROVE  last_msg'[i] = "RESUME" <=> i \in Target
  <2>1. CASE i = Now.i
    <3>1. last_msg'[i] = Now.a
      BY <1>2, <2>1 DEF MudecInv, TypeOK
    <3> QED BY <1>1, <2>1, <3>1 DEF FedPlan
  <2>2. CASE i # Now.i
    <3>1. last_msg'[i] = last_msg[i]
      BY <1>2, <2>2 DEF MudecInv, TypeOK
    <3> QED BY <1>1, <1>5, <2>2, <3>1 DEF FedPlan
  <2> QED BY <2>1, <2>2
<1> QED BY <1>1, <1>3, <1>4, <1>5 DEF FedPlan

LEMMA DisplayFed == ASSUME MudecInv, FedInv, Display PROVE FedInv'
<1>1. UNCHANGED <<typed, main, mdec_running, last_msg>>
  BY DEF Display, MainRest, queueVars
<1> SUFFICES ASSUME PlainSteps PROVE PlainSteps' /\ (FedPlan => FedPlan')
  BY <1>1 DEF FedInv, DisplayKnown, FedAsShown
<1>2. StepsLeft = {Now} \cup StepsLeft' /\ Now \in Steps
  BY NextStepTyped, RangeTail DEF MudecInv, Display, NextStep, Now, StepsLeft
<1>3. Now.op = "show" /\ Now.a \in {"sd", "hd"}
  BY <1>2 DEF Display, NextStep, PlainSteps, PlainOps
<1>4. Now = Do("show", 0, Now.a)
  BY <1>2, <1>3, StepFields
<1>5. CASE Now.a = "sd"
  <2>1. Render([r \in Sd |-> renders[r]]) /\ renders' = renders /\ switching' = switching
    BY <1>3, <1>5 DEF Display, NextStep
  <2>2. screen' = [r \in Sd |-> renders[r]]
    BY <2>1, Streams DEF Render
  <2>3. Shown' = Sd
    <3>1. \A r \in Sd : screen'[r] = r
      BY <2>2, Streams DEF PlainSteps
    <3>2. DOMAIN screen' = Sd
      BY <2>2
    <3> QED BY <3>1, <3>2 DEF Shown
  <2>4. PlainSteps'
    BY <1>2, <2>1 DEF PlainSteps
  <2>5. ASSUME FedPlan PROVE FedPlan'
    <3>1. Do("show", 0, "sd") \in StepsLeft /\ Do("show", 0, "hd") \notin StepsLeft
      BY <1>2, <1>4, <1>5, <2>5 DEF FedPlan
    <3>2. Target' = Target
      BY <1>2, <2>3, <3>1 DEF Target
    <3> QED BY <1>1, <1>2, <1>3, <2>5, <3>1, <3>2 DEF FedPlan
  <2> QED BY <2>4, <2>5
<1>6. CASE Now.a = "hd"
  <2>1. /\ Render([r \in 0 .. hds - 1 |-> r + sds]) /\ switching' = switching
        /\ renders' = [r \in Renders |-> IF r \in Hd THEN r ELSE renders[r]]
    BY <1>3, <1>6 DEF Display, NextStep
  <2>2. hds > 0
    BY <1>2, <1>4, <1>6 DEF PlainSteps
  <2>3. 0 \in 0 .. hds - 1
    BY <2>2, Streams
  <2>4. screen' = [r \in 0 .. hds - 1 |-> r + sds]
    BY <2>1, <2>3 DEF Render
  <2>5. Shown' = Hd
    <3>1. \A i \in Hd : i - sds \in 0 .. hds - 1 /\ (i - sds) + sds = i
      BY Streams DEF total_num
    <3>2. \A r \in 0 .. hds - 1 : r + sds \in Hd
      BY Streams DEF total_num
    <3>3. Shown' = {r + sds : r \in 0 .. hds - 1}
      BY <2>4 DEF Shown
    <3> QED BY <3>1, <3>2, <3>3
  <2>6. PlainSteps'
    BY <1>2, <2>1 DEF PlainSteps
  <2>7. ASSUME FedPlan PROVE FedPlan'
    <3>1. Do("show", 0, "hd") \in StepsLeft /\ Do("show", 0, "sd") \notin StepsLeft
      BY <1>2, <1>4, <1>6, <2>7 DEF FedPlan
    <3>2. Target' = Target
      BY <1>2, <2>5, <3>1 DEF Target
    <3> QED BY <1>1, <1>2, <1>3, <2>7, <3>1, <3>2 DEF FedPlan
  <2> QED BY <2>6, <2>7
<1> QED BY <1>3, <1>5, <1>6

LEMMA CommandFed == ASSUME MudecInv, FedInv, Command PROVE FedInv'
<1>1. PICK c \in Commands, running \in BOOLEAN : Type(c, todo', running)
  BY CommandTyped DEF MudecInv
<1>2. /\ main = "loop" /\ todo = <<>> /\ mdec_running /\ typed \in Seq(Commands)
      /\ UNCHANGED <<renders, screen, switching, last_msg>>
  BY <1>1 DEF MudecInv, TypeOK, Type, queueVars, dspVars
<1>3. \A d, steps, r : Type(d, steps, r) =>
        todo' = steps /\ mdec_running' = r /\ Range(typed') = Range(typed) \cup {d}
  BY <1>2, RangeAppend DEF Type
<1> SUFFICES ASSUME mdec_running', ~ test_feed_background, DisplayKnown'
             PROVE  PlainSteps' /\ (FedAsShown' => FedPlan')
  BY DEF FedInv
<1>4. DisplayKnown
  BY <1>1, <1>3 DEF DisplayKnown
<1>5. /\ UNCHANGED <<renders, switching>> /\ Shown' = Shown
      /\ renders = [r \in Renders |-> r] /\ switching = [r \in Renders |-> NoUdec]
      /\ FedAsShown => \A i \in Udecs : last_msg'[i] = "RESUME" <=> i \in Shown
  <2>1. PlainSteps /\ (FedAsShown => FedPlan)
    BY <1>2, <1>4 DEF FedInv
  <2>2. StepsLeft = {}
    BY <1>2 DEF StepsLeft, Range
  <2>3. Target = Shown
    BY <2>2 DEF Target
  <2> QED BY <1>2, <2>1, <2>2, <2>3 DEF PlainSteps, FedPlan, Shown
<1>6. CASE Type("crsd", Crsd, TRUE)
  <2>1. StepsLeft' = CrsdSteps
    BY <1>3, <1>6, DisplaySteps DEF StepsLeft
  <2>2. \A s \in CrsdSteps :
          \/ s.op = "put" /\ (s.a = "RESUME" <=> s.i \in Sd)
          \/ s.op = "trickplay" \/ s = Do("show", 0, "sd")
    BY Streams DEF CrsdSteps, EachOf, Do
  <2>3. Do("show", 0, "sd") \in CrsdSteps /\ Do("show", 0, "hd") \notin CrsdSteps
    BY DEF CrsdSteps, EachOf, Do
  <2>4. ASSUME NEW i \in Udecs PROVE \E s \in CrsdSteps : s.op = "put" /\ s.i = i
    <3>1. \A m : Do("put", i, m).op = "put" /\ Do("put", i, m).i = i
      BY DEF Do
    <3>2. /\ i \in Sd => Do("put", i, "RESUME") \in CrsdSteps
          /\ i \in Hd => Do("put", i, "PAUSE") \in CrsdSteps
      BY DEF CrsdSteps, EachOf
    <3> QED BY <3>1, <3>2, Streams
  <2>5. Target' = Sd
    BY <2>1, <2>3 DEF Target
  <2>6. Do("show", 0, "sd").op = "show"
    BY DEF Do
  <2>7. PlainSteps'
    BY <1>5, <2>1, <2>2, <2>3, <2>6 DEF PlainSteps, PlainOps
  <2>8. FedPlan'
    BY <2>1, <2>2, <2>3, <2>4, <2>5, <2>6 DEF FedPlan
  <2> QED BY <2>7, <2>8
<1>7. ASSUME NEW u \in Udecs \cup {NoUdec}, Type("crhd", Crhd(u), TRUE)
      PROVE  PlainSteps' /\ FedPlan'
  <2>1. StepsLeft' = CrhdSteps(u)
    BY <1>3, <1>7, DisplaySteps DEF StepsLeft
  <2>2. \A s \in CrhdSteps(u) :
          \/ s.op = "put" /\ (s.a = "RESUME" <=> s.i \in Hd)
          \/ s.op = "trickplay" \/ s = Do("show", 0, "hd")
    BY Streams DEF CrhdSteps, EachOf, Do
  <2>3. Do("show", 0, "hd") \in CrhdSteps(u) /\ Do("show", 0, "sd") \notin CrhdSteps(u)
    BY DEF CrhdSteps, EachOf, Do
  <2>4. ASSUME NEW i \in Udecs PROVE \E s \in CrhdSteps(u) : s.op = "put" /\ s.i = i
    <3>1. \A m : Do("put", i, m).op = "put" /\ Do("put", i, m).i = i
      BY DEF Do
    <3>2. /\ i \in Hd => Do("put", i, "RESUME") \in CrhdSteps(u)
          /\ i \in Sd => Do("put", i, "PAUSE") \in CrhdSteps(u)
      BY DEF CrhdSteps, EachOf
    <3> QED BY <3>1, <3>2, Streams
  <2>5. Target' = Hd
    BY <2>1, <2>3 DEF Target
  <2>6. Do("show", 0, "hd").op = "show"
    BY DEF Do
  <2>7. hds > 0
    <3>1. Range(typed') = Range(typed) \cup {"crhd"}
      BY <1>3, <1>7
    <3> QED BY <3>1, Streams DEF DisplayKnown
  <2>8. PlainSteps'
    BY <1>5, <2>1, <2>2, <2>6, <2>7 DEF PlainSteps, PlainOps
  <2>9. FedPlan'
    BY <2>1, <2>2, <2>3, <2>4, <2>5, <2>6 DEF FedPlan
  <2> QED BY <2>8, <2>9
<1>8. ASSUME NEW op \in {"step", "pause_resume", "stop", "wait_switch"}, NEW n, NEW a,
             NEW d, d \notin DisplayCommands, Type(d, <<Do(op, n, a)>>, TRUE)
      PROVE  PlainSteps' /\ (FedAsShown' => FedPlan')
  <2>0. todo' = <<Do(op, n, a)>> /\ Range(typed') = Range(typed) \cup {d}
    BY <1>3, <1>8
  <2>1. StepsLeft' = {Do(op, n, a)}
    BY <2>0 DEF StepsLeft, Range
  <2>2. Do(op, n, a).op = op
    BY DEF Do
  <2>3. \A e : Do("show", 0, e) \notin StepsLeft'
    BY <2>1 DEF Do
  <2>4. Target' = Shown
    BY <1>5, <2>3 DEF Target
  <2>5. PlainSteps'
    BY <1>5, <2>1, <2>2, <2>3 DEF PlainSteps, PlainOps
  <2>6. FedAsShown' => FedAsShown
    <3>1. Range(typed') \cap DisplayCommands = Range(typed) \cap DisplayCommands
      BY <1>8, <2>0
    <3> QED BY <3>1 DEF FedAsShown
  <2>7. (\A i \in Udecs : last_msg'[i] = "RESUME" <=> i \in Shown) => FedPlan'
    BY <2>1, <2>2, <2>3, <2>4 DEF FedPlan
  <2> QED BY <1>5, <2>5, <2>6, <2>7
<1>9. ~ Type("q", Quit, FALSE) /\ \A d \in {"cs", "csa", "cr"} : \A steps : ~ Type(d, steps, TRUE)
  BY <1>3 DEF DisplayKnown
<1>10. ASSUME NEW r \in Renders, Type("cw", WaitSwitched(r), TRUE)
       PROVE  PlainSteps' /\ (FedAsShown' => FedPlan')
  <2>1. Type("cw", <<Do("wait_switch", r, NoUdec)>>, TRUE)
    BY <1>10 DEF WaitSwitched
  <2>2. "cw" \notin DisplayCommands
    BY DEF DisplayCommands
  <2> QED BY <1>8, <2>1, <2>2
<1>11. ASSUME NEW n \in Udecs,
              \/ TypeFor("s", n, <<Do("step", n, "STEP")>>)
              \/ TypeFor(" ", n, <<Do("pause_resume", n, "")>>)
              \/ TypeFor("z", n, <<Do("stop", n, "")>>)
       PROVE  PlainSteps' /\ (FedAsShown' => FedPlan')
  <2>1. \A d \in {"s", " ", "z"} : d \notin DisplayCommands
    BY DEF DisplayCommands
  <2>2. \/ Type("s", <<Do("step", n, "STEP")>>, TRUE)
        \/ Type(" ", <<Do("pause_resume", n, "")>>, TRUE)
        \/ Type("z", <<Do("stop", n, "")>>, TRUE)
    BY <1>11 DEF TypeFor
  <2>3. CASE Type("s", <<Do("step", n, "STEP")>>, TRUE)
    BY <1>8, <2>1, <2>3
  <2>4. CASE Type(" ", <<Do("pause_resume", n, "")>>, TRUE)
    BY <1>8, <2>1, <2>4
  <2>5. CASE Type("z", <<Do("stop", n, "")>>, TRUE)
    BY <1>8, <2>1, <2>5
  <2> QED BY <2>2, <2>3, <2>4, <2>5
<1> QED BY <1>6, <1>7, <1>9, <1>10, <1>11 DEF Command, TypeFor

LEMMA NextFed == MudecInv /\ FedInv /\ [Next]_vars => FedInv'
<1> SUFFICES ASSUME MudecInv, FedInv, [Next]_vars PROVE FedInv'
  OBVIOUS
<1>1. ASSUME NEW op \in {"trickplay", "step", "pause_resume", "stop", "adjust_pts", "wait_switch"},
             NextStep(op)
      PROVE  Now.op \notin {"put", "show"} /\ StepsLeft = {Now} \cup StepsLeft'
  BY <1>1, NextStepTyped, RangeTail DEF MudecInv, NextStep, Now, StepsLeft
<1>2. CASE TrickplayCommand \/ StopCommand \/ AdjustPts \/ WaitSwitch
  <2>1. UNCHANGED <<renders, screen, switching, last_msg, typed, main, mdec_running>>
    BY <1>2 DEF TrickplayCommand, StopCommand, AdjustPts, WaitSwitch, MainRest, queueVars, dspVars
  <2>2. \E op \in {"trickplay", "step", "pause_resume", "stop", "adjust_pts", "wait_switch"} :
          NextStep(op)
    BY <1>2 DEF TrickplayCommand, StopCommand, AdjustPts, WaitSwitch
  <2> QED BY <1>1, <2>1, <2>2, FedKept
<1>3. CASE Exit \/ SigStop
  <2>1. UNCHANGED <<renders, screen, switching, last_msg, typed>> /\ (mdec_running' => mdec_running)
    BY <1>3 DEF Exit, SigStop, queueVars, dspVars
  <2>2. main' = "loop" => main = "loop" /\ todo' = todo
    BY <1>3 DEF Exit, SigStop
  <2> QED BY <2>1, <2>2, FedKept
<1>4. CASE \/ \E i \in Udecs : ThreadStep(i) \/ Consume(i)
           \/ UNCHANGED vars
  <2>1. UNCHANGED <<renders, screen, switching, last_msg, typed, main, mdec_running, todo>>
    BY <1>4 DEF ThreadStep, Start, TakeCommand, NoCommand, RequestBitsFifo, Decode,
                StopAndRelease, Consume, vars, mainVars, queueVars, dspVars
  <2> QED BY <2>1, FedKept
<1>5. ASSUME NEW r \in Renders, SwitchStream(r) PROVE FedInv'
  <2>1. /\ switching[r] # NoUdec
        /\ UNCHANGED <<typed, main, mdec_running>>
    BY <1>5 DEF SwitchStream, mainVars
  <2>2. ~ PlainSteps
    BY <2>1 DEF PlainSteps
  <2> QED BY <2>1, <2>2 DEF FedInv, DisplayKnown
<1> QED BY <1>2, <1>3, <1>4, <1>5, CommandFed, PutFed, DisplayFed DEF Next, MainStep

\* Whatever the number of streams and however the threads and the signals fall
\* between main's steps: between two commands main has told just the streams on the
\* screen to feed.
THEOREM ShownFed == Spec => []ShownAreFed
<1>1. Init => MudecInv /\ FedInv
  BY InitInv, InitFed
<1>2. MudecInv /\ FedInv /\ [Next]_vars => (MudecInv /\ FedInv)'
  BY NextKeeps, NextFed
<1>3. MudecInv /\ FedInv => ShownAreFed
  <2> SUFFICES ASSUME MudecInv, FedInv, CommandDone, ~ test_feed_background,
                      DisplayKnown, FedAsShown
               PROVE  \A i \in Udecs : last_msg[i] = "RESUME" <=> i \in Shown
    BY DEF ShownAreFed, Shown, MudecInv, TypeOK
  <2>1. FedPlan
    BY DEF FedInv, CommandDone
  <2>2. StepsLeft = {}
    BY DEF CommandDone, StepsLeft, Range
  <2>3. Target = Shown
    BY <2>2 DEF Target
  <2> QED BY <2>1, <2>2, <2>3 DEF FedPlan
<1> QED BY <1>1, <1>2, <1>3, PTL DEF Spec
=============================================================================
