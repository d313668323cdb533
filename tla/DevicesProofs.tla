----------------------------- MODULE DevicesProofs -----------------------------
(***************************************************************************)
(* The programs of MCDevices, for any values of their constants.           *)
(*                                                                         *)
(* semcli.cpp: the lock excludes for every set of processes, started,      *)
(* stopped and killed at any time, until a semget without IPC_EXCL takes a *)
(* semaphore that another program created meanwhile.  Up to then one       *)
(* process at most creates the semaphore, holds the lock or was killed     *)
(* half way, and the value is 0 exactly while there is one.                *)
(*                                                                         *)
(* IrCut_Test.c: a mode set by hand stays.  g_CtMsgLock makes the menu's   *)
(* assignments wait for a callback that is under way, and from then on the *)
(* callback finds g_Auto clear, so the menu's two pin writes, which take no *)
(* lock, have the pins to themselves.                                      *)
(*                                                                         *)
(* guard_vsync_loss.c and test_encode.c for every set of streams, command  *)
(* line and number of losses.  Neither program looks at an ioctl's result  *)
(* in a way that would save it, so the argument follows the driver's state *)
(* from ioctl to ioctl, for a recovery and for a command that had the      *)
(* encoder to itself.                                                      *)
(*                                                                         *)
(* With RecorderProofs these make up what the composition of MCDevices     *)
(* keeps.                                                                  *)
(***************************************************************************)
EXTENDS MCDevices, RecorderProofs, SequenceTheorems, FiniteSetTheorems, TLAPS

(* semcli.cpp *)

Owner(p) == pc[p] \in {"locked", "setval", "lost"}

\* One process at a time has the semaphore to itself.
OneOwner == \A p, q \in Processes : Owner(p) /\ Owner(q) => p = q

\* An adjustment is what its process took and has not given back.
UndoOfHolder ==
  \A p \in Processes : undo[p] = IF pc[p] = "locked" THEN 1 ELSE 0

\* The value is what the owner left, and nobody runs without a semaphore.
ValueOfOwner ==
  /\ value \in {None, 0, 1}
  /\ value = 0 <=> \E p \in Processes : Owner(p)
  /\ value = None => \A p \in Processes : pc[p] \in {"gone", "create", "stale"}

LockInv == TypeOK /\ (~ raced => OneOwner /\ UndoOfHolder /\ ValueOfOwner)

\* Max of 0 and a number, the kernel's clamp.
LEMMA Clamp ==
  ASSUME NEW x \in Int
  PROVE  Max({0, x}) \in Nat /\ (x \in Nat => Max({0, x}) = x)
<1>1. \E y \in {0, x} : \A z \in {0, x} : y >= z
  OBVIOUS
<1>2. Max({0, x}) \in {0, x} /\ \A z \in {0, x} : Max({0, x}) >= z
  BY <1>1 DEF Max
<1> QED BY <1>2

\* The exit of a process in terms of its adjustment.
LEMMA ExitUndoes ==
  ASSUME TypeOK, NEW p \in Processes, Undone(p)
  PROVE  /\ value' \in Nat \cup {None} /\ undo' \in [Processes -> Int]
         /\ undo' = [undo EXCEPT ![p] = 0]
         /\ value = None => value' = None
         /\ value # None /\ undo[p] \in Nat => value' = value + undo[p]
<1>1. undo[p] \in Int /\ undo \in [Processes -> Int] /\ value \in Nat \cup {None}
  BY DEF TypeOK
<1>2. undo' = [undo EXCEPT ![p] = 0]
  BY DEF Undone
<1>3. CASE value = None
  BY <1>1, <1>2, <1>3 DEF Undone
<1>4. CASE value # None
  <2>1. PICK x \in Int : x = value + undo[p]
    BY <1>1, <1>4
  <2>2. value' = Max({0, x})
    BY <1>4, <2>1 DEF Undone
  <2>3. value' \in Nat /\ (x \in Nat => value' = x)
    BY <2>1, <2>2, Clamp
  <2> QED BY <1>1, <1>2, <1>4, <2>1, <2>3
<1> QED BY <1>3, <1>4

LEMMA LockTyped == ASSUME TypeOK, [Next]_vars PROVE TypeOK'
<1> USE DEF TypeOK, None
<1>1. CASE UNCHANGED vars
  BY <1>1 DEF vars
<1>2. ASSUME NEW p \in Processes, Find(p) \/ SemGet(p) \/ SetToOne(p) \/ RemoveId(p)
      PROVE  TypeOK'
  <2>1. CASE Find(p)
    BY <2>1 DEF Find, Go
  <2>2. CASE SemGet(p)
    BY <2>2 DEF SemGet, Go
  <2>3. CASE SetToOne(p)
    BY <2>3 DEF SetToOne, Go
  <2>4. CASE RemoveId(p)
    BY <2>4 DEF RemoveId
  <2> QED BY <1>2, <2>1, <2>2, <2>3, <2>4
<1>3. ASSUME NEW p \in Processes, TryLock(p) PROVE TypeOK'
  BY <1>3 DEF TryLock, Go, SemOp
<1>4. ASSUME NEW p \in Processes, Unlock(p) PROVE TypeOK'
  BY <1>4 DEF Unlock, Go, SemOp
<1>5. ASSUME NEW p \in Processes, Stop(p) \/ Kill(p) PROVE TypeOK'
  <2>1. /\ value' \in Nat \cup {None} /\ undo' \in [Processes -> Int]
    BY <1>5, ExitUndoes DEF Stop, Kill
  <2> QED BY <1>5, <2>1 DEF Stop, Kill, Go
<1> QED BY <1>1, <1>2, <1>3, <1>4, <1>5 DEF Next

\* The invariant is inductive.
LEMMA LockInvariant == Spec => []LockInv
<1>1. Init => LockInv
  <2>1. Init => TypeOK
    <3>1. Init => /\ undo \in [Processes -> Int] /\ value \in Nat \cup {None}
                  /\ pc \in [Processes -> {"gone", "create", "setval", "run", "locked",
                                         "lost", "stale"}]
      BY DEF Init
    <3>2. Init => raced \in BOOLEAN
      BY DEF Init
    <3> QED BY <3>1, <3>2 DEF TypeOK
  <2>2. Init => OneOwner /\ UndoOfHolder /\ ValueOfOwner
    BY DEF Init, Owner, OneOwner, UndoOfHolder, ValueOfOwner, None
  <2> QED BY <2>1, <2>2 DEF LockInv
<1>2. ASSUME LockInv, [Next]_vars PROVE LockInv'
  <2>1. TypeOK /\ TypeOK'
    BY <1>2, LockTyped DEF LockInv
  <2>2. ASSUME ~ raced' PROVE (OneOwner /\ UndoOfHolder /\ ValueOfOwner)'
    <3> USE DEF OneOwner, Owner, UndoOfHolder, ValueOfOwner, None
    <3>1. ~ raced
      BY <1>2, <2>2 DEF Next, vars, Find, SemGet, SetToOne, RemoveId, TryLock, Unlock, Stop, Kill
    <3>2. /\ OneOwner /\ UndoOfHolder /\ ValueOfOwner
          /\ DOMAIN pc = Processes /\ DOMAIN undo = Processes
      BY <1>2, <2>1, <3>1 DEF LockInv, TypeOK
    <3>3. CASE UNCHANGED vars
      BY <3>2, <3>3 DEF vars
    <3>4. ASSUME NEW p \in Processes, Find(p)
          PROVE  (OneOwner /\ UndoOfHolder /\ ValueOfOwner)'
      BY <3>2, <3>4 DEF Find, Go
    <3>5. ASSUME NEW p \in Processes, SemGet(p)
          PROVE  (OneOwner /\ UndoOfHolder /\ ValueOfOwner)'
      BY <2>2, <3>2, <3>5 DEF SemGet, Go
    <3>6. ASSUME NEW p \in Processes, SetToOne(p)
          PROVE  (OneOwner /\ UndoOfHolder /\ ValueOfOwner)'
      BY <3>2, <3>6 DEF SetToOne, Go
    <3>7. ASSUME NEW p \in Processes, RemoveId(p)
          PROVE  (OneOwner /\ UndoOfHolder /\ ValueOfOwner)'
      <4>1. /\ pc[p] = "setval" /\ value' = None
            /\ \A q \in Processes : undo'[q] = 0
            /\ \A q \in Processes :
                 /\ pc'[q] = "lost" => pc[q] = "lost"
                 /\ pc[q] = "lost" \/ pc'[q] \in {"gone", "create", "stale"}
        <5>1. \A q \in Processes : pc[q] \in {"gone", "create", "setval", "run", "locked",
                                             "lost", "stale"}
          BY <2>1 DEF TypeOK
        <5> QED BY <3>7, <5>1 DEF RemoveId
      <4>2. \A q \in Processes : pc[q] # "lost"
        BY <3>2, <4>1
      <4> QED BY <4>1, <4>2
    <3>8. ASSUME NEW p \in Processes, TryLock(p)
          PROVE  (OneOwner /\ UndoOfHolder /\ ValueOfOwner)'
      BY <3>2, <3>8 DEF TryLock, Go, SemOp
    <3>9. ASSUME NEW p \in Processes, Unlock(p)
          PROVE  (OneOwner /\ UndoOfHolder /\ ValueOfOwner)'
      BY <3>2, <3>9 DEF Unlock, Go, SemOp
    <3>10. ASSUME NEW p \in Processes, Stop(p) \/ Kill(p)
           PROVE  (OneOwner /\ UndoOfHolder /\ ValueOfOwner)'
      <4>1. /\ undo' = [undo EXCEPT ![p] = 0] /\ undo[p] \in Nat
            /\ value = None => value' = None
            /\ value # None => value' = value + undo[p]
        <5>1. undo[p] \in Nat
          BY <3>2
        <5> QED BY <2>1, <3>10, <5>1, ExitUndoes DEF Stop, Kill
      <4>2. CASE Stop(p)
        BY <3>2, <4>1, <4>2 DEF Stop, Go
      <4>3. CASE Kill(p)
        BY <3>2, <4>1, <4>3 DEF Kill, Go
      <4> QED BY <3>10, <4>2, <4>3
    <3> QED BY <1>2, <3>3, <3>4, <3>5, <3>6, <3>7, <3>8, <3>9, <3>10 DEF Next
  <2> QED BY <2>1, <2>2 DEF LockInv
<1> QED BY <1>1, <1>2, PTL DEF Spec

LEMMA LockFollows == LockInv => TypeOK /\ MutualExclusion /\ NeverWedged
BY DEF LockInv, OneOwner, Owner, ValueOfOwner, MutualExclusion, NeverWedged

\* semcli.cpp's lock is held by at most one program, CSemaphoreMutex's purpose, as long
\* as no two programs created the semaphore at once.
THEOREM LockExcludes == Spec => []MutualExclusion
BY LockInvariant, LockFollows, PTL

\* Up to then the lock is always free, held, or being set up, by a program that may have
\* been killed at it: no crash of a holder leaves it taken, because TryLock and Unlock
\* both carry SEM_UNDO.
THEOREM LockSurvivesCrashes == Spec => [](TypeOK /\ NeverWedged)
BY LockInvariant, LockFollows, PTL

-----------------------------------------------------------------------------
(* IrCut_Test.c *)

\* By hand means that no callback is at the pins; how far the command has come is what
\* the mode and the pins show.
ManualInv ==
  ~ g_Auto =>
    /\ callback = "idle"
    /\ commandStep \in {"pin83", "pin84"} => g_DNMode = ModeOf(command)
    /\ commandStep = "pin84" => pin83 = 1 - ModeOf(command)
    /\ commandStep = "idle" =>
         g_DNMode = commanded /\ pin83 = 1 - commanded /\ pin84 = commanded

IrCutInv == IrCutTypeOK /\ ManualInv

LEMMA IrCutInvInit == IrCutInit \/ IrCutOff => IrCutInv
BY DEF IrCutInit, IrCutOff, IrCutStart, IrCutInv, IrCutTypeOK, ManualInv

LEMMA IrCutInductive == ASSUME IrCutInv, [IrCutNext]_ircutVars PROVE IrCutInv'
<1> USE DEF IrCutInv, IrCutTypeOK, ManualInv, ModeOf
<1>1. CASE SetMode
  BY <1>1 DEF SetMode
<1>2. CASE AssignMode
  BY <1>2 DEF AssignMode
<1>3. CASE MenuPin83
  BY <1>3 DEF MenuPin83
<1>4. CASE MenuPin84
  BY <1>4 DEF MenuPin84
<1>5. CASE CallBackDNMode
  BY <1>5 DEF CallBackDNMode, CallbackActs
<1>6. CASE CallbackPin83
  BY <1>6 DEF CallbackPin83
<1>7. CASE CallbackPin84
  BY <1>7 DEF CallbackPin84
<1>8. CASE UNCHANGED ircutVars
  BY <1>8 DEF ircutVars
<1> QED BY <1>1, <1>2, <1>3, <1>4, <1>5, <1>6, <1>7, <1>8 DEF IrCutNext

LEMMA ManualFollows == IrCutInv => IrCutTypeOK /\ ManualModeKept
BY DEF IrCutInv, IrCutTypeOK, ManualInv, ManualModeKept, Filter

LEMMA IrCutInvariant == IrCutSpec => []IrCutInv
BY IrCutInvInit, IrCutInductive, PTL DEF IrCutSpec

\* IrCut_Test.c: with day or night set by hand and the command done, the mode kept and
\* the filter are the ones commanded, wherever the library's callback was.
THEOREM ManualModeStays == IrCutSpec => []ManualModeKept
BY IrCutInvariant, ManualFollows, PTL

-----------------------------------------------------------------------------
(* guard_vsync_loss.c and test_encode.c *)

CommandActive == te \notin {"off", "done", "failed"}

\* The driver encodes exactly when it has streams to encode.
DriverState == iav_state = "encoding" <=> encoding # {}

\* The flag disturbed is up before both programs are at work.
OneAtWork == ~ disturbed => ~ (Recovering /\ CommandActive)

\* Where a recovery stands between two of its ioctls.
RecoveryAt ==
  /\ guard \in {"state", "streams", "stop"} => encoding = lost
  /\ guard = "stop" => encode_streams = lost
  /\ guard \in {"idle", "preview", "running", "start"} /\ lost # {} =>
       encode_streams = lost /\ encoding = {}
  /\ guard = "preview" /\ lost # {} => iav_state = "idle"
  /\ guard \in {"running", "start"} /\ lost # {} => iav_state = "preview"
  /\ guard = "respond" /\ lost # {} => encoding = lost

\* Where a command stands between two of its phases.
CommandAt ==
  /\ te \in {"look_stop", "stop"} => encoding = te_before
  /\ te = "stop" => te_streams = stop_stream_id \cap te_before
  /\ te \in {"idle", "setup", "preview", "look_start", "start"} =>
       encoding = te_before \ stop_stream_id
  /\ te = "start" => te_streams = start_stream_id \ encoding

EncoderInv ==
  DriverState /\ OneAtWork /\ (~ disturbed => RecoveryAt /\ CommandAt)

\* The ioctls keep the driver's state in step with its streams.
LEMMA DriverKept ==
  ASSUME DriverState, NEW S,
         STOP_ENCODE(S) \/ START_ENCODE(S) \/ ENTER_IDLE \/ ENABLE_PREVIEW
  PROVE  DriverState'
BY DEF DriverState, STOP_ENCODE, START_ENCODE, ENTER_IDLE, ENABLE_PREVIEW

LEMMA EncoderInvInit == EncoderInit \/ EncoderOff => EncoderInv
BY DEF EncoderInit, EncoderOff, EncoderStart, EncoderInv, DriverState, OneAtWork, Recovering, RecoveryAt,
       CommandAt, CommandActive

\* What the guard does outside a recovery.
LEMMA GuardOutside ==
  ASSUME EncoderInv, VsyncLoss \/ SendSessionCmd \/ SessionStatus \/ Sigstop
  PROVE  EncoderInv'
<1> USE DEF EncoderInv, DriverState, OneAtWork, Recovering, RecoveryAt, CommandAt, CommandActive,
            driverVars, messageVars, guardVars, commandVars, stop_stream_id, start_stream_id
<1>1. CASE VsyncLoss
  BY <1>1 DEF VsyncLoss
<1>2. CASE SendSessionCmd
  BY <1>2 DEF SendSessionCmd, GuardGoes
<1>3. CASE SessionStatus
  BY <1>3 DEF SessionStatus, After
<1>4. CASE Sigstop
  BY <1>4 DEF Sigstop
<1> QED BY <1>1, <1>2, <1>3, <1>4

\* Every step of a recovery.
LEMMA GuardRecovers == ASSUME EncoderInv, Recovery PROVE EncoderInv'
<1> USE DEF EncoderInv, DriverState, OneAtWork, Recovering, RecoveryAt, CommandAt, CommandActive,
            driverVars, messageVars, commandVars, stop_stream_id, start_stream_id
<1>1. CASE VsyncReq
  BY <1>1 DEF VsyncReq
<1>2. CASE GetState
  BY <1>2 DEF GetState, GuardGoes
<1>3. CASE GetStreams
  BY <1>3 DEF GetStreams, GuardGoes, Encoding
<1>4. CASE StopStreams
  BY <1>4 DEF StopStreams, Drives, GuardGoes, STOP_ENCODE
<1>5. CASE GotoIdle
  BY <1>5 DEF GotoIdle, Drives, GuardGoes, ENTER_IDLE
<1>6. CASE EnterPreview
  BY <1>6 DEF EnterPreview, Drives, GuardGoes, ENABLE_PREVIEW
<1>7. CASE GetRunning
  BY <1>7 DEF GetRunning, GuardGoes, NoStreamsToRecover
<1>8. CASE StartStreams
  BY <1>8 DEF StartStreams, Drives, GuardGoes, START_ENCODE
<1>9. CASE Respond
  BY <1>9 DEF Respond, After
<1> QED BY <1>1, <1>2, <1>3, <1>4, <1>5, <1>6, <1>7, <1>8, <1>9 DEF Recovery

\* Every step of a command.
LEMMA CommandRuns == ASSUME EncoderInv, Command \/ CommandStep PROVE EncoderInv'
<1> USE DEF EncoderInv, DriverState, OneAtWork, Recovering, RecoveryAt, CommandAt, CommandActive,
            driverVars, messageVars, guardVars, Phase
<1>1. CASE Command
  BY <1>1 DEF Command
<1>2. CASE LookStop
  BY <1>2 DEF LookStop, stop_stream_id
<1>3. CASE StopEncode
  BY <1>3 DEF StopEncode, stop_stream_id, STOP_ENCODE
<1>4. CASE Idle
  BY <1>4 DEF Idle, stop_stream_id, ENTER_IDLE
<1>5. CASE Setup
  BY <1>5 DEF Setup, stop_stream_id
<1>6. CASE Preview
  BY <1>6 DEF Preview, stop_stream_id, ENABLE_PREVIEW
<1>7. CASE LookStart
  BY <1>7 DEF LookStart, stop_stream_id, start_stream_id
<1>8. CASE StartEncode
  <2>1. DriverState'
    <3>1. CASE te_streams # {}
      BY <1>8, <3>1 DEF StartEncode, START_ENCODE
    <3>2. CASE te_streams = {}
      BY <1>8, <3>2 DEF StartEncode
    <3> QED BY <3>1, <3>2
  <2>2. te' \in {"done", "failed"} /\ guard' = guard /\ (~ disturbed' => ~ Recovering)
    BY <1>8 DEF StartEncode
  <2> QED BY <2>1, <2>2
<1> QED BY <1>1, <1>2, <1>3, <1>4, <1>5, <1>6, <1>7, <1>8 DEF CommandStep

LEMMA EncoderInductive == EncoderInv /\ [EncoderNext]_encoderVars => EncoderInv'
<1>1. EncoderInv /\ UNCHANGED encoderVars => EncoderInv'
  BY DEF EncoderInv, DriverState, OneAtWork, Recovering, RecoveryAt, CommandAt, CommandActive,
         encoderVars, driverVars, messageVars, guardVars, commandVars,
         stop_stream_id, start_stream_id
<1> QED BY <1>1, GuardOutside, GuardRecovers, CommandRuns DEF EncoderNext, GuardStep

LEMMA EncoderInvariant == EncoderSpec => []EncoderInv
BY EncoderInvInit, EncoderInductive, PTL DEF EncoderSpec

\* guard_vsync_loss.c: a recovery that reaches its answer undisturbed has brought back
\* the streams that ran at the loss, all of them and no others.
THEOREM LossRecovered == EncoderSpec => []RecoveryRestores
<1>1. EncoderInv => RecoveryRestores
  BY DEF EncoderInv, RecoveryAt, RecoveryRestores
<1> QED BY EncoderInvariant, <1>1, PTL

\* test_encode.c: an undisturbed command that succeeds leaves encoding what its options
\* say, whatever their combination.
THEOREM CommandDoes == EncoderSpec => CommandResult
<1> DEFINE Done == te' = "done" /\ te # "done" /\ ~ disturbed' =>
             encoding' = (te_before \ stop_stream_id) \cup te_opts.start \cup te_opts.restart
<1>1. ASSUME EncoderInv, EncoderNext PROVE Done
  <2>1. CASE StartEncode
    BY <1>1, <2>1 DEF StartEncode, Phase, START_ENCODE, EncoderInv, CommandAt,
                      start_stream_id, driverVars
  <2>2. CASE LookStop \/ StopEncode \/ Idle \/ Setup \/ Preview \/ LookStart
    BY <2>2 DEF LookStop, StopEncode, Idle, Setup, Preview, LookStart, Phase
  <2>3. CASE Command
    BY <2>3 DEF Command
  <2>4. CASE VsyncLoss \/ SendSessionCmd \/ SessionStatus \/ Sigstop \/ Recovery
    BY <2>4 DEF VsyncLoss, SendSessionCmd, SessionStatus, Sigstop, Recovery, VsyncReq, GetState,
                GetStreams, StopStreams, GotoIdle, EnterPreview, GetRunning, StartStreams,
                Respond, Drives, commandVars
  <2> QED BY <1>1, <2>1, <2>2, <2>3, <2>4 DEF EncoderNext, GuardStep, CommandStep
<1>2. EncoderInv /\ [EncoderNext]_encoderVars => [Done]_encoderVars
  BY <1>1
<1> QED BY EncoderInvariant, <1>2, PTL DEF EncoderSpec, CommandResult

\* The types, with what they rest on: tries are left while the guard connects, and a loss
\* is answered at most once, being a message before and a recovery in between.
StreamSets ==
  /\ encoding \subseteq EncodeStreams /\ encode_streams \subseteq EncodeStreams
  /\ lost \subseteq EncodeStreams /\ te_streams \subseteq EncodeStreams
  /\ te_before \subseteq EncodeStreams
  /\ te_opts.stop \subseteq EncodeStreams /\ te_opts.start \subseteq EncodeStreams
  /\ te_opts.restart \subseteq EncodeStreams
Flags ==
  /\ session \in BOOLEAN /\ nl_connected \in BOOLEAN /\ looping \in BOOLEAN
  /\ quitting \in BOOLEAN /\ disturbed \in BOOLEAN
Places ==
  /\ iav_state \in {"idle", "preview", "encoding"}
  /\ guard \in GuardSteps /\ te \in Phases
Tries ==
  /\ count \in 0 .. ConnectTries
  /\ guard # "exited" /\ ~ quitting /\ ~ looping => count >= 1

Messages == {"loss", "up", "fail", "down"}
Losses(box) == {i \in 1 .. Len(box) : box[i] = "loss"}
Pending(box) == Cardinality(Losses(box))
Answers ==
  /\ inbox \in Seq(Messages) /\ losses \in 0 .. MaxLosses /\ answered \in Nat
  /\ answered + Pending(inbox) + (IF Recovering THEN 1 ELSE 0) <= losses

EncoderTypes == StreamSets /\ Flags /\ Places /\ Tries /\ Answers

LEMMA EncoderBounds ==
  /\ ConnectTries \in Nat \ {0} /\ MaxLosses \in Nat
  /\ \A opts \in Options :
       /\ opts.stop \subseteq EncodeStreams /\ opts.start \subseteq EncodeStreams
       /\ opts.restart \subseteq EncodeStreams
BY EncoderAssumption

LEMMA PendingFinite ==
  ASSUME NEW box \in Seq(Messages)
  PROVE  IsFiniteSet(Losses(box)) /\ Pending(box) \in Nat /\ Len(box) \in Nat
<1>1. Len(box) \in Nat
  BY LenProperties
<1>2. IsFiniteSet(1 .. Len(box))
  BY <1>1, FS_Interval
<1>3. Losses(box) \in SUBSET (1 .. Len(box))
  BY DEF Losses
<1> QED BY <1>1, <1>2, <1>3, FS_Subset, FS_CardinalityType DEF Pending

LEMMA PendingAppend ==
  ASSUME NEW box \in Seq(Messages), NEW msg \in Messages
  PROVE  /\ Append(box, msg) \in Seq(Messages)
         /\ Pending(Append(box, msg)) = Pending(box) + (IF msg = "loss" THEN 1 ELSE 0)
<1>1. PICK n, more : n = Len(box) /\ more = Append(box, msg)
  OBVIOUS
<1>2. /\ n \in Nat /\ more \in Seq(Messages) /\ Len(more) = n + 1 /\ more[n + 1] = msg
      /\ \A i \in 1 .. n : more[i] = box[i]
  BY <1>1, AppendProperties, LenProperties
<1>3. Losses(more) = IF msg = "loss" THEN Losses(box) \cup {n + 1} ELSE Losses(box)
  <2>1. ASSUME NEW i PROVE i \in 1 .. n + 1 <=> i \in 1 .. n \/ i = n + 1
    BY <1>2
  <2> QED BY <1>1, <1>2, <2>1 DEF Losses
<1>4. n + 1 \notin Losses(box)
  BY <1>1, <1>2 DEF Losses
<1>5. IsFiniteSet(Losses(box)) /\ Pending(box) \in Nat
  BY PendingFinite
<1>6. /\ msg = "loss" => Pending(more) = Pending(box) + 1
      /\ msg # "loss" => Pending(more) = Pending(box)
  BY <1>3, <1>4, <1>5, FS_AddElement DEF Pending
<1> QED BY <1>1, <1>2, <1>5, <1>6

LEMMA PendingTail ==
  ASSUME NEW box \in Seq(Messages), box # <<>>
  PROVE  /\ Tail(box) \in Seq(Messages) /\ Head(box) \in Messages
         /\ Pending(Tail(box)) + (IF Head(box) = "loss" THEN 1 ELSE 0) <= Pending(box)
<1>1. PICK n, rest : n = Len(box) /\ rest = Tail(box)
  OBVIOUS
<1>2. /\ n \in Nat \ {0} /\ rest \in Seq(Messages) /\ Len(rest) = n - 1
      /\ \A i \in 1 .. n - 1 : rest[i] = box[i + 1]
      /\ Head(box) = box[1] /\ Head(box) \in Messages
  BY <1>1, HeadTailProperties, EmptySeq, LenProperties
<1>3. IsFiniteSet(Losses(box)) /\ IsFiniteSet(Losses(box) \ {1})
  BY PendingFinite, FS_RemoveElement
<1>4. [i \in Losses(rest) |-> i + 1] \in Injection(Losses(rest), Losses(box) \ {1})
  <2>1. ASSUME NEW i \in Losses(rest)
        PROVE  i \in Nat /\ i + 1 \in Losses(box) \ {1}
    <3>1. i \in 1 .. n - 1 /\ rest[i] = "loss"
      BY <1>2 DEF Losses
    <3>2. i \in Nat /\ i + 1 \in 1 .. n /\ i + 1 # 1
      BY <1>2, <3>1
    <3> QED BY <1>1, <1>2, <3>1, <3>2 DEF Losses
  <2>2. \A i, j \in Losses(rest) : i + 1 = j + 1 => i = j
    BY <2>1
  <2> QED BY <2>1, <2>2 DEF Injection, IsInjective
<1>5. Cardinality(Losses(rest)) <= Cardinality(Losses(box) \ {1})
  BY <1>3, <1>4, FS_Injection
<1>6. Cardinality(Losses(box) \ {1}) = IF Head(box) = "loss" THEN Pending(box) - 1 ELSE Pending(box)
  <2>1. 1 \in Losses(box) <=> Head(box) = "loss"
    BY <1>1, <1>2 DEF Losses
  <2> QED BY <1>3, <2>1, FS_RemoveElement DEF Pending
<1>7. Pending(rest) \in Nat /\ Pending(box) \in Nat
  BY <1>2, PendingFinite
<1>8. Pending(rest) <= IF Head(box) = "loss" THEN Pending(box) - 1 ELSE Pending(box)
  BY <1>5, <1>6 DEF Pending
<1> QED BY <1>1, <1>2, <1>7, <1>8

LEMMA EncoderTypesInit == EncoderInit \/ EncoderOff => EncoderTypes
<1> SUFFICES ASSUME EncoderInit \/ EncoderOff PROVE EncoderTypes
  OBVIOUS
<1>1. /\ encoding \subseteq EncodeStreams
      /\ iav_state \in {"idle", "preview", "encoding"} /\ guard \in {"off", "connect"}
      /\ session = FALSE /\ inbox = <<>> /\ losses = 0
      /\ nl_connected = FALSE /\ count = ConnectTries
      /\ looping = FALSE /\ quitting = FALSE /\ encode_streams = {} /\ lost = {} /\ answered = 0
      /\ te = "off" /\ te_opts = NoOptions /\ te_streams = {} /\ te_before = {}
      /\ disturbed = FALSE
  BY DEF EncoderInit, EncoderOff, EncoderStart
<1>2. inbox \in Seq(Messages) /\ Pending(inbox) = 0
  <2>1. Len(inbox) = 0 /\ inbox \in Seq(Messages)
    BY <1>1, EmptySeq
  <2>2. Losses(inbox) = {}
    BY <2>1 DEF Losses
  <2> QED BY <2>1, <2>2, FS_EmptySet DEF Pending
<1>3. ~ Recovering
  BY <1>1 DEF Recovering
<1>4. Answers
  BY <1>1, <1>2, <1>3, EncoderBounds DEF Answers
<1>5. StreamSets
  BY <1>1 DEF StreamSets, NoOptions
<1>6. Flags /\ Places
  BY <1>1 DEF Flags, Places, GuardSteps, Phases
<1>7. Tries
  <2>1. ConnectTries \in Nat \ {0}
    BY EncoderBounds
  <2> QED BY <1>1, <2>1 DEF Tries
<1> QED BY <1>4, <1>5, <1>6, <1>7 DEF EncoderTypes

\* What the guard and the driver say to each other.
LEMMA MessagesTyped ==
  ASSUME EncoderTypes, VsyncLoss \/ SendSessionCmd \/ SessionStatus \/ VsyncReq \/ Respond
                       \/ Sigstop
  PROVE  EncoderTypes'
<1> DEFINE Work == IF Recovering THEN 1 ELSE 0
<1>1. /\ inbox \in Seq(Messages) /\ losses \in 0 .. MaxLosses /\ answered \in Nat
      /\ Pending(inbox) \in Nat /\ answered + Pending(inbox) + Work <= losses /\ Work \in {0, 1}
  BY PendingFinite DEF EncoderTypes, Answers
<1>2. /\ StreamSets /\ Flags /\ Places /\ Tries /\ ConnectTries \in Nat \ {0} /\ MaxLosses \in Nat
  BY EncoderBounds DEF EncoderTypes
<1>3. CASE VsyncLoss
  <2>1. /\ losses < MaxLosses /\ losses' = losses + 1 /\ inbox' = Append(inbox, "loss")
        /\ UNCHANGED <<driverVars, session, guardVars, commandVars, disturbed>>
    BY <1>3 DEF VsyncLoss
  <2>2. inbox' \in Seq(Messages) /\ Pending(inbox') = Pending(inbox) + 1
    BY <1>1, <2>1, PendingAppend DEF Messages
  <2>3. Work' = Work
    BY <2>1 DEF Recovering, guardVars
  <2>4. PICK p, w : p = Pending(inbox') /\ w = Work
    OBVIOUS
  <2>5. losses' \in 0 .. MaxLosses /\ answered' \in Nat /\ answered' + p + w <= losses'
    BY <1>1, <1>2, <2>1, <2>2, <2>4 DEF guardVars
  <2>6. Answers'
    BY <2>2, <2>3, <2>4, <2>5 DEF Answers
  <2>7. StreamSets' /\ Flags' /\ Places' /\ Tries'
    BY <1>2, <2>1 DEF StreamSets, Flags, Places, Tries, driverVars, guardVars, commandVars
  <2> QED BY <2>6, <2>7 DEF EncoderTypes
<1>4. CASE SendSessionCmd
  <2>1. /\ guard = "connect" /\ guard' = "recv" /\ session' \in BOOLEAN
        /\ \E msg \in {"down", "up", "fail"} : inbox' = Append(inbox, msg)
        /\ UNCHANGED <<driverVars, losses, nl_connected, count, looping, quitting,
                       encode_streams, lost, answered, commandVars, disturbed>>
    BY <1>4 DEF SendSessionCmd, GuardGoes
  <2>2. inbox' \in Seq(Messages) /\ Pending(inbox') = Pending(inbox)
    BY <1>1, <2>1, PendingAppend DEF Messages
  <2>3. Work' = 0 /\ Work = 0
    BY <2>1 DEF Recovering
  <2>4. Answers'
    BY <1>1, <2>1, <2>2, <2>3 DEF Answers
  <2>5. StreamSets' /\ Flags' /\ Places' /\ Tries'
    BY <1>2, <2>1 DEF StreamSets, Flags, Places, Tries, driverVars, commandVars, GuardSteps
  <2> QED BY <2>4, <2>5 DEF EncoderTypes
<1>5. CASE SessionStatus
  <2>1. /\ guard = "recv" /\ inbox # <<>> /\ inbox' = Tail(inbox)
        /\ nl_connected' = (Head(inbox) = "up") /\ looping' = (looping \/ nl_connected')
        /\ count' = IF quitting \/ looping THEN count ELSE count - 1
        /\ guard' = IF quitting THEN "exited"
                    ELSE IF nl_connected' THEN "recv"
                    ELSE IF looping \/ count = 1 THEN "exited" ELSE "connect"
        /\ UNCHANGED <<driverVars, session, losses, quitting, encode_streams, lost, answered,
                       commandVars, disturbed>>
    BY <1>5 DEF SessionStatus, After
  <2>2. inbox' \in Seq(Messages) /\ Pending(inbox') <= Pending(inbox) /\ Pending(inbox') \in Nat
    <3>1. /\ Tail(inbox) \in Seq(Messages)
          /\ Pending(Tail(inbox)) + (IF Head(inbox) = "loss" THEN 1 ELSE 0) <= Pending(inbox)
      BY <1>1, <2>1, PendingTail
    <3>2. Pending(Tail(inbox)) \in Nat
      BY <3>1, PendingFinite
    <3>3. Pending(Tail(inbox)) <= Pending(inbox)
      BY <1>1, <3>1, <3>2
    <3> QED BY <2>1, <3>1, <3>2, <3>3
  <2>3. Work' = 0 /\ Work = 0
    BY <2>1 DEF Recovering
  <2>4. Answers'
    <3>1. PICK p : p = Pending(inbox')
      OBVIOUS
    <3>2. answered + p + 0 <= losses
      BY <1>1, <2>2, <2>3, <3>1
    <3> QED BY <1>1, <2>1, <2>2, <2>3, <3>1, <3>2 DEF Answers
  <2>5. StreamSets' /\ Flags' /\ Places'
    BY <1>2, <2>1 DEF StreamSets, Flags, Places, driverVars, commandVars, GuardSteps
  <2>6. Tries'
    BY <1>2, <2>1 DEF Tries, Flags
  <2> QED BY <2>4, <2>5, <2>6 DEF EncoderTypes
<1>6. CASE VsyncReq
  <2>1. /\ guard = "recv" /\ inbox # <<>> /\ Head(inbox) = "loss" /\ inbox' = Tail(inbox)
        /\ guard' = "state" /\ lost' = encoding /\ disturbed' \in BOOLEAN
        /\ UNCHANGED <<driverVars, session, losses, nl_connected, count, looping, quitting,
                       encode_streams, answered, commandVars>>
    BY <1>6 DEF VsyncReq
  <2>2. inbox' \in Seq(Messages) /\ Pending(inbox') + 1 <= Pending(inbox) /\ Pending(inbox') \in Nat
    BY <1>1, <2>1, PendingTail, PendingFinite
  <2>3. Work' = 1 /\ Work = 0
    BY <2>1 DEF Recovering
  <2>4. Answers'
    <3>1. PICK p : p = Pending(inbox')
      OBVIOUS
    <3>2. answered + p + 1 <= losses
      BY <1>1, <2>2, <2>3, <3>1
    <3> QED BY <1>1, <2>1, <2>2, <2>3, <3>1, <3>2 DEF Answers
  <2>5. StreamSets' /\ Flags' /\ Places' /\ Tries'
    BY <1>2, <2>1 DEF StreamSets, Flags, Places, Tries, driverVars, commandVars, GuardSteps
  <2> QED BY <2>4, <2>5 DEF EncoderTypes
<1>7. CASE Respond
  <2>1. /\ guard = "respond" /\ answered' = answered + 1 /\ lost' = {}
        /\ nl_connected' = nl_connected /\ looping' = (looping \/ nl_connected)
        /\ count' = IF quitting \/ looping THEN count ELSE count - 1
        /\ guard' = IF quitting THEN "exited"
                    ELSE IF nl_connected THEN "recv"
                    ELSE IF looping \/ count = 1 THEN "exited" ELSE "connect"
        /\ UNCHANGED <<driverVars, messageVars, quitting, encode_streams, commandVars, disturbed>>
    BY <1>7 DEF Respond, After
  <2>2. Work' = 0 /\ Work = 1 /\ Pending(inbox') = Pending(inbox)
    BY <2>1 DEF Recovering, messageVars
  <2>3. Answers'
    BY <1>1, <2>1, <2>2 DEF Answers, messageVars
  <2>4. StreamSets' /\ Flags' /\ Places'
    BY <1>2, <2>1 DEF StreamSets, Flags, Places, driverVars, messageVars, commandVars, GuardSteps
  <2>5. Tries'
    BY <1>2, <2>1 DEF Tries, Flags
  <2> QED BY <2>3, <2>4, <2>5 DEF EncoderTypes
<1>8. CASE Sigstop
  <2>1. /\ quitting' = TRUE /\ guard' = "connect" /\ lost' = {}
        /\ UNCHANGED <<driverVars, messageVars, nl_connected, count, looping, encode_streams,
                       answered, commandVars, disturbed>>
    BY <1>8 DEF Sigstop
  <2>2. Work' = 0 /\ Pending(inbox') = Pending(inbox)
    BY <2>1 DEF Recovering, messageVars
  <2>3. Answers'
    BY <1>1, <2>1, <2>2 DEF Answers, messageVars
  <2>4. StreamSets' /\ Flags' /\ Places' /\ Tries'
    BY <1>2, <2>1 DEF StreamSets, Flags, Places, Tries, driverVars, messageVars, commandVars,
                      GuardSteps
  <2> QED BY <2>3, <2>4 DEF EncoderTypes
<1> QED BY <1>3, <1>4, <1>5, <1>6, <1>7, <1>8

\* The other steps of a recovery, and those of a command, leave the messages alone.
LEMMA AnswersKept ==
  ASSUME Answers, UNCHANGED <<messageVars, answered>>, Recovering' = Recovering
  PROVE  Answers'
BY DEF Answers, messageVars

LEMMA RecoveryTyped ==
  ASSUME EncoderTypes, GetState \/ GetStreams \/ StopStreams \/ GotoIdle \/ EnterPreview
                       \/ GetRunning \/ StartStreams
  PROVE  EncoderTypes'
<1> USE DEF EncoderTypes, StreamSets, Flags, Places, Tries, driverVars, messageVars, commandVars,
            GuardGoes, GuardSteps, Recovering
<1>1. CASE GetState
  BY <1>1, AnswersKept DEF GetState
<1>2. CASE GetStreams
  BY <1>2, AnswersKept DEF GetStreams, Encoding
<1>3. CASE StopStreams
  BY <1>3, AnswersKept DEF StopStreams, Drives, STOP_ENCODE
<1>4. CASE GotoIdle
  BY <1>4, AnswersKept DEF GotoIdle, Drives, ENTER_IDLE
<1>5. CASE EnterPreview
  BY <1>5, AnswersKept DEF EnterPreview, Drives, ENABLE_PREVIEW
<1>6. CASE GetRunning
  BY <1>6, AnswersKept DEF GetRunning, NoStreamsToRecover
<1>7. CASE StartStreams
  BY <1>7, AnswersKept DEF StartStreams, Drives, START_ENCODE
<1> QED BY <1>1, <1>2, <1>3, <1>4, <1>5, <1>6, <1>7

LEMMA CommandTyped ==
  ASSUME EncoderTypes, Command \/ CommandStep
  PROVE  EncoderTypes'
<1> USE DEF EncoderTypes, StreamSets, Flags, Places, Tries, driverVars, messageVars, guardVars,
            Phases, Recovering, Phase
<1>1. CASE Command
  <2>1. /\ te_opts'.stop \subseteq EncodeStreams /\ te_opts'.start \subseteq EncodeStreams
        /\ te_opts'.restart \subseteq EncodeStreams
    BY <1>1, EncoderBounds DEF Command
  <2> QED BY <1>1, <2>1, AnswersKept DEF Command
<1>2. ASSUME CommandStep
      PROVE  /\ te_opts'.stop \subseteq EncodeStreams /\ te_opts'.start \subseteq EncodeStreams
             /\ te_opts'.restart \subseteq EncodeStreams /\ te_before' \subseteq EncodeStreams
             /\ UNCHANGED <<messageVars, guardVars>> /\ disturbed' \in BOOLEAN /\ te' \in Phases
  <2>1. te_opts' \in {te_opts, NoOptions} /\ te_before' \in {te_before, {}}
    BY <1>2 DEF CommandStep, LookStop, StopEncode, Idle, Setup, Preview, LookStart, StartEncode
  <2>2. /\ UNCHANGED <<messageVars, guardVars>> /\ disturbed' \in BOOLEAN /\ te' \in Phases
    BY <1>2 DEF CommandStep, LookStop, StopEncode, Idle, Setup, Preview, LookStart, StartEncode
  <2> QED BY <2>1, <2>2 DEF NoOptions
<1>3. ASSUME CommandStep
      PROVE  /\ encoding' \subseteq EncodeStreams /\ te_streams' \subseteq EncodeStreams
             /\ iav_state' \in {"idle", "preview", "encoding"}
  <2>1. stop_stream_id \subseteq EncodeStreams /\ start_stream_id \subseteq EncodeStreams
    BY DEF stop_stream_id, start_stream_id
  <2>2. CASE LookStop
    BY <2>1, <2>2 DEF LookStop
  <2>3. CASE StopEncode
    BY <2>3 DEF StopEncode, STOP_ENCODE
  <2>4. CASE Idle
    BY <2>4 DEF Idle, ENTER_IDLE
  <2>5. CASE Setup
    BY <2>5 DEF Setup
  <2>6. CASE Preview
    BY <2>6 DEF Preview, ENABLE_PREVIEW
  <2>7. CASE LookStart
    BY <2>1, <2>7 DEF LookStart
  <2>8. CASE StartEncode
    BY <2>8 DEF StartEncode, START_ENCODE
  <2> QED BY <1>3, <2>2, <2>3, <2>4, <2>5, <2>6, <2>7, <2>8 DEF CommandStep
<1>4. CASE CommandStep
  BY <1>2, <1>3, <1>4, AnswersKept
<1> QED BY <1>1, <1>4

LEMMA EncoderTypesInductive == EncoderTypes /\ [EncoderNext]_encoderVars => EncoderTypes'
<1>1. EncoderTypes /\ UNCHANGED encoderVars => EncoderTypes'
  BY DEF EncoderTypes, StreamSets, Flags, Places, Tries, Answers, Recovering, encoderVars,
         driverVars, messageVars, guardVars, commandVars
<1> QED BY <1>1, MessagesTyped, RecoveryTyped, CommandTyped DEF EncoderNext, GuardStep, Recovery

LEMMA EncoderTypesImply == EncoderTypes => EncoderTypeOK
<1> SUFFICES ASSUME EncoderTypes PROVE EncoderTypeOK
  OBVIOUS
<1>1. inbox \in Seq(Messages) /\ Pending(inbox) \in Nat
  BY PendingFinite DEF EncoderTypes, Answers
<1>2. losses \in 0 .. MaxLosses /\ answered \in 0 .. MaxLosses
  BY <1>1, EncoderBounds DEF EncoderTypes, Answers
<1> QED BY <1>1, <1>2 DEF EncoderTypes, StreamSets, Flags, Places, Tries, Messages, EncoderTypeOK

-----------------------------------------------------------------------------
(* All of them: whichever programs a behaviour has, the others stay as they were. *)

LEMMA DevicesSteps ==
  ASSUME [DevicesNext]_devicesVars
  PROVE  [Next]_vars /\ [IrCutNext]_ircutVars /\ [EncoderNext]_encoderVars
         /\ [RecorderNext]_recorderVars
BY DEF DevicesNext, devicesVars

LEMMA DevicesStarts ==
  ASSUME DevicesInit
  PROVE  /\ Init /\ (IrCutInit \/ IrCutOff) /\ (EncoderInit \/ EncoderOff)
         /\ (RecorderInit \/ RecorderOff)
BY DEF DevicesInit

DevicesInv == IrCutInv /\ EncoderInv /\ EncoderTypes /\ RecorderInv

\* The composition keeps what its programs keep alone, and every variable its type.
THEOREM DevicesSafe ==
  DevicesSpec => [](/\ DevicesTypeOK /\ MutualExclusion /\ NeverWedged
                    /\ ManualModeKept /\ RecoveryRestores /\ FilesSound)
<1>1. DevicesInit => Init /\ DevicesInv
  BY DevicesStarts, IrCutInvInit, EncoderInvInit, EncoderTypesInit, RecorderInvInit
     DEF DevicesInv
<1>2. [DevicesNext]_devicesVars => [Next]_vars
  BY DevicesSteps
<1>3. DevicesInv /\ [DevicesNext]_devicesVars => DevicesInv'
  BY DevicesSteps, IrCutInductive, EncoderInductive, EncoderTypesInductive, RecorderInductive
     DEF DevicesInv
<1>4. DevicesSpec => []LockInv
  BY <1>1, <1>2, LockInvariant, PTL DEF DevicesSpec, Spec
<1>5. LockInv /\ DevicesInv => /\ DevicesTypeOK /\ MutualExclusion /\ NeverWedged
                              /\ ManualModeKept /\ RecoveryRestores /\ FilesSound
  <2>1. LockInv => TypeOK /\ MutualExclusion /\ NeverWedged
    BY LockFollows
  <2>2. IrCutInv => IrCutTypeOK /\ ManualModeKept
    BY ManualFollows
  <2>3. EncoderInv /\ EncoderTypes => EncoderTypeOK /\ RecoveryRestores
    BY EncoderTypesImply DEF EncoderInv, RecoveryAt, RecoveryRestores
  <2>4. RecorderInv => RecorderTypeOK /\ FilesSound
    BY RecorderInvSound
  <2> QED BY <2>1, <2>2, <2>3, <2>4 DEF DevicesInv, DevicesTypeOK
<1> QED BY <1>1, <1>3, <1>4, <1>5, PTL DEF DevicesSpec
=============================================================================
