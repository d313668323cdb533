------------------------------- MODULE MCDevices -------------------------------
(* Programs that share a device or a semaphore, one group of them at a time. *)
EXTENDS SemaphoreMutex, IrCut, MCEncoderControl, Recorder

VARIABLE semcli   \* the programs of this behaviour are those of semcli.cpp

DevicesInit ==
  \/ semcli = TRUE /\ Init /\ IrCutOff /\ EncoderOff /\ RecorderOff
  \/ semcli = FALSE /\ Init /\ IrCutInit /\ EncoderOff /\ RecorderOff
  \/ semcli = FALSE /\ Init /\ IrCutOff /\ EncoderInit /\ RecorderOff
  \/ semcli = FALSE /\ Init /\ IrCutOff /\ EncoderOff /\ RecorderInit

DevicesNext ==
  \/ semcli /\ Next /\ UNCHANGED <<semcli, ircutVars, encoderVars, recorderVars>>
  \/ IrCutNext /\ UNCHANGED <<semcli, vars, encoderVars, recorderVars>>
  \/ EncoderNext /\ UNCHANGED <<semcli, vars, ircutVars, recorderVars>>
  \/ RecorderNext /\ UNCHANGED <<semcli, vars, ircutVars, encoderVars>>

devicesVars == <<semcli, vars, ircutVars, encoderVars, recorderVars>>

DevicesSpec ==
  /\ DevicesInit /\ [][DevicesNext]_devicesVars
  /\ EncoderFairness /\ RecorderFairness

\* Every variable of the programs has its type.
DevicesTypeOK == TypeOK /\ IrCutTypeOK /\ EncoderTypeOK /\ RecorderTypeOK
=============================================================================
