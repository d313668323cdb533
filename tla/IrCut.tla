-------------------------------- MODULE IrCut --------------------------------
(***************************************************************************)
(* IrCut_Test.c: the menu sets day, night or automatic mode while the      *)
(* library of the infrared filter calls CallBackDNMode from its own thread *)
(* when the light changes.  A mode is three things: what the image library *)
(* is told (img_set_bw_mode), the mode kept in g_DNMode, and the two pins  *)
(* that drive the filter.  The callback does all of it under g_CtMsgLock,  *)
(* the menu only the assignments in the middle.                            *)
(***************************************************************************)
EXTENDS Integers

VARIABLES
  g_Auto, g_DNMode,     \* mode 0 is day, 1 is night
  bw_mode,              \* what img_set_bw_mode told the image library last
  pin83, pin84,
  command,              \* of the menu: "off", "none", "day", "night", "auto"
  commandStep,          \* "idle", "assign", "pin83", "pin84"
  callback,             \* "idle", "pin83", "pin84": in CallBackDNMode, g_CtMsgLock held
  pSetDNMode,           \* the mode the library asks for
  commanded                 \* history: the mode of the last command that was carried out

ircutVars == <<g_Auto, g_DNMode, bw_mode, pin83, pin84, command, commandStep,
               callback, pSetDNMode, commanded>>

IrCutStart(cmd) ==
  /\ g_Auto = TRUE /\ g_DNMode = 0 /\ bw_mode = 0 /\ pin83 = 1 /\ pin84 = 0
  /\ command = cmd /\ commandStep = "idle"
  /\ callback = "idle" /\ pSetDNMode = 0 /\ commanded = 0
IrCutOff == IrCutStart("off")
IrCutInit == IrCutStart("none")

ModeOf(cmd) == IF cmd = "night" THEN 1 ELSE 0
Filter == IF pin83 = 0 /\ pin84 = 1 THEN 1 ELSE IF pin83 = 1 /\ pin84 = 0 THEN 0 ELSE 2

\* 0, 1 or 2 typed: nothing more happens when the image library refuses.
SetMode ==
  /\ command # "off" /\ commandStep = "idle"
  /\ command' \in {"day", "night", "auto"}
  /\ bw_mode' = ModeOf(command')
  /\ commandStep' = "assign"
  /\ UNCHANGED <<g_Auto, g_DNMode, pin83, pin84, callback, pSetDNMode, commanded>>

AssignMode ==
  /\ commandStep = "assign"
  /\ callback = "idle"
  /\ g_Auto' = (command = "auto") /\ g_DNMode' = ModeOf(command)
  /\ commandStep' = "pin83"
  /\ UNCHANGED <<bw_mode, pin83, pin84, command, callback, pSetDNMode, commanded>>

MenuPin83 ==
  /\ commandStep = "pin83"
  /\ pin83' = 1 - ModeOf(command)
  /\ commandStep' = "pin84"
  /\ UNCHANGED <<g_Auto, g_DNMode, bw_mode, pin84, command, callback, pSetDNMode, commanded>>

MenuPin84 ==
  /\ commandStep = "pin84"
  /\ pin84' = ModeOf(command)
  /\ commandStep' = "idle"
  /\ commanded' = ModeOf(command)
  /\ UNCHANGED <<g_Auto, g_DNMode, bw_mode, pin83, command, callback, pSetDNMode>>

ActsInManual == command # "off"                                          \* mutant
CallbackActs == command # "off" /\ g_Auto

\* CallBackDNMode: g_DNMode follows only when the image library accepts the mode, the
\* pins always do.
CallBackDNMode ==
  /\ callback = "idle" /\ CallbackActs
  /\ pSetDNMode' \in {0, 1}
  /\ \/ bw_mode' = pSetDNMode' /\ g_DNMode' = pSetDNMode'
     \/ UNCHANGED <<bw_mode, g_DNMode>>
  /\ callback' = "pin83"
  /\ UNCHANGED <<g_Auto, pin83, pin84, command, commandStep, commanded>>

CallbackPin83 ==
  /\ callback = "pin83"
  /\ pin83' = 1 - pSetDNMode
  /\ callback' = "pin84"
  /\ UNCHANGED <<g_Auto, g_DNMode, bw_mode, pin84, command, commandStep, pSetDNMode, commanded>>

CallbackPin84 ==
  /\ callback = "pin84"
  /\ pin84' = pSetDNMode
  /\ callback' = "idle"
  /\ UNCHANGED <<g_Auto, g_DNMode, bw_mode, pin83, command, commandStep, pSetDNMode, commanded>>

IrCutNext == SetMode \/ AssignMode \/ MenuPin83 \/ MenuPin84
             \/ CallBackDNMode \/ CallbackPin83 \/ CallbackPin84

IrCutSpec == IrCutInit /\ [][IrCutNext]_ircutVars

-----------------------------------------------------------------------------

\* Every variable has its type.
IrCutTypeOK ==
  /\ g_Auto \in BOOLEAN
  /\ {g_DNMode, bw_mode, pin83, pin84, pSetDNMode, commanded} \subseteq {0, 1}

\* Once day or night is set by hand, the mode kept and the filter stay what was asked
\* for, whatever the library's thread was doing when the command came.
ManualModeKept ==
  commandStep = "idle" /\ ~ g_Auto => g_DNMode = commanded /\ Filter = commanded
=============================================================================
