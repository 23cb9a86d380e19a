----------------------------- MODULE MCLifecycles -----------------------------
(* Model values and bounds for what is started, saved, installed and logged  *)
(* in: the settings tables through boots and saves, the component runtime,   *)
(* the module installers and the console session.  The parts share no state, *)
(* so each behaviour runs one of them while the others rest.                 *)
EXTENDS SettingsStore, Runtime, ModuleInstall, ConsoleSession

VARIABLE part

lifecycleVars == <<part, settingsVars, runtimeVars, setupVars, consoleVars>>

MCRequireGraphs == {g \in [Components -> SUBSET Components] : \A x \in Components : x \notin g[x]}
NoRequirements == [x \in Components |-> {}]

LifecyclesInit ==
  /\ part \in {"settings", "runtime", "setup", "console"}
  /\ SettingsInit /\ (part # "settings" => table = Empty)
  /\ RuntimeInit /\ (part # "runtime" => requires = NoRequirements)
  /\ SetupInit /\ (part # "setup" => bakedIn = {} /\ ~matrixReady)
  /\ ConsoleInit

LifecyclesNext ==
  /\ UNCHANGED part
  /\ \/ part = "settings" /\ UNCHANGED <<runtimeVars, setupVars, consoleVars>> /\ SettingsNext
     \/ part = "runtime" /\ UNCHANGED <<settingsVars, setupVars, consoleVars>> /\ RuntimeNext
     \/ part = "setup" /\ UNCHANGED <<settingsVars, runtimeVars, consoleVars>> /\ SetupNext
     \/ part = "console" /\ UNCHANGED <<settingsVars, runtimeVars, setupVars>> /\ ConsoleNext

(* The fairness of the parts, each of which holds a part that rests.         *)
LifecyclesSpec ==
  /\ LifecyclesInit /\ [][LifecyclesNext]_lifecycleVars
  /\ WF_runtimeVars(part = "runtime" /\ RuntimeStep)
  /\ \A i \in Installs : WF_setupVars(part = "setup" /\ InstallStep(i))
  /\ WF_consoleVars(part = "console" /\ PollStep)

-----------------------------------------------------------------------------
(* A process that is up is what it was told to be: the configuration the     *)
(* next process loads is the one this one serves, no boot changes a stored   *)
(* section, what was not set up waits for something missing, and a shutdown  *)
(* leaves nothing behind that has a working disposer (Config.save, main,     *)
(* Runtime.start, shutdown).                                                 *)
ProcessesAreSound ==
  /\ STypeOK /\ RestartKeepsConfig /\ BootKeepsSections
  /\ RuntimeTypeOK /\ LeftOutHasMissing /\ NothingLeftBehind

(* No step takes away what another one stands on: a component is torn down   *)
(* after those that require it, and a removed module leaves the packages of  *)
(* the other one (Runtime.shutdown, remove_router).                          *)
NothingIsPulledAway == [][DependentsStopFirst /\ SiblingSurvives]_lifecycleVars

(* What runs in the background ends: a boot whose setups raise or wait in a  *)
(* circle, an install that meets a failing pip or a removal, and a login     *)
(* that nobody approves (Runtime.start, _run_memory_install,                 *)
(* poll_device_token).                                                       *)
EverythingEnds == BootEnds /\ InstallsComeToAnEnd /\ LoginEnds
=============================================================================
