-------------------------- MODULE MCProcessParts ---------------------------
(***************************************************************************)
(* The manager thread, the settings store and the message pump of macOS,   *)
(* which share nothing: `part` says which of them a behaviour is about,    *)
(* and the others keep still and owe no step.                              *)
(*                                                                         *)
(* Three messages in the manager's queue: a hide, a suspend and a resume   *)
(* with a shutdown between any two of them.  Four changes of settings: one *)
(* in the worker's hands, one in the slot, one saved by navigateMain and   *)
(* the window geometry at the end; one refused write.  Two threads of CEF, *)
(* so that one asks for work while another is between flag and signal.     *)
(***************************************************************************)
EXTENDS Manager, SettingsStore, CefPump

VARIABLE part

PartsInit ==
  /\ part \in {"manager", "settings", "pump"}
  /\ ManagerInit /\ StoreInit /\ PumpInit

PartsNext ==
  \/ part = "manager" /\ ManagerNext /\ UNCHANGED <<part, ssvars, cpvars>>
  \/ part = "settings" /\ StoreNext /\ UNCHANGED <<part, mgvars, cpvars>>
  \/ part = "pump" /\ PumpNext /\ UNCHANGED <<part, mgvars, ssvars>>

(* ManagerFairness, StoreFairness and PumpFairness, for the part that runs.*)
ManagerRuns(A) == part = "manager" /\ A
StoreRuns(A) == part = "settings" /\ A
PumpRuns(A) == part = "pump" /\ A
PartsFairness ==
  /\ WF_mgvars(ManagerRuns(StartManager \/ InstallHandler))
  /\ WF_mgvars(ManagerRuns(Signal)) /\ WF_mgvars(ManagerRuns(RunHandler))
  /\ WF_mgvars(ManagerRuns(Loop))
  /\ WF_ssvars(StoreRuns(SaveAsync \/ SaveAndNavigate))
  /\ WF_ssvars(StoreRuns(Worker))
  /\ WF_ssvars(StoreRuns(Save \/ StopWorker \/ Joined))
  /\ WF_cpvars(PumpRuns(MainPump))
  /\ SF_cpvars(PumpRuns(SourceFires)) /\ SF_cpvars(PumpRuns(TimerFires))
  /\ \A t \in CefThreads : WF_cpvars(PumpRuns(Schedules(t)))

partsvars == <<part, mgvars, ssvars, cpvars>>
PartsSpec == PartsInit /\ [][PartsNext]_partsvars /\ PartsFairness
=============================================================================
