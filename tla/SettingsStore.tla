--------------------------- MODULE SettingsStore ---------------------------
(***************************************************************************)
(* The settings store (src/src/config/src/lib.rs): one in-memory record,   *)
(* one file, and two ways to write the one to the other.  settings_save    *)
(* writes on the calling thread; settings_save_async leaves a snapshot in  *)
(* a one-place slot for a worker, which is drained and joined at shutdown. *)
(*                                                                         *)
(* The record is abstracted to its version: every setter makes the next    *)
(* one, so "older" is "lost a change".  A write replaces the file by a     *)
(* rename, under a lock nothing else looks at: it is one step.             *)
(***************************************************************************)
EXTENDS Naturals

CONSTANTS
  MaxVersion,   \* bound on the changes made to the settings
  MaxFailures   \* bound on the writes the file system refuses

ASSUME MaxVersionAssumption == MaxVersion \in Nat
ASSUME MaxFailuresAssumption == MaxFailures \in Nat

Versions == 0 .. MaxVersion

VARIABLES
  data,          \* the version in memory
  disk,          \* the version in settings.json
  slot, stop,    \* SavePending: {} or the one queued version; told to stop
  worker, held,  \* the worker thread, and the snapshot it took
  ui, ui_snap,   \* the UI thread inside a handler, and its snapshot
  wanted,        \* the version on disk the page being loaded relies on
  main, main_snap,  \* the main thread at shutdown, and its snapshot
  queued, drained,  \* history: the last version queued, the last drained
  failures       \* writes refused so far

pending == <<slot, stop>>
uiThread == <<ui, ui_snap, wanted>>
mainThread == <<main, main_snap>>
ssvars == <<data, disk, pending, worker, held, uiThread, mainThread, queued,
          drained, failures>>

StoreInit ==
  /\ data = 0 /\ disk = 0
  /\ slot = {} /\ stop = FALSE
  /\ worker = "absent" /\ held = 0
  /\ ui = "idle" /\ ui_snap = 0 /\ wanted = 0
  /\ main = "running" /\ main_snap = 0
  /\ queued = 0 /\ drained = 0 /\ failures = 0
-----------------------------------------------------------------------------
(* `save_data`, whose result no caller looks at. *)
SaveData(snap) ==
  \/ disk' = snap /\ UNCHANGED failures
  \/ failures < MaxFailures /\ failures' = failures + 1 /\ UNCHANGED disk

(* A setter: `state().lock().data.<field> = v`. *)
Change ==
  /\ data < MaxVersion
  /\ data' = data + 1
-----------------------------------------------------------------------------
(* The UI thread: setSettingValue and saveServerUrl save in the            *)
(* background, navigateMain saves and then loads the page.  The main       *)
(* thread leaves "running" after the last browser has closed, and no       *)
(* handler runs after that (CefLayers, DrainedBeforeTeardown).             *)

SetAndSnapshot(how) ==
  /\ main = "running" /\ ui = "idle"
  /\ Change
  /\ ui' = how /\ ui_snap' = data'
  /\ UNCHANGED <<disk, pending, worker, held, wanted, mainThread, queued, drained,
                 failures>>

SaveAsync ==
  /\ ui = "async"
  /\ ui' = "idle"
  /\ IF stop
     THEN UNCHANGED <<slot, worker, queued>>
     ELSE /\ slot' = {ui_snap} /\ queued' = ui_snap
          /\ worker' = IF worker = "absent" THEN "waiting" ELSE worker
  /\ UNCHANGED <<data, disk, stop, held, ui_snap, wanted, mainThread, drained,
                 failures>>

(* `settings_save`, then `load_url`. *)
SaveAndNavigate ==
  /\ ui = "sync"
  /\ SaveData(ui_snap)
  /\ ui' = "idle" /\ wanted' = ui_snap
  /\ UNCHANGED <<data, pending, worker, held, ui_snap, mainThread, queued, drained>>

(* The renderer of that page reads the file (`bridge_allowed_for`).        *)
RendererReads ==
  /\ wanted > 0
  /\ wanted' = 0
  /\ UNCHANGED <<data, disk, pending, worker, held, ui, ui_snap, mainThread, queued,
                 drained, failures>>
-----------------------------------------------------------------------------
(* `save_worker_loop` *)

Take_UnlessStopped ==
  /\ worker = "waiting" /\ slot # {} /\ ~stop
  /\ held' \in slot
  /\ slot' = {}
  /\ worker' = "writing"
  /\ UNCHANGED <<data, disk, stop, uiThread, mainThread, queued, drained, failures>>

Take ==
  /\ worker = "waiting" /\ slot # {}
  /\ held' \in slot
  /\ slot' = {}
  /\ worker' = "writing"
  /\ UNCHANGED <<data, disk, stop, uiThread, mainThread, queued, drained, failures>>

Write ==
  /\ worker = "writing"
  /\ SaveData(held)
  /\ drained' = held
  /\ worker' = "waiting"
  /\ UNCHANGED <<data, pending, held, uiThread, mainThread, queued>>

Exit_AtOnce ==
  /\ worker = "waiting" /\ stop
  /\ worker' = "gone"
  /\ UNCHANGED <<data, disk, pending, held, uiThread, mainThread, queued, drained,
                 failures>>

(* A stop with a snapshot still queued writes it first. *)
Exit ==
  /\ worker = "waiting" /\ stop /\ slot = {}
  /\ worker' = "gone"
  /\ UNCHANGED <<data, disk, pending, held, uiThread, mainThread, queued, drained,
                 failures>>
-----------------------------------------------------------------------------
(* `shutdown_runtime` *)

(* `window_geometry::controller().persist()`, with the snapshot of the     *)
(* settings_save that follows.                                             *)
Persist ==
  /\ main = "running" /\ ui = "idle"
  /\ Change \/ UNCHANGED data
  /\ main' = "saving" /\ main_snap' = data'
  /\ UNCHANGED <<disk, pending, worker, held, uiThread, queued, drained, failures>>

Save ==
  /\ main = "saving"
  /\ SaveData(main_snap)
  /\ main' = "saved"
  /\ UNCHANGED <<data, pending, worker, held, uiThread, main_snap, queued, drained>>

StopWorker_Unmarked ==
  /\ main = "saved"
  /\ stop' = (slot = {} /\ worker # "writing") /\ main' = "joining"
  /\ UNCHANGED <<data, disk, slot, worker, held, uiThread, main_snap, queued,
                 drained, failures>>

(* `settings_shutdown_save_worker`: stop, then join. *)
StopWorker ==
  /\ main = "saved"
  /\ stop' = TRUE /\ main' = "joining"
  /\ UNCHANGED <<data, disk, slot, worker, held, uiThread, main_snap, queued,
                 drained, failures>>

Joined ==
  /\ main = "joining" /\ worker \in {"absent", "gone"}
  /\ main' = "stopped"
  /\ UNCHANGED <<data, disk, pending, worker, held, uiThread, main_snap, queued,
                 drained, failures>>

Done == main = "stopped" /\ wanted = 0 /\ UNCHANGED ssvars
-----------------------------------------------------------------------------
UiThread == (\E how \in {"async", "sync"} : SetAndSnapshot(how))
            \/ SaveAsync \/ SaveAndNavigate
Worker == Take \/ Write \/ Exit
MainThread == Persist \/ Save \/ StopWorker \/ Joined

StoreNext == UiThread \/ RendererReads \/ Worker \/ MainThread \/ Done

(* A started handler returns and the worker runs; a shutdown that has      *)
(* begun goes on.  Nothing obliges the user to change a setting or to quit.*)
StoreFairness ==
  /\ WF_ssvars(SaveAsync \/ SaveAndNavigate)
  /\ WF_ssvars(Worker)
  /\ WF_ssvars(Save \/ StopWorker \/ Joined)

StoreSpec == StoreInit /\ [][StoreNext]_ssvars /\ StoreFairness
-----------------------------------------------------------------------------
StoreTypeOK ==
  /\ data \in Versions /\ disk \in Versions /\ held \in Versions
  /\ ui_snap \in Versions /\ wanted \in Versions /\ main_snap \in Versions
  /\ queued \in Versions /\ drained \in Versions
  /\ slot = {} \/ \E v \in Versions : slot = {v}
  /\ stop \in BOOLEAN /\ failures \in 0 .. MaxFailures
  /\ worker \in {"absent", "waiting", "writing", "gone"}
  /\ ui \in {"idle", "async", "sync"}
  /\ main \in {"running", "saving", "saved", "joining", "stopped"}

(* config/src/lib.rs:826: "only the most recent snapshot is written": a    *)
(* snapshot waiting in the slot is the last one queued, and newer than any *)
(* the worker holds or has written.                                        *)
SlotIsNewest ==
  \A v \in slot : v = queued /\ v > drained /\ (worker = "writing" => v > held)

(* lib.rs:679-681: shutdown drains what was queued: once it has joined the *)
(* worker, the last snapshot queued has been through save_data.            *)
DrainLosesNothing == main = "stopped" => drained = queued /\ slot = {}

(* The join at shutdown returns: the worker is told, and exits. *)
StopReturns == main = "joining" ~> main = "stopped"

(* A queued change is written, or replaced by a newer one that is, with or *)
(* without a shutdown.                                                     *)
QueuedIsWritten == \A v \in Versions : v \in slot ~> drained >= v

(* lib.rs:681: the join at shutdown is there "so nothing is lost at exit": *)
(* no write having failed, the file ends with the settings in memory.      *)
NothingLostAtExit == main = "stopped" /\ failures = 0 => disk = data

(* business_overlay.rs:232-237: the new server URL "has to be on disk      *)
(* before the load starts": the renderer finds it there.                   *)
RendererFindsServer == [][RendererReads /\ failures = 0 => disk >= wanted]_ssvars
=============================================================================
