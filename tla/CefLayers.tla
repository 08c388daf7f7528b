----------------------------- MODULE CefLayers -----------------------------
(***************************************************************************)
(* The browsers of the application and their end (src/src/jfn_cef/src/     *)
(* browsers.rs, client/lifecycle.rs, client/tasks.rs).  A layer is one CEF *)
(* browser drawn over the video: the main web client, the server selection *)
(* overlay, an about box.  Browsers are created and closed asynchronously  *)
(* by CEF, which reports back on its UI thread; the manager thread closes  *)
(* them all at shutdown and then releases the main thread, which tears     *)
(* down what they use.                                                     *)
(*                                                                         *)
(* A step of the UI thread (a posted task, a page message, a CEF callback) *)
(* is one action.                                                          *)
(***************************************************************************)
EXTENDS Sequences, FiniteSets, SequencesExt

CONSTANTS
  Main, Overlay,    \* the two layers created at boot
  Abouts,           \* the about boxes the user may open, one at a time
  NoLayer,
  Disturbances      \* which of {"reset", "late", "timeout"} may happen at all

Layers == {Main, Overlay} \union Abouts

ASSUME LayersAssumption ==
  /\ Main # Overlay /\ Main \notin Abouts /\ Overlay \notin Abouts
  /\ NoLayer \notin Layers

VARIABLES
  cef,              \* the browser of a layer, as CEF sees it
  has_browser, state, pending_internal_reset, closed,   \* Inner, per layer
  main_loaded,      \* Inner.loaded of the main layer
  registered,       \* Browsers.layers
  active_stack, focus,
  dismissed,        \* the overlay's page has dismissed itself
  tasks,            \* tasks posted to the UI thread
  shutting_down,    \* SHUTTING_DOWN
  manager,          \* the manager thread: idle, collecting, waiting, exited
  wait_set,         \* the layers whose OnBeforeClose it waits for
  main,             \* the main thread: boot, overlay, loading, parked, torn
  may               \* the disturbances this behaviour may have

inner == <<has_browser, state, pending_internal_reset, closed, main_loaded>>
registry == <<registered, active_stack, focus>>
threads == <<shutting_down, manager, wait_set, main>>
moving == <<cef, inner, registry, dismissed, tasks, threads>>
vars == <<moving, may>>

BrowserStates == {"unborn", "creating", "live", "closing", "gone"}
ResetStates == {"NORMAL", "PENDING_RESET", "RECREATING"}
HasSlot(l) == cef[l] \in {"live", "closing"}

Init ==
  /\ cef = [l \in Layers |-> "unborn"]
  /\ has_browser = [l \in Layers |-> FALSE]
  /\ state = [l \in Layers |-> "NORMAL"]
  /\ pending_internal_reset = [l \in Layers |-> FALSE]
  /\ closed = [l \in Layers |-> FALSE]
  /\ main_loaded = FALSE
  /\ registered = {} /\ active_stack = <<>> /\ focus = NoLayer
  /\ dismissed = FALSE /\ tasks = <<>>
  /\ shutting_down = FALSE
  /\ manager = "idle" /\ wait_set = {}
  /\ main = "boot"
  /\ may \in SUBSET Disturbances

(* The UI thread runs until the main thread has torn CEF down. *)
Running == main # "torn"
-----------------------------------------------------------------------------
(* The registry *)

Top(stack) == IF stack = <<>> THEN NoLayer ELSE stack[Len(stack)]

(* The stack with a layer, which is in it once, taken out. *)
Without(stack, l) ==
  IF \A n \in DOMAIN stack : stack[n] # l THEN stack
  ELSE LET k == CHOOSE n \in DOMAIN stack : stack[n] = l
       IN [n \in 1 .. Len(stack) - 1 |-> IF n < k THEN stack[n] ELSE stack[n + 1]]

(* `jfn_browsers_set_active`: promote, and move the focus. *)
SetActive(l) ==
  IF Top(active_stack) = l
  THEN UNCHANGED <<active_stack, focus>>
  ELSE /\ active_stack' = Append(Without(active_stack, l), l)
       /\ focus' = l

RemoveLayer_KeepsStack(l) ==
  registered' = registered \ {l} /\ UNCHANGED <<active_stack, focus>>

(* `jfn_browsers_remove`: no refocus while everything is closing. *)
RemoveLayer(l) ==
  LET stack == Without(active_stack, l)
  IN /\ registered' = registered \ {l}
     /\ active_stack' = stack
     /\ focus' = CASE Top(active_stack) # l -> focus
                   [] shutting_down -> NoLayer
                   [] OTHER -> Top(stack)

(* `jfn_browsers_create` and `create`: registered at once, the browser     *)
(* follows.                                                                *)
Open(l) ==
  /\ cef[l] = "unborn"
  /\ cef' = [cef EXCEPT ![l] = "creating"]
  /\ registered' = registered \union {l}
  /\ UNCHANGED <<inner, active_stack, focus>>
-----------------------------------------------------------------------------
(* Pages and menus *)

OpenAbout(l) ==
  /\ main \in {"loading", "parked"}
  /\ "late" \in may \/ ~shutting_down
  /\ \A a \in Abouts : cef[a] \in {"unborn", "gone"}
  /\ Open(l)
  /\ UNCHANGED <<dismissed, tasks, threads>>

(* The browser's own close: aboutDismiss, or the overlay's window.close. *)
PageCloses(l) ==
  /\ Running /\ cef[l] = "live"
  /\ l \in Abouts \/ (l = Overlay /\ dismissed)
  /\ cef' = [cef EXCEPT ![l] = "closing"]
  /\ UNCHANGED <<inner, registry, dismissed, tasks, threads>>

OverlayPage == Running /\ cef[Overlay] \in {"live", "closing"}

DismissOverlay_Unselected ==
  /\ OverlayPage /\ ~dismissed
  /\ dismissed' = TRUE /\ focus' = Main
  /\ UNCHANGED <<cef, inner, registered, active_stack, tasks, threads>>

(* `dismissOverlay`: the main layer gets the input, if it is a layer yet. *)
DismissOverlay ==
  /\ OverlayPage /\ ~dismissed
  /\ dismissed' = TRUE
  /\ IF Main \in registered THEN SetActive(Main)
     ELSE UNCHANGED <<active_stack, focus>>
  /\ UNCHANGED <<cef, inner, registered, tasks, threads>>

(* `cancelServerConnectivity`: `reset` of the main layer. *)
Reset ==
  /\ "reset" \in may
  /\ OverlayPage /\ ~dismissed
  /\ state[Main] = "NORMAL" /\ cef[Main] # "unborn"
  /\ pending_internal_reset' = [pending_internal_reset EXCEPT ![Main] = TRUE]
  /\ IF has_browser[Main]
     THEN /\ state' = [state EXCEPT ![Main] = "RECREATING"]
          /\ cef' = IF HasSlot(Main) THEN [cef EXCEPT ![Main] = "closing"]
                    ELSE cef
     ELSE /\ state' = [state EXCEPT ![Main] = "PENDING_RESET"]
          /\ UNCHANGED cef
  /\ UNCHANGED <<has_browser, closed, main_loaded, registry, dismissed, tasks,
                 threads>>

MainLoads ==
  /\ Running /\ cef[Main] = "live" /\ ~main_loaded
  /\ main_loaded' = TRUE
  /\ UNCHANGED <<cef, has_browser, state, pending_internal_reset, closed,
                 registry, dismissed, tasks, threads>>
-----------------------------------------------------------------------------
(* CEF's callbacks *)

CreatedCallback(l) ==
  IF l \in registered /\ (l # Main \/ active_stack = <<>>)
  THEN SetActive(l)
  ELSE UNCHANGED <<active_stack, focus>>

NextState_Stuck(s) == IF s = "PENDING_RESET" THEN "RECREATING" ELSE s
(* `after_created` *)
NextState(s) == CASE s = "PENDING_RESET" -> "RECREATING"
                  [] s = "RECREATING" -> "NORMAL"
                  [] s = "NORMAL" -> "NORMAL"

ClosesAgain_UnlessReset(l) == state[l] = "PENDING_RESET"
(* A browser that arrives during shutdown, or that a reset overtook, is    *)
(* closed again instead of published.                                      *)
ClosesAgain(l) == shutting_down \/ state[l] = "PENDING_RESET"

OnAfterCreated(l) ==
  /\ Running /\ cef[l] = "creating"
  /\ closed' = [closed EXCEPT ![l] = FALSE]
  /\ main_loaded' = (main_loaded /\ l # Main)
  /\ IF shutting_down
     THEN UNCHANGED <<has_browser, state>>
     ELSE /\ has_browser' = [has_browser EXCEPT ![l] = TRUE]
          /\ state' = [state EXCEPT ![l] = NextState(state[l])]
  /\ IF ClosesAgain(l)
     THEN /\ cef' = [cef EXCEPT ![l] = "closing"]
          /\ UNCHANGED <<active_stack, focus>>
     ELSE /\ cef' = [cef EXCEPT ![l] = "live"]
          /\ CreatedCallback(l)
  /\ UNCHANGED <<pending_internal_reset, registered, dismissed, tasks, threads>>

(* `handle_on_before_close`: the waiters, the reset, then the registry,    *)
(* whose layer goes away with its first browser.                           *)
OnBeforeClose(l) ==
  /\ Running /\ cef[l] = "closing"
  /\ cef' = [cef EXCEPT ![l] = "gone"]
  /\ closed' = [closed EXCEPT ![l] = TRUE]
  /\ main_loaded' = (main_loaded \/ l = Main)
  /\ has_browser' = [has_browser EXCEPT ![l] = FALSE]
  /\ pending_internal_reset' = [pending_internal_reset EXCEPT ![l] = FALSE]
  /\ tasks' = IF pending_internal_reset[l] THEN Append(tasks, "recreate")
              ELSE tasks
  /\ IF l \in registered THEN RemoveLayer(l) ELSE UNCHANGED registry
  /\ UNCHANGED <<state, dismissed, threads>>
-----------------------------------------------------------------------------
(* The UI thread's tasks *)

(* ResetCreateTask *)
Recreate ==
  /\ Running /\ tasks # <<>> /\ Head(tasks) = "recreate"
  /\ tasks' = Tail(tasks)
  /\ cef' = IF shutting_down THEN cef ELSE [cef EXCEPT ![Main] = "creating"]
  /\ UNCHANGED <<inner, registry, dismissed, threads>>

(* CloseAndCollectTask: one snapshot is closed and shipped to the manager, *)
(* if that still waits for it.                                             *)
CloseAndCollect ==
  /\ Running /\ tasks # <<>> /\ Head(tasks) = "collect"
  /\ tasks' = Tail(tasks)
  /\ cef' = [l \in Layers |-> IF l \in registered /\ HasSlot(l) THEN "closing"
                              ELSE cef[l]]
  /\ IF manager = "collecting"
     THEN manager' = "waiting" /\ wait_set' = registered
     ELSE UNCHANGED <<manager, wait_set>>
  /\ UNCHANGED <<inner, registry, dismissed, shutting_down, main>>
-----------------------------------------------------------------------------
(* Shutdown *)

(* `jfn_shutdown_initiate`, from any thread: the flag, and a wake-up. *)
Initiate ==
  /\ ~shutting_down
  /\ "late" \in may \/ main \in {"loading", "parked"}
  /\ shutting_down' = TRUE
  /\ UNCHANGED <<cef, inner, registry, dismissed, tasks, manager, wait_set, main>>

ManagerWakes ==
  /\ manager = "idle" /\ shutting_down
  /\ manager' = "collecting"
  /\ tasks' = Append(tasks, "collect")
  /\ UNCHANGED <<cef, inner, registry, dismissed, shutting_down, wait_set, main>>

(* CLOSE_COLLECT_TIMEOUT: the wait set is empty. *)
CollectTimesOut ==
  /\ "timeout" \in may
  /\ manager = "collecting"
  /\ manager' = "waiting" /\ wait_set' = {}
  /\ UNCHANGED <<cef, inner, registry, dismissed, tasks, shutting_down, main>>

WaitForClose_First ==
  /\ manager = "waiting"
  /\ wait_set # {} => \E l \in wait_set : closed[l]
  /\ manager' = "exited"
  /\ UNCHANGED <<cef, inner, registry, dismissed, tasks, shutting_down,
                 wait_set, main>>

(* `wait_for_close`, for each in turn, and then `wake_main_loop`. *)
WaitForClose ==
  /\ manager = "waiting"
  /\ IF wait_set = {} THEN manager' = "exited" /\ UNCHANGED wait_set
     ELSE /\ \E l \in wait_set : closed[l] /\ wait_set' = wait_set \ {l}
          /\ UNCHANGED manager
  /\ UNCHANGED <<cef, inner, registry, dismissed, tasks, shutting_down, main>>

(* The main thread: two layers, the wait for the main one to load, the     *)
(* park, and the teardown.                                                 *)
Boot ==
  \/ /\ main = "boot" /\ Open(Main) /\ main' = "overlay"
     /\ UNCHANGED <<dismissed, tasks, shutting_down, manager, wait_set>>
  \/ /\ main = "overlay" /\ Open(Overlay) /\ main' = "loading"
     /\ UNCHANGED <<dismissed, tasks, shutting_down, manager, wait_set>>

WaitForLoad ==
  /\ main = "loading" /\ main_loaded
  /\ main' = "parked"
  /\ UNCHANGED <<cef, inner, registry, dismissed, tasks, shutting_down, manager,
                 wait_set>>

Teardown ==
  /\ main = "parked" /\ manager = "exited"
  /\ main' = "torn"
  /\ registered' = {} /\ active_stack' = <<>> /\ focus' = NoLayer
  /\ UNCHANGED <<cef, inner, dismissed, tasks, shutting_down, manager, wait_set>>

TornDown == main = "torn" /\ UNCHANGED moving

Pages == \/ \E l \in Abouts : OpenAbout(l)
         \/ \E l \in Layers : PageCloses(l)
         \/ DismissOverlay \/ Reset
Callbacks == \E l \in Layers : OnAfterCreated(l) \/ OnBeforeClose(l)
UiTasks == Recreate \/ CloseAndCollect
Manager == ManagerWakes \/ CollectTimesOut \/ WaitForClose
MainThread == Boot \/ WaitForLoad \/ Teardown

Next == /\ \/ Pages \/ MainLoads \/ Callbacks \/ UiTasks \/ Initiate \/ Manager
           \/ MainThread \/ TornDown
        /\ UNCHANGED may

(* CEF calls back for every browser it creates or closes and runs what is  *)
(* posted; the manager and the main thread are scheduled; a page loads.    *)
Fairness ==
  /\ \A l \in Layers : /\ WF_moving(OnAfterCreated(l))
                       /\ WF_moving(OnBeforeClose(l))
  /\ WF_moving(UiTasks) /\ WF_moving(ManagerWakes \/ WaitForClose)
  /\ WF_moving(MainThread) /\ WF_moving(MainLoads)

Spec == Init /\ [][Next]_vars /\ Fairness
-----------------------------------------------------------------------------
TypeOK ==
  /\ cef \in [Layers -> BrowserStates]
  /\ has_browser \in [Layers -> BOOLEAN] /\ closed \in [Layers -> BOOLEAN]
  /\ state \in [Layers -> ResetStates]
  /\ pending_internal_reset \in [Layers -> BOOLEAN] /\ main_loaded \in BOOLEAN
  /\ registered \subseteq Layers
  /\ active_stack \in Seq(Layers) /\ focus \in Layers \union {NoLayer}
  /\ dismissed \in BOOLEAN /\ tasks \in Seq({"recreate", "collect"})
  /\ shutting_down \in BOOLEAN
  /\ manager \in {"idle", "collecting", "waiting", "exited"}
  /\ wait_set \subseteq Layers
  /\ main \in {"boot", "overlay", "loading", "parked", "torn"}
  /\ may \subseteq Disturbances

(* The layers that can be given focus are layers the registry still holds: *)
(* nothing refocuses a layer whose box was freed.                          *)
StackIsRegistered ==
  /\ ToSet(active_stack) \subseteq registered
  /\ focus # NoLayer => focus \in registered
  /\ IsInjective(active_stack)

Alive(l) == cef[l] \in {"creating", "live", "closing"}

(* app.rs:1069-1070: the main thread is parked "until the manager has      *)
(* closed + drained every browser".                                        *)
DrainedBeforeTeardown == main = "torn" => \A l \in Layers : ~Alive(l)

(* It holds where no layer is reset, none is opened after the snapshot and *)
(* the collection does not time out; each of the three breaks it.          *)
OrderlyDrain == may = {} => DrainedBeforeTeardown

(* A reset always completes, whether or not the browser it resets had been *)
(* created when it came.                                                   *)
ResetCompletes ==
  state[Main] # "NORMAL" ~> state[Main] = "NORMAL" \/ shutting_down

(* However shutdown comes (during boot, during a reset, with an about box  *)
(* opening), nobody waits for ever: the main thread gets to tear down.     *)
ShutdownTearsDown == shutting_down ~> main = "torn"

(* business_overlay.rs:10-11: the overlay "hands input back to the main    *)
(* browser (dismiss)": when it is gone the main browser can be given input.*)
MainTakesOver ==
  cef[Overlay] = "gone" /\ cef[Main] = "live" /\ ~shutting_down
    => Main \in ToSet(active_stack)

(* It holds as long as the main layer is not reset. *)
MainTakesOverUnlessReset == "reset" \notin may => MainTakesOver

(* browsers.rs:191-192: "posting input/focus to a dying browser hangs      *)
(* TID_UI before OnBeforeClose fires", so none is given focus at shutdown. *)
NoFocusWhileDying ==
  [][focus' \notin {focus, NoLayer} /\ shutting_down
       => cef[focus'] # "closing"]_vars
=============================================================================
