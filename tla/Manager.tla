------------------------------ MODULE Manager ------------------------------
(***************************************************************************)
(* The manager thread (src/src/jfn_rust/src/manager.rs) with its two       *)
(* inputs: a queue of window and power messages, and the shutdown flag     *)
(* (src/src/playback/src/shutdown.rs), which a signal handler may set and  *)
(* which therefore carries nothing but a wake-up.                          *)
(***************************************************************************)
EXTENDS Naturals, Sequences

CONSTANTS
  MayAskEarly,  \* shutdown may be requested before its handler is installed
  MaxQueue      \* bound on messages queued and not taken

ASSUME MaxQueueAssumption == MaxQueue \in Nat
ASSUME MayAskEarlyAssumption == MayAskEarly \in BOOLEAN

Messages == {"Show", "Hide", "Suspend", "Resume"}

VARIABLES
  boot,         \* the main thread: starting, listening, handling
  queue, wake,  \* Manager.queue; Manager.wake is signaled
  owed,         \* senders between their push and their signal
  shutting_down, asker,     \* SHUTTING_DOWN; the initiator: no, flagged, done
  manager,      \* the manager thread's program counter
  work,         \* the batch it took
  state,        \* LifecycleState
  hidden,       \* the posture last posted to the browsers
  released      \* wake_main_loop was called

control == <<shutting_down, asker>>
inbox == <<queue, wake, owed>>
mgvars == <<boot, inbox, control, manager, work, state, hidden, released>>

ManagerInit ==
  /\ boot = "starting"
  /\ queue = <<>> /\ wake = FALSE /\ owed = 0
  /\ shutting_down = FALSE /\ asker = "no"
  /\ manager = "wait" /\ work = <<>>
  /\ state = "Running" /\ hidden = FALSE /\ released = FALSE
-----------------------------------------------------------------------------
(* The main thread starts the manager, then installs the shutdown handler. *)

StartManager ==
  /\ boot = "starting"
  /\ boot' = "listening"
  /\ UNCHANGED <<inbox, control, manager, work, state, hidden, released>>

InstallHandler ==
  /\ boot = "listening"
  /\ boot' = "handling"
  /\ UNCHANGED <<inbox, control, manager, work, state, hidden, released>>
-----------------------------------------------------------------------------
(* Senders *)

(* `jfn_manager_send`: push, then signal.  Before the dispatchers are      *)
(* installed an event is dropped.                                          *)
Push(msg) ==
  /\ boot # "starting" /\ ~released
  /\ Len(queue) + owed < MaxQueue
  /\ queue' = Append(queue, msg)
  /\ owed' = owed + 1
  /\ UNCHANGED <<boot, wake, control, manager, work, state, hidden, released>>

Signal ==
  /\ owed > 0
  /\ owed' = owed - 1
  /\ wake' = TRUE
  /\ UNCHANGED <<boot, queue, control, manager, work, state, hidden, released>>

(* `jfn_shutdown_initiate`: the flag, then the handler, if there is one.   *)
SetFlag ==
  /\ asker = "no"
  /\ MayAskEarly \/ boot = "handling"
  /\ shutting_down' = TRUE /\ asker' = "flagged"
  /\ UNCHANGED <<boot, inbox, manager, work, state, hidden, released>>

RunHandler ==
  /\ asker = "flagged"
  /\ asker' = "done"
  /\ wake' = (wake \/ boot = "handling")
  /\ UNCHANGED <<boot, queue, owed, shutting_down, manager, work, state, hidden,
                 released>>
-----------------------------------------------------------------------------
(* manager_loop *)

(* `wake.wait`, `wake.drain` *)
Wait ==
  /\ manager = "wait" /\ wake /\ boot # "starting"
  /\ wake' = FALSE
  /\ manager' = "take"
  /\ UNCHANGED <<boot, queue, owed, control, work, state, hidden, released>>

Take_IfQueued ==
  /\ manager = "take"
  /\ work' = IF shutting_down /\ queue # <<>> THEN Append(queue, "Shutdown")
             ELSE queue
  /\ queue' = <<>>
  /\ manager' = "fold"
  /\ UNCHANGED <<boot, wake, owed, control, state, hidden, released>>

(* Under the queue's lock, the flag becomes the last message of the batch. *)
TakeMessages ==
  /\ manager = "take"
  /\ work' = IF shutting_down THEN Append(queue, "Shutdown") ELSE queue
  /\ queue' = <<>>
  /\ manager' = "fold"
  /\ UNCHANGED <<boot, wake, owed, control, state, hidden, released>>

To(s, posture) == [state |-> s, hidden |-> posture]

NextState_ResumesQuietly(msg) ==
  CASE msg = "Shutdown" -> To("ShuttingDown", hidden)
    [] state = "Running" /\ msg = "Hide"     -> To("Hidden", TRUE)
    [] state = "Hidden" /\ msg = "Show"      -> To("Running", FALSE)
    [] state = "Running" /\ msg = "Suspend"  -> To("Suspended", TRUE)
    [] state = "Hidden" /\ msg = "Suspend"   -> To("Suspended", hidden)
    [] state = "Suspended" /\ msg = "Resume" -> To("Running", hidden)
    [] OTHER -> To(state, hidden)

(* `next_state`, with the posture its effect posts. *)
NextState(msg) ==
  CASE msg = "Shutdown" -> To("ShuttingDown", hidden)
    [] state = "Running" /\ msg = "Hide"     -> To("Hidden", TRUE)
    [] state = "Hidden" /\ msg = "Show"      -> To("Running", FALSE)
    [] state = "Running" /\ msg = "Suspend"  -> To("Suspended", TRUE)
    [] state = "Hidden" /\ msg = "Suspend"   -> To("Suspended", hidden)
    [] state = "Suspended" /\ msg = "Resume" -> To("Running", FALSE)
    [] OTHER -> To(state, hidden)

Fold ==
  /\ manager = "fold" /\ work # <<>>
  /\ LET next == NextState(Head(work))
     IN /\ state' = next.state /\ hidden' = next.hidden
        /\ manager' = IF next.state = "ShuttingDown" THEN "closing" ELSE "fold"
  /\ work' = Tail(work)
  /\ UNCHANGED <<boot, inbox, control, released>>

Folded_Drains ==
  /\ manager = "fold" /\ work = <<>>
  /\ manager' = "wait" /\ wake' = FALSE
  /\ UNCHANGED <<boot, queue, owed, control, work, state, hidden, released>>

Folded ==
  /\ manager = "fold" /\ work = <<>>
  /\ manager' = "wait"
  /\ UNCHANGED <<boot, inbox, control, work, state, hidden, released>>

(* `run_shutdown`: the fan-out, the closing of the browsers (CefLayers),   *)
(* and the main thread's release.                                          *)
RunShutdown ==
  /\ manager = "closing"
  /\ released' = TRUE
  /\ manager' = "exited"
  /\ UNCHANGED <<boot, inbox, control, work, state, hidden>>

Exited ==
  /\ manager = "exited" /\ owed = 0 /\ asker = "done"
  /\ UNCHANGED mgvars

Sender == (\E msg \in Messages : Push(msg)) \/ Signal
Asker == SetFlag \/ RunHandler
Loop == Wait \/ TakeMessages \/ Fold \/ Folded \/ RunShutdown

ManagerNext == StartManager \/ InstallHandler \/ Sender \/ Asker \/ Loop \/ Exited

(* The main thread boots, a sender that has pushed signals, an initiator   *)
(* that has set the flag runs the handler, the manager thread runs.        *)
ManagerFairness ==
  /\ WF_mgvars(StartManager \/ InstallHandler)
  /\ WF_mgvars(Signal) /\ WF_mgvars(RunHandler) /\ WF_mgvars(Loop)

ManagerSpec == ManagerInit /\ [][ManagerNext]_mgvars /\ ManagerFairness
-----------------------------------------------------------------------------
ManagerTypeOK ==
  /\ boot \in {"starting", "listening", "handling"}
  /\ queue \in Seq(Messages) /\ wake \in BOOLEAN /\ owed \in 0 .. MaxQueue
  /\ shutting_down \in BOOLEAN /\ asker \in {"no", "flagged", "done"}
  /\ manager \in {"wait", "take", "fold", "closing", "exited"}
  /\ work \in Seq(Messages \union {"Shutdown"})
  /\ state \in {"Running", "Hidden", "Suspended", "ShuttingDown"}
  /\ hidden \in BOOLEAN /\ released \in BOOLEAN

(* No wake-up is lost: while the manager waits, a message in the queue or  *)
(* a shutdown whose handler has run is accompanied by a signal, or the     *)
(* sender that pushed it has still to give it.                             *)
NothingStranded ==
  manager = "wait" =>
    /\ queue # <<>> => wake \/ owed > 0
    /\ shutting_down /\ asker = "done" /\ ~MayAskEarly => wake

(* manager.rs:123-126: a shutdown is observed "from any trigger": it       *)
(* releases the main thread.                                               *)
ShutdownIsObserved == shutting_down ~> released

(* The manager implements the phases the application is promised. *)
Promise == INSTANCE Lifecycle WITH phase <- state, asked <- shutting_down
KeepsPromise == Promise!Spec
=============================================================================
