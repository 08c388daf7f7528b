----------------------------- MODULE WindowMode -----------------------------
(***************************************************************************)
(* From the window to the playback state machine: fullscreen, and whether  *)
(* the window was maximized before.  A platform thread changes the window  *)
(* and wakes the subscribers (window_source.rs); each pulls a snapshot and *)
(* pushes it through two property digests (ingest_driver.rs, ingest.rs),   *)
(* the first of which reads what the second stored last time.  At start-up *)
(* the main thread reconciles once itself (ffi.rs), concurrently.          *)
(***************************************************************************)
EXTENDS Naturals

CONSTANT MaxModeChanges
ASSUME MaxModeChangesAssumption == MaxModeChanges \in Nat

Modes == {"normal", "maximized", "fullscreen"}
Reconcilers == {"platform", "main"}
NoInput == [on |-> FALSE, was_maximized |-> FALSE]

VARIABLES
  wm_mode,       \* the window
  wm_changes,    \* changes still to come
  wm_entered,    \* history: the mode fullscreen was entered from, if observed
  wm_subscribed, \* the playback reconcile is subscribed
  wm_pc, wm_snap,  \* each reconciler's progress and snapshot
  wm_maximized,  \* IngestState.window_maximized
  wm_playback,   \* the state machine's fullscreen, maximized_before_fullscreen
  wm_overlap     \* history: two reconciles overlapped

wmwindow == <<wm_mode, wm_changes, wm_entered>>
wmvars == <<wmwindow, wm_subscribed, wm_pc, wm_snap, wm_maximized, wm_playback,
            wm_overlap>>

ModeInit ==
  /\ wm_mode = "normal" /\ wm_changes = MaxModeChanges
  /\ wm_entered = "unseen"
  /\ wm_subscribed = FALSE
  /\ wm_pc = [r \in Reconcilers |-> "idle"]
  /\ wm_snap = [r \in Reconcilers |-> "normal"]
  /\ wm_maximized = FALSE /\ wm_playback = NoInput
  /\ wm_overlap = FALSE

Other(r) == IF r = "main" THEN "platform" ELSE "main"
Busy(r) == wm_pc[r] # "idle"
-----------------------------------------------------------------------------
(* The platform commits the new mode, then notifies on the same thread. *)
ChangeMode ==
  /\ wm_changes > 0 /\ ~Busy("platform")
  /\ wm_changes' = wm_changes - 1
  /\ \E mode \in Modes \ {wm_mode} :
       /\ wm_mode' = mode
       /\ wm_entered' = IF mode # "fullscreen" \/ ~wm_subscribed
                        THEN "unseen" ELSE wm_mode
  /\ wm_pc' = [wm_pc EXCEPT !["platform"] =
                 IF wm_subscribed THEN "pull" ELSE "idle"]
  /\ wm_overlap' = (wm_overlap \/ Busy("main"))
  /\ UNCHANGED <<wm_subscribed, wm_snap, wm_maximized, wm_playback>>

(* jfn_playback_init, with the coordinator installed: the reconcile is     *)
(* subscribed, then the initial mode pulled in.                            *)
Subscribe ==
  /\ ~wm_subscribed
  /\ wm_subscribed' = TRUE
  /\ wm_pc' = [wm_pc EXCEPT !["main"] = "pull"]
  /\ UNCHANGED <<wmwindow, wm_snap, wm_maximized, wm_playback, wm_overlap>>
-----------------------------------------------------------------------------
(* jfn_playback_reconcile_window_mode, by either thread *)
Pull(r) ==
  /\ wm_pc[r] = "pull"
  /\ wm_snap' = [wm_snap EXCEPT ![r] = wm_mode]
  /\ wm_pc' = [wm_pc EXCEPT ![r] = "fullscreen"]
  /\ UNCHANGED <<wmwindow, wm_subscribed, wm_maximized, wm_playback, wm_overlap>>

(* The state machine drops an unchanged mode and keeps "maximized before"  *)
(* only while fullscreen.                                                  *)
PostFullscreen(on, was_maximized) ==
  wm_playback' = IF wm_playback.on = on THEN wm_playback
                 ELSE [on |-> on, was_maximized |-> on /\ was_maximized]

DigestFullscreen_AfterMaximized(r) ==
  /\ wm_pc[r] = "fullscreen"
  /\ LET on == wm_snap[r] = "fullscreen"
     IN PostFullscreen(on, wm_snap[r] = "maximized")
  /\ wm_pc' = [wm_pc EXCEPT ![r] = "maximized"]
  /\ UNCHANGED <<wmwindow, wm_subscribed, wm_snap, wm_maximized, wm_overlap>>

(* A fullscreen snapshot says nothing of "maximized": the flag stored by   *)
(* the reconcile before this one is what was_maximized is read from.       *)
DigestFullscreen(r) ==
  /\ wm_pc[r] = "fullscreen"
  /\ PostFullscreen(wm_snap[r] = "fullscreen", wm_maximized)
  /\ wm_pc' = [wm_pc EXCEPT ![r] = "maximized"]
  /\ UNCHANGED <<wmwindow, wm_subscribed, wm_snap, wm_maximized, wm_overlap>>

DigestMaximized(r) ==
  /\ wm_pc[r] = "maximized"
  /\ wm_maximized' = (wm_snap[r] = "maximized")
  /\ wm_pc' = [wm_pc EXCEPT ![r] = "idle"]
  /\ UNCHANGED <<wmwindow, wm_subscribed, wm_snap, wm_playback, wm_overlap>>

ModeNext ==
  \/ ChangeMode \/ Subscribe
  \/ \E r \in Reconcilers :
       Pull(r) \/ DigestFullscreen(r) \/ DigestMaximized(r)
ModeSpec == ModeInit /\ [][ModeNext]_wmvars
-----------------------------------------------------------------------------
(* After every reconcile, the state machine has the window's mode and, in  *)
(* fullscreen entered under its eyes, whether leaving it should maximize:  *)
(* unless the window changed while the start-up reconcile was under way,   *)
(* whose older snapshot may then be digested last.                         *)
ModeAgrees ==
  wm_subscribed /\ (\A r \in Reconcilers : ~Busy(r)) /\ ~wm_overlap =>
    /\ wm_playback.on = (wm_mode = "fullscreen")
    /\ wm_mode = "fullscreen" /\ wm_entered # "unseen" =>
         wm_playback.was_maximized = (wm_entered = "maximized")

(* ffi.rs:57: the immediate reconcile is there for the modes posted before *)
(* the coordinator existed; concurrent with one on the platform's thread   *)
(* it may undo it.                                                         *)
LatestModeWins ==
  wm_subscribed /\ (\A r \in Reconcilers : ~Busy(r)) =>
    wm_playback.on = (wm_mode = "fullscreen")
=============================================================================
