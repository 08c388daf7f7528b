------------------------------ MODULE ViewPaint ------------------------------
(***************************************************************************)
(* One browser layer from a resize to a presented frame: the resize that   *)
(* is passed on to CEF at most once per frame (jfn_cef/src/client/         *)
(* resize.rs), and the paint scheduler of the shared-texture mode          *)
(* (paint_scheduler.rs), a loop on the CEF UI thread that asks for paints  *)
(* at a boosted rate until enough frames of the new size have come.        *)
(*                                                                         *)
(* The platform's thread resizes; tasks, paints and rate changes run one   *)
(* after the other on the UI thread.  They share atomics only, so a step   *)
(* is one access to them where the other thread could come in between.     *)
(***************************************************************************)
EXTENDS Naturals

CONSTANTS
  MaxResizes,    \* bound on sizes; a size is the number of the resize
  PumpTarget,    \* pump_target(fps): the paint that stops the loop
  TickLimit,     \* INVALIDATE_TICK_LIMIT
  Rates          \* refresh rates of the display

ASSUME ViewPaintAssumption ==
  /\ MaxResizes \in Nat /\ PumpTarget \in Nat \ {0} /\ TickLimit \in Nat \ {0}
  /\ Rates \subseteq Nat \ {0}

SkipPaints == 1             \* SKIP_PAINTS_AFTER_RESIZE
Boosted(rate) == 2 * rate
NotSaved == 0

VARIABLES
  vp_size, vp_platform,     \* the layer's size; the platform's thread
  vp_alive,                 \* the browser
  vp_scheduled, vp_apply,   \* resize_scheduled; ApplyResizeTask is posted
  vp_told, vp_view,         \* CEF was told to ask; the size it laid out for
  vp_dirty,                 \* CEF owes a paint
  vp_shown,                 \* the size of the frame presented last
  vp_ui,                    \* the UI thread
  vp_gen, vp_seen,          \* resize_gen, last_paint_gen
  vp_running, vp_stop, vp_task, vp_ticks,   \* the loop
  vp_paints, vp_pump,       \* paints_since_resize, pump_paint_count
  vp_saved, vp_target, vp_rate,   \* saved_frame_rate, frame_rate, CEF's own
  vp_raced                  \* history: the loop ended last before a paint
                            \* of the latest resize was let through

vpresize == <<vp_size, vp_platform, vp_scheduled, vp_apply>>
vpcef == <<vp_told, vp_view, vp_dirty, vp_shown>>
vploop == <<vp_running, vp_stop, vp_task, vp_ticks>>
vpcount == <<vp_gen, vp_seen, vp_paints, vp_pump>>
vprate == <<vp_saved, vp_target, vp_rate>>
vpvars == <<vpresize, vp_alive, vpcef, vp_ui, vploop, vpcount, vprate, vp_raced>>

PaintInit ==
  /\ vp_size = 0 /\ vp_platform = "idle" /\ vp_alive = TRUE
  /\ vp_scheduled = FALSE /\ vp_apply = FALSE
  /\ vp_told = FALSE /\ vp_view = 0 /\ vp_dirty = FALSE /\ vp_shown = 0
  /\ vp_ui = "idle"
  /\ vp_gen = 0 /\ vp_seen = 0
  /\ vp_running = FALSE /\ vp_stop = FALSE /\ vp_task = "none" /\ vp_ticks = 0
  /\ vp_paints = SkipPaints /\ vp_pump = 0
  /\ vp_target \in Rates /\ vp_saved = NotSaved /\ vp_rate = vp_target
  /\ vp_raced = FALSE
-----------------------------------------------------------------------------
(* The platform's thread: Inner::resize *)

StoreSize ==
  /\ vp_platform = "idle" /\ vp_size < MaxResizes
  /\ vp_size' = vp_size + 1
  /\ vp_platform' = IF vp_alive THEN "begin" ELSE "idle"
  /\ UNCHANGED <<vp_alive, vp_scheduled, vp_apply, vpcef, vp_ui, vploop,
                 vpcount, vprate, vp_raced>>

BeginResize ==
  /\ vp_platform = "begin"
  /\ vp_gen' = vp_gen + 1
  /\ vp_platform' = "decide"
  /\ UNCHANGED <<vp_size, vp_alive, vp_scheduled, vp_apply, vpcef, vp_ui,
                 vploop, vp_seen, vp_paints, vp_pump, vprate, vp_raced>>

(* Within a frame of the last one it is left to a task; a task that is     *)
(* already posted will find the new size.                                  *)
ResizeNowOrLater ==
  /\ vp_platform = "decide"
  /\ \/ vp_told' = TRUE /\ UNCHANGED <<vp_scheduled, vp_apply>>
     \/ /\ ~vp_scheduled
        /\ vp_scheduled' = TRUE /\ vp_apply' = TRUE
        /\ UNCHANGED vp_told
     \/ vp_scheduled /\ UNCHANGED <<vp_told, vp_scheduled, vp_apply>>
  /\ vp_platform' = "invalidate"
  /\ UNCHANGED <<vp_size, vp_alive, vp_view, vp_dirty, vp_shown, vp_ui, vploop,
                 vpcount, vprate, vp_raced>>

AfterResize ==
  /\ vp_platform = "invalidate"
  /\ vp_dirty' = vp_alive /\ vp_stop' = FALSE
  /\ vp_platform' = "start"
  /\ UNCHANGED <<vp_size, vp_scheduled, vp_apply, vp_alive, vp_told, vp_view,
                 vp_shown, vp_ui, vp_running, vp_task, vp_ticks, vpcount,
                 vprate, vp_raced>>

(* start_invalidate_loop: only the thread that finds it idle starts it. *)
StartLoop ==
  IF vp_running THEN UNCHANGED <<vp_running, vp_ticks, vp_task>>
  ELSE vp_running' = TRUE /\ vp_ticks' = 0 /\ vp_task' = "kick"

PlatformStarts ==
  /\ vp_platform = "start"
  /\ StartLoop
  /\ vp_platform' = "idle"
  /\ UNCHANGED <<vp_size, vp_scheduled, vp_apply, vp_alive, vpcef, vp_ui,
                 vp_stop, vpcount, vprate, vp_raced>>
-----------------------------------------------------------------------------
(* The UI thread: the postponed resize *)

ClearScheduled_AfterTelling ==
  /\ vp_ui = "idle" /\ vp_apply
  /\ vp_apply' = FALSE
  /\ vp_ui' = IF vp_alive THEN "apply" ELSE "idle"
  /\ UNCHANGED <<vp_size, vp_platform, vp_alive, vp_scheduled, vpcef, vploop,
                 vpcount, vprate, vp_raced>>

(* apply_pending_resize clears the flag first: a resize that still finds   *)
(* it set has stored its size before CEF is told.                          *)
ClearScheduled ==
  /\ vp_ui = "idle" /\ vp_apply
  /\ vp_apply' = FALSE /\ vp_scheduled' = FALSE
  /\ vp_ui' = IF vp_alive THEN "apply" ELSE "idle"
  /\ UNCHANGED <<vp_size, vp_platform, vp_alive, vpcef, vploop, vpcount,
                 vprate, vp_raced>>

ApplyPendingResize ==
  /\ vp_ui = "apply"
  /\ vp_gen' = vp_gen + 1 /\ vp_told' = TRUE /\ vp_dirty' = TRUE
  /\ vp_stop' = FALSE /\ StartLoop
  /\ vp_ui' = "idle"
  /\ UNCHANGED <<vpresize, vp_alive, vp_view, vp_shown, vp_seen, vp_paints,
                 vp_pump, vprate, vp_raced>>

(* CEF asks for the view's size and lays out. *)
CefLayout ==
  /\ vp_ui = "idle" /\ vp_told /\ vp_alive
  /\ vp_told' = FALSE /\ vp_view' = vp_size /\ vp_dirty' = TRUE
  /\ UNCHANGED <<vpresize, vp_alive, vp_shown, vp_ui, vploop, vpcount, vprate,
                 vp_raced>>
-----------------------------------------------------------------------------
(* The UI thread: the loop *)

(* The first half of active_invalidate_tick. *)
CountTick ==
  /\ vp_ticks' = vp_ticks + 1
  /\ vp_stop' = (vp_stop \/ vp_ticks + 1 > TickLimit)

(* active_kick_apply boosts the rate, then falls into the first tick. *)
Kick ==
  /\ vp_ui = "idle" /\ vp_task = "kick"
  /\ vp_task' = "none"
  /\ IF vp_alive /\ vp_saved = NotSaved
     THEN vp_saved' = vp_target /\ vp_rate' = Boosted(vp_target)
     ELSE UNCHANGED <<vp_saved, vp_rate>>
  /\ CountTick
  /\ vp_ui' = "tick"
  /\ UNCHANGED <<vpresize, vp_alive, vpcef, vp_running, vpcount, vp_target,
                 vp_raced>>

NextTick ==
  /\ vp_ui = "idle" /\ vp_task = "tick"
  /\ CountTick
  /\ vp_task' = "none" /\ vp_ui' = "tick"
  /\ UNCHANGED <<vpresize, vp_alive, vpcef, vp_running, vpcount, vprate,
                 vp_raced>>

RestoreRate ==
  /\ vp_saved' = NotSaved
  /\ vp_rate' = IF vp_alive /\ vp_saved # NotSaved THEN vp_saved ELSE vp_rate

Tick ==
  /\ vp_ui = "tick"
  /\ IF vp_stop
     THEN /\ RestoreRate /\ vp_ui' = "ending"
          /\ UNCHANGED <<vp_dirty, vp_task>>
     ELSE /\ vp_dirty' = (vp_dirty \/ vp_alive)
          /\ vp_task' = "tick" /\ vp_ui' = "idle"
          /\ UNCHANGED <<vp_saved, vp_rate>>
  /\ UNCHANGED <<vpresize, vp_alive, vp_told, vp_view, vp_shown, vp_running,
                 vp_stop, vp_ticks, vpcount, vp_target, vp_raced>>

(* A resize that comes between the stop the tick has seen and this store   *)
(* finds the loop still running.                                           *)
EndLoop ==
  /\ vp_ui = "ending"
  /\ vp_running' = FALSE
  /\ vp_ui' = "idle"
  /\ vp_raced' = (vp_gen # vp_seen \/ vp_paints <= SkipPaints)
  /\ UNCHANGED <<vpresize, vp_alive, vpcef, vp_stop, vp_task, vp_ticks,
                 vpcount, vprate>>
-----------------------------------------------------------------------------
(* The UI thread: paints, rate, close *)

(* active_should_present_paint.  The first paint that notices a resize     *)
(* starts a new count, unless the last one started less than a frame ago.  *)
Paint ==
  /\ vp_ui = "idle" /\ vp_dirty /\ vp_alive
  /\ vp_dirty' = FALSE
  /\ vp_seen' = vp_gen
  /\ \E due \in {vp_gen # vp_seen, FALSE} :
       LET count == IF due THEN 1 ELSE vp_paints + 1
           pump == IF due THEN PumpTarget ELSE vp_pump
       IN /\ vp_paints' = IF count > PumpTarget THEN PumpTarget + 1 ELSE count
          /\ vp_pump' = pump
          /\ vp_shown' = IF count > SkipPaints THEN vp_view ELSE vp_shown
          /\ vp_ui' = IF count = pump THEN "stop" ELSE "idle"
  /\ UNCHANGED <<vpresize, vp_alive, vp_told, vp_view, vploop, vp_gen, vprate,
                 vp_raced>>

StopAfterPaint ==
  /\ vp_ui = "stop"
  /\ vp_stop' = TRUE /\ vp_ui' = "idle"
  /\ UNCHANGED <<vpresize, vp_alive, vpcef, vp_running, vp_task, vp_ticks,
                 vpcount, vprate, vp_raced>>

(* apply_set_refresh: a boosted browser gets the new rate with the end of  *)
(* the boost.                                                              *)
SetRefresh ==
  /\ vp_ui = "idle" /\ vp_alive
  /\ \E rate \in Rates \ {vp_target} :
       /\ vp_target' = rate
       /\ IF vp_saved # NotSaved THEN vp_saved' = rate /\ UNCHANGED vp_rate
          ELSE vp_rate' = rate /\ UNCHANGED vp_saved
  /\ UNCHANGED <<vpresize, vp_alive, vpcef, vp_ui, vploop, vpcount, vp_raced>>

BeforeClose ==
  /\ vp_ui = "idle" /\ vp_alive
  /\ vp_alive' = FALSE /\ vp_stop' = TRUE
  /\ vp_dirty' = FALSE /\ vp_told' = FALSE
  /\ UNCHANGED <<vpresize, vp_view, vp_shown, vp_ui, vp_running, vp_task,
                 vp_ticks, vpcount, vprate, vp_raced>>

PlatformThread ==
  StoreSize \/ BeginResize \/ ResizeNowOrLater \/ AfterResize \/ PlatformStarts
UiThread ==
  \/ ClearScheduled \/ ApplyPendingResize \/ CefLayout
  \/ Kick \/ NextTick \/ Tick \/ EndLoop
  \/ Paint \/ StopAfterPaint \/ SetRefresh \/ BeforeClose
PaintNext == PlatformThread \/ UiThread
PaintSpec == PaintInit /\ [][PaintNext]_vpvars
-----------------------------------------------------------------------------
AtRest ==
  /\ vp_platform = "idle" /\ vp_ui = "idle"
  /\ ~vp_apply /\ ~vp_told /\ vp_task = "none" /\ ~vp_dirty

(* When both threads have nothing left to do, CEF has laid out for the     *)
(* latest size however the resizes were coalesced, the loop is known to    *)
(* have ended and the display's rate is back, whatever it was changed to   *)
(* during the boost.  The frame on the screen has that size too, unless    *)
(* the loop ended, by its limit or by a stop meant for the resize before,  *)
(* when the only paint since was the one that is skipped.                  *)
ViewCatchesUp ==
  AtRest /\ vp_alive =>
    /\ vp_view = vp_size
    /\ ~vp_running /\ vp_saved = NotSaved /\ vp_rate = vp_target
    /\ ~vp_raced => vp_shown = vp_size

(* paint_scheduler.rs has the loop run so that a frame of the new size     *)
(* gets presented; a stop meant for the resize before may end it.          *)
NewSizeIsPresented ==
  AtRest /\ vp_alive => vp_shown = vp_size
=============================================================================
