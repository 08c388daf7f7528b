---------------------------- MODULE WindowProofs ---------------------------
(***************************************************************************)
(* What the wakeups of a window leave behind: the size of the browser      *)
(* layers (WindowSync), for any number of threads that are woken, and the  *)
(* mode the state machine knows (WindowMode), for any number of changes;   *)
(* and what a resize and the paints after it leave on the screen: the size *)
(* a view is painted in (ViewPaint) and the picture of a layer             *)
(* (LayerActor), for any number of resizes and paints; and on what the     *)
(* thread of a Wayland window goes to sleep (RootWindow).                  *)
(***************************************************************************)
EXTENDS WindowSync, WindowMode, ViewPaint, LayerActor, RootWindow, SequenceTheorems, TLAPS

SyncTyped ==
  /\ ws_pc \in [Wakers -> {"idle", "pull", "swap", "cache", "layer"}]
  /\ ws_size \in [Wakers -> Nat]
  /\ ws_window \in Nat

(* A thread that will yet look at the window, or has its size in hand.     *)
Looks(w) ==
  \/ ws_pc[w] \in {"pull", "cache", "layer"}
  \/ ws_pc[w] = "swap" /\ ws_size[w] = ws_window

CellCatchesUp ==
  ~ws_missed => ws_cell = ws_window \/ \E w \in Wakers : Looks(w)

(* One thread at a time applies what the cell holds, and nobody swaps      *)
(* before it is done.                                                      *)
OneApplies ==
  /\ \A w \in Wakers : Applying(w) =>
       /\ ws_cell = ws_size[w]
       /\ \A o \in Wakers : Applying(o) => o = w
  /\ \A w \in Wakers : ws_pc[w] = "layer" => ws_cache = ws_size[w]
  /\ (\A w \in Wakers : ~Applying(w)) => ws_layer = ws_cell /\ ws_cache = ws_cell

SyncInv == SyncTyped /\ CellCatchesUp /\ (~ws_overlap => OneApplies)
-----------------------------------------------------------------------------
LEMMA SyncInitInv == SyncInit => SyncInv
BY DEF SyncInit, SyncInv, SyncTyped, CellCatchesUp, OneApplies, Applying, NoSize

LEMMA SyncTypedStep == SyncInv /\ [SyncNext]_wsvars => SyncTyped'
<1> SUFFICES ASSUME SyncInv, [SyncNext]_wsvars PROVE SyncTyped'
  OBVIOUS
<1> USE DEF SyncInv, SyncTyped, Goes, wsthreads
<1>1. CASE WindowChanges
  BY <1>1 DEF WindowChanges
<1>2. ASSUME NEW w \in Wakers, Wake(w) \/ PullSize(w) PROVE SyncTyped'
  BY <1>2 DEF Wake, PullSize
<1>3. ASSUME NEW w \in Wakers, SwapCell(w) PROVE SyncTyped'
  BY <1>3 DEF SwapCell
<1>4. ASSUME NEW w \in Wakers, StoreCache(w) \/ ResizeLayer(w) PROVE SyncTyped'
  BY <1>4 DEF StoreCache, ResizeLayer
<1>5. CASE UNCHANGED wsvars
  BY <1>5 DEF wsvars
<1> QED BY <1>1, <1>2, <1>3, <1>4, <1>5 DEF SyncNext

LEMMA CellStep == SyncInv /\ [SyncNext]_wsvars => CellCatchesUp'
<1> SUFFICES ASSUME SyncInv, [SyncNext]_wsvars PROVE CellCatchesUp'
  OBVIOUS
<1> USE DEF SyncInv, SyncTyped, CellCatchesUp, Looks, Goes, wsthreads
<1>1. CASE WindowChanges
  BY <1>1 DEF WindowChanges
<1>2. ASSUME NEW w \in Wakers, Wake(w) PROVE CellCatchesUp'
  BY <1>2 DEF Wake
<1>3. ASSUME NEW w \in Wakers, PullSize(w) PROVE CellCatchesUp'
  BY <1>3 DEF PullSize
<1>4. ASSUME NEW w \in Wakers, SwapCell(w) PROVE CellCatchesUp'
  BY <1>4 DEF SwapCell
<1>5. ASSUME NEW w \in Wakers, StoreCache(w) \/ ResizeLayer(w) PROVE CellCatchesUp'
  BY <1>5 DEF StoreCache, ResizeLayer
<1>6. CASE UNCHANGED wsvars
  BY <1>6 DEF wsvars
<1> QED BY <1>1, <1>2, <1>3, <1>4, <1>5, <1>6 DEF SyncNext

LEMMA ApplyStep ==
  ASSUME SyncInv, ~ws_overlap, ~ws_overlap', [SyncNext]_wsvars
  PROVE  OneApplies'
<1> USE DEF SyncInv, SyncTyped, OneApplies, Applying, Goes, wsthreads, wslayers
<1>1. CASE WindowChanges
  BY <1>1 DEF WindowChanges
<1>2. ASSUME NEW w \in Wakers, Wake(w) PROVE OneApplies'
  BY <1>2 DEF Wake
<1>3. ASSUME NEW w \in Wakers, PullSize(w) PROVE OneApplies'
  BY <1>3 DEF PullSize
<1>4. ASSUME NEW w \in Wakers, SwapCell(w) PROVE OneApplies'
  BY <1>4 DEF SwapCell
<1>5. ASSUME NEW w \in Wakers, StoreCache(w) PROVE OneApplies'
  BY <1>5 DEF StoreCache
<1>6. ASSUME NEW w \in Wakers, ResizeLayer(w) PROVE OneApplies'
  BY <1>6 DEF ResizeLayer
<1>7. CASE UNCHANGED wsvars
  BY <1>7 DEF wsvars
<1> QED BY <1>1, <1>2, <1>3, <1>4, <1>5, <1>6, <1>7 DEF SyncNext

LEMMA SyncOverlapStays == ws_overlap /\ [SyncNext]_wsvars => ws_overlap'
BY DEF SyncNext, WindowChanges, Wake, PullSize, SwapCell, StoreCache, ResizeLayer, wsvars

(* The layers end up with the window's size, unless two threads were       *)
(* applying sizes at once.                                                 *)
THEOREM LayersFollowWindow == SyncSpec => []SizeIsWindowSize
<1>1. SyncInv /\ [SyncNext]_wsvars => SyncInv'
  BY SyncTypedStep, CellStep, ApplyStep, SyncOverlapStays DEF SyncInv
<1>2. SyncInv => SizeIsWindowSize
  BY DEF SyncInv, CellCatchesUp, OneApplies, Looks, Applying, SizeIsWindowSize, SyncSettled
<1> QED BY SyncInitInv, <1>1, <1>2, PTL DEF SyncSpec
-----------------------------------------------------------------------------
ModeTyped ==
  /\ wm_mode \in Modes /\ wm_subscribed \in BOOLEAN
  /\ wm_entered \in {"unseen", "normal", "maximized"}
  /\ wm_pc \in [Reconcilers -> {"idle", "pull", "fullscreen", "maximized"}]
  /\ wm_snap \in [Reconcilers -> Modes]
  /\ wm_playback \in [on : BOOLEAN, was_maximized : BOOLEAN]
  /\ wm_maximized \in BOOLEAN

SeenEntering == wm_mode = "fullscreen" /\ wm_entered # "unseen"

(* What the state machine was told is what the window is; and what it will *)
(* be told of "maximized" once fullscreen is pulled.                       *)
ToldMode ==
  /\ wm_playback.on <=> wm_mode = "fullscreen"
  /\ SeenEntering => (wm_playback.was_maximized <=> wm_entered = "maximized")
WillTell ==
  SeenEntering => ~wm_playback.on /\ (wm_maximized <=> wm_entered = "maximized")

(* One reconcile at a time, which the window does not outrun.              *)
OneReconciles ==
  /\ ~Busy("platform") \/ ~Busy("main")
  /\ ~wm_subscribed => wm_entered = "unseen" /\ \A r \in Reconcilers : ~Busy(r)
  /\ \A r \in Reconcilers :
       /\ wm_pc[r] \in {"pull", "fullscreen"} => WillTell
       /\ wm_pc[r] \in {"fullscreen", "maximized"} => wm_snap[r] = wm_mode
       /\ wm_pc[r] = "maximized" => ToldMode
  /\ wm_subscribed /\ (\A r \in Reconcilers : ~Busy(r)) =>
       ToldMode /\ (wm_maximized <=> wm_mode = "maximized")

ModeInv == ModeTyped /\ (~wm_overlap => OneReconciles)

LEMMA ModeInitInv == ModeInit => ModeInv
<1> SUFFICES ASSUME ModeInit PROVE ModeInv
  OBVIOUS
<1>1. ModeTyped
  BY DEF ModeInit, ModeTyped, Reconcilers, Modes, NoInput
<1>2. OneReconciles
  BY DEF ModeInit, OneReconciles, Busy, Reconcilers
<1> QED BY <1>1, <1>2 DEF ModeInv

LEMMA ModeTypedStep == ModeInv /\ [ModeNext]_wmvars => ModeTyped'
<1> SUFFICES ASSUME ModeInv, [ModeNext]_wmvars PROVE ModeTyped'
  OBVIOUS
<1> USE DEF ModeInv, ModeTyped, Reconcilers, Modes, wmwindow
<1>1. CASE ChangeMode
  BY <1>1 DEF ChangeMode
<1>2. CASE Subscribe
  BY <1>2 DEF Subscribe
<1>3. ASSUME NEW r \in Reconcilers, Pull(r) PROVE ModeTyped'
  BY <1>3 DEF Pull
<1>4. ASSUME NEW r \in Reconcilers, DigestFullscreen(r) PROVE ModeTyped'
  <2>1. (wm_snap[r] = "fullscreen") \in BOOLEAN
        /\ ((wm_snap[r] = "fullscreen") /\ wm_maximized) \in BOOLEAN
    OBVIOUS
  <2>2. wm_playback' \in [on : BOOLEAN, was_maximized : BOOLEAN]
    BY <1>4, <2>1 DEF DigestFullscreen, PostFullscreen
  <2> QED BY <1>4, <2>2 DEF DigestFullscreen
<1>5. ASSUME NEW r \in Reconcilers, DigestMaximized(r) PROVE ModeTyped'
  BY <1>5 DEF DigestMaximized
<1>6. CASE UNCHANGED wmvars
  BY <1>6 DEF wmvars
<1> QED BY <1>1, <1>2, <1>3, <1>4, <1>5, <1>6 DEF ModeNext

LEMMA ReconcileStep ==
  ASSUME ModeInv, ~wm_overlap, ~wm_overlap', [ModeNext]_wmvars
  PROVE  OneReconciles'
<1> USE DEF ModeInv, ModeTyped, OneReconciles, Reconcilers, Modes, Busy, WillTell,
            ToldMode, SeenEntering, wmwindow
<1>1. CASE ChangeMode
  BY <1>1 DEF ChangeMode
<1>2. CASE Subscribe
  BY <1>2 DEF Subscribe
<1>3. ASSUME NEW r \in Reconcilers, Pull(r) PROVE OneReconciles'
  BY <1>3 DEF Pull
<1>4. ASSUME NEW r \in Reconcilers, DigestFullscreen(r) PROVE OneReconciles'
  BY <1>4 DEF DigestFullscreen, PostFullscreen
<1>5. ASSUME NEW r \in Reconcilers, DigestMaximized(r) PROVE OneReconciles'
  BY <1>5 DEF DigestMaximized
<1>6. CASE UNCHANGED wmvars
  BY <1>6 DEF wmvars
<1> QED BY <1>1, <1>2, <1>3, <1>4, <1>5, <1>6 DEF ModeNext

LEMMA ModeOverlapStays == wm_overlap /\ [ModeNext]_wmvars => wm_overlap'
BY DEF ModeNext, ChangeMode, Subscribe, Pull, DigestFullscreen, DigestMaximized, wmvars

(* The state machine has the window's mode and the state to restore, for   *)
(* any sequence of changes that leaves the start-up reconcile alone.       *)
THEOREM PlaybackFollowsMode == ModeSpec => []ModeAgrees
<1>1. ModeInv /\ [ModeNext]_wmvars => ModeInv'
  BY ModeTypedStep, ReconcileStep, ModeOverlapStays DEF ModeInv
<1>2. ModeInv => ModeAgrees
  BY DEF ModeInv, ModeTyped, OneReconciles, ToldMode, SeenEntering, ModeAgrees
<1> QED BY ModeInitInv, <1>1, <1>2, PTL DEF ModeSpec
-----------------------------------------------------------------------------
(* ViewPaint: a resize and the paint it leads to *)

PaintFlags ==
  /\ vp_alive \in BOOLEAN /\ vp_dirty \in BOOLEAN /\ vp_told \in BOOLEAN
  /\ vp_apply \in BOOLEAN /\ vp_scheduled = vp_apply
  /\ vp_running \in BOOLEAN /\ vp_stop \in BOOLEAN /\ vp_raced \in BOOLEAN

PaintTyped ==
  /\ vp_platform \in {"idle", "begin", "decide", "invalidate", "start"}
  /\ vp_ui \in {"idle", "apply", "tick", "ending", "stop"}
  /\ vp_task \in {"none", "kick", "tick"}
  /\ vp_size \in Nat /\ vp_gen \in Nat /\ vp_seen \in Nat /\ vp_paints \in Nat
  /\ vp_target \in Rates

(* A size CEF has not laid out for is one it will be told to ask for.      *)
SizeIsAskedFor ==
  vp_alive => \/ vp_view = vp_size \/ vp_told \/ vp_apply \/ vp_ui = "apply"
              \/ vp_platform \in {"begin", "decide"}

(* The loop is running as long as it has a task or is in one, and boosts   *)
(* from its first tick to its last.                                        *)
OneLoop ==
  /\ vp_running <=> vp_task # "none" \/ vp_ui \in {"tick", "ending"}
  /\ vp_ui \in {"tick", "ending"} => vp_task = "none"
  /\ vp_saved # NotSaved => vp_task = "tick" \/ vp_ui = "tick"
  /\ vp_alive => IF vp_saved = NotSaved THEN vp_rate = vp_target
                 ELSE vp_saved = vp_target

(* A frame of the latest resize was let through. *)
Counted == vp_gen = vp_seen /\ vp_paints > SkipPaints

Untouched ==
  /\ vp_shown = 0 /\ vp_view = 0 /\ ~vp_dirty /\ ~vp_told /\ ~vp_apply /\ ~vp_running
  /\ vp_ui = "idle" /\ vp_platform \in {"idle", "begin"}

FramesCounted ==
  /\ vp_gen = 0 => Untouched
  /\ vp_alive /\ ~vp_dirty /\ vp_paints > SkipPaints => vp_shown = vp_view
  /\ vp_alive /\ ~vp_running /\ ~vp_raced =>
       vp_gen = 0 \/ Counted \/ vp_platform \in {"decide", "invalidate", "start"}

PaintInv == PaintFlags /\ PaintTyped /\ SizeIsAskedFor /\ OneLoop /\ FramesCounted

LEMMA PaintInitInv == PaintInit => PaintInv
<1> SUFFICES ASSUME PaintInit PROVE PaintInv
  OBVIOUS
<1> USE DEF PaintInit, NotSaved, SkipPaints
<1>1. PaintFlags
  BY DEF PaintFlags
<1>2. PaintTyped
  BY DEF PaintTyped
<1>3. SizeIsAskedFor /\ OneLoop
  BY DEF SizeIsAskedFor, OneLoop
<1>4. FramesCounted
  BY DEF FramesCounted, Untouched
<1> QED BY <1>1, <1>2, <1>3, <1>4 DEF PaintInv

LEMMA PaintFlagsStep ==
  ASSUME PaintInv, [PaintNext]_vpvars
  PROVE  PaintFlags'
<1> USE DEF PaintInv, PaintFlags, vpresize, vpcef, vploop, vpcount, vprate
<1>1. CASE PlatformThread
  BY <1>1 DEF PlatformThread, StoreSize, BeginResize, ResizeNowOrLater, AfterResize,
              PlatformStarts, StartLoop
<1>2. CASE ClearScheduled \/ ApplyPendingResize \/ CefLayout
  BY <1>2 DEF ClearScheduled, ApplyPendingResize, CefLayout, StartLoop
<1>3. CASE Kick \/ NextTick
  BY <1>3 DEF Kick, NextTick, CountTick
<1>4. CASE Tick \/ EndLoop
  BY <1>4 DEF Tick, EndLoop
<1>5. CASE Paint \/ StopAfterPaint \/ SetRefresh \/ BeforeClose
  BY <1>5 DEF Paint, StopAfterPaint, SetRefresh, BeforeClose
<1>6. CASE UNCHANGED vpvars
  BY <1>6 DEF vpvars
<1> QED BY <1>1, <1>2, <1>3, <1>4, <1>5, <1>6 DEF PaintNext, UiThread

LEMMA PaintStep ==
  ASSUME PaintInv, [PaintNext]_vpvars
  PROVE  (PaintTyped /\ SizeIsAskedFor /\ OneLoop /\ FramesCounted)'
<1> DEFINE Goal == (PaintTyped /\ SizeIsAskedFor /\ OneLoop /\ FramesCounted)'
<1> USE ViewPaintAssumption
    DEF PaintInv, PaintFlags, PaintTyped, SizeIsAskedFor, OneLoop, FramesCounted, Counted, Untouched,
        NotSaved, SkipPaints, vpresize, vpcef, vploop, vpcount, vprate
<1>1. CASE StoreSize
  BY <1>1 DEF StoreSize
<1>2. CASE BeginResize
  BY <1>2 DEF BeginResize
<1>3. CASE ResizeNowOrLater
  BY <1>3 DEF ResizeNowOrLater
<1>4. CASE AfterResize
  BY <1>4 DEF AfterResize
<1>5. CASE PlatformStarts
  BY <1>5 DEF PlatformStarts, StartLoop
<1>6. CASE ClearScheduled
  BY <1>6 DEF ClearScheduled
<1>7. CASE ApplyPendingResize
  BY <1>7 DEF ApplyPendingResize, StartLoop
<1>8. CASE CefLayout
  BY <1>8 DEF CefLayout
<1>9. CASE Kick
  BY <1>9 DEF Kick
<1>10. CASE NextTick
  BY <1>10 DEF NextTick
<1>11. CASE Tick
  BY <1>11 DEF Tick, RestoreRate
<1>12. CASE EndLoop
  BY <1>12 DEF EndLoop
<1>13. CASE Paint
  <2>1. /\ vp_gen # 0 /\ vp_alive /\ vp_ui = "idle" /\ ~vp_dirty' /\ vp_seen' = vp_gen
        /\ UNCHANGED <<vp_alive, vp_size, vp_platform, vp_scheduled, vp_apply, vp_told, vp_view,
                       vp_running, vp_task, vp_gen, vp_saved, vp_target, vp_rate, vp_raced>>
    BY <1>13 DEF Paint
  <2> DEFINE Count(due) == IF due THEN 1 ELSE vp_paints + 1
             Pump(due) == IF due THEN PumpTarget ELSE vp_pump
             Counting(due) ==
               /\ vp_paints' = IF Count(due) > PumpTarget THEN PumpTarget + 1 ELSE Count(due)
               /\ vp_shown' = IF Count(due) > 1 THEN vp_view ELSE vp_shown
               /\ vp_ui' = IF Count(due) = Pump(due) THEN "stop" ELSE "idle"
  <2>a. \E due \in {vp_gen # vp_seen, FALSE} : Counting(due)
    BY Zenon, <1>13 DEF Paint
  <2>b. Counting(FALSE) \/ (vp_gen # vp_seen /\ Counting(TRUE))
    <3> HIDE DEF Counting
    <3>1. CASE vp_gen = vp_seen
      <4>1. (vp_gen # vp_seen) = FALSE
        BY <3>1
      <4> QED BY Zenon, <2>a, <4>1
    <3>2. CASE vp_gen # vp_seen
      <4>1. (vp_gen # vp_seen) = TRUE
        BY <3>2
      <4> QED BY Zenon, <2>a, <4>1, <3>2
    <3> QED BY <3>1, <3>2
  <2>2. PICK count \in Nat :
          /\ count = vp_paints + 1 \/ (count = 1 /\ vp_gen # vp_seen)
          /\ vp_paints' = IF count > PumpTarget THEN PumpTarget + 1 ELSE count
          /\ vp_shown' = IF count > 1 THEN vp_view ELSE vp_shown
          /\ vp_ui' \in {"stop", "idle"}
    <3>1. CASE Counting(FALSE)
      <4> WITNESS vp_paints + 1 \in Nat
      <4> QED BY <3>1
    <3>2. CASE vp_gen # vp_seen /\ Counting(TRUE)
      <4> WITNESS 1 \in Nat
      <4> QED BY <3>2
    <3> QED BY <2>b, <3>1, <3>2
  <2>3. vp_paints' \in Nat /\ (vp_paints' > 1 <=> count > 1)
    BY <2>2
  <2>4. vp_gen = vp_seen => count > 1 \/ vp_paints = 0
    BY <2>2
  <2>5. PaintTyped' /\ SizeIsAskedFor'
    BY <2>1, <2>2, <2>3
  <2>6. OneLoop'
    BY <2>1, <2>2
  <2>7. vp_paints' > 1 => vp_shown' = vp_view
    BY <2>2, <2>3
  <2>8. vp_gen = vp_seen /\ vp_paints > 1 => vp_paints' > 1
    BY <2>3, <2>4
  <2>9. FramesCounted'
    BY <2>1, <2>7, <2>8
  <2> QED BY <2>5, <2>6, <2>9
<1>14. CASE StopAfterPaint
  BY <1>14 DEF StopAfterPaint
<1>15. CASE SetRefresh
  BY <1>15 DEF SetRefresh
<1>16. CASE BeforeClose
  BY <1>16 DEF BeforeClose
<1>17. CASE UNCHANGED vpvars
  BY <1>17 DEF vpvars
<1> QED BY <1>1, <1>2, <1>3, <1>4, <1>5, <1>6, <1>7, <1>8, <1>9, <1>10, <1>11, <1>12, <1>13, <1>14,
           <1>15, <1>16, <1>17
        DEF PaintNext, PlatformThread, UiThread

(* resize.rs and paint_scheduler.rs: however resizes are coalesced and the  *)
(* rate changes, both threads come to rest with CEF laid out for the       *)
(* latest size, the loop ended and the display's rate back.                *)
THEOREM LayoutCatchesUp == PaintSpec => []ViewCatchesUp
<1>1. PaintInv /\ [PaintNext]_vpvars => PaintInv'
  BY PaintFlagsStep, PaintStep DEF PaintInv
<1>2. PaintInv => ViewCatchesUp
  BY DEF PaintInv, PaintFlags, PaintTyped, SizeIsAskedFor, OneLoop, FramesCounted, Counted, Untouched,
         ViewCatchesUp, AtRest, NotSaved
<1> QED BY PaintInitInv, <1>1, <1>2, PTL DEF PaintSpec
-----------------------------------------------------------------------------
(* LayerActor: the frames of a layer *)

(* The shadow once a frame has been composed into it. *)
Composed(base, frame) ==
  IF frame.kind = "shm"
  THEN [size |-> frame.size, by |-> "shm",
        px |-> Patched(IF base.size = frame.size THEN base.px ELSE Blank.px, frame.px)]
  ELSE base

JobFrame == IF la_job.kind = "job" THEN la_job.frame ELSE NoFrame
InHand == Composed(la_shadow, JobFrame)
Coming == Composed(InHand, la_box.pending)

BoxFields == {"pending", "valid", "extent", "visible", "hide", "moved", "shutdown"}
IsBox(box) == DOMAIN box = BoxFields
IsShm(frame) == DOMAIN frame = {"kind", "full", "size", "px"}

BoxTyped ==
  /\ IsBox(la_box) /\ la_box.extent = la_extent /\ la_box.visible = la_visible
  /\ la_visible \in BOOLEAN /\ la_box.shutdown \in BOOLEAN
  /\ la_extent \in Extents /\ la_size \in Nat /\ la_paints \in Nat
  /\ la_page \in [Regions -> Nat]
  /\ la_box.pending.kind \in {"none", "placeholder", "shm", "gpu"}
  /\ la_box.pending.kind = "shm" =>
       IsShm(la_box.pending) /\ la_box.pending.full \in BOOLEAN
  /\ la_job.kind \in {"none", "job"}
  /\ la_backend \in {"gpu", "shm"}

(* What makes shadow and mailbox start anew. *)
StartsAnew ==
  /\ la_failed => la_backend = "shm"
  /\ la_backend = "gpu" => la_box.valid = 0 /\ la_box.pending.kind # "shm"
  /\ ~la_visible => la_box.valid = 0 /\ la_box.pending.kind = "none" /\ la_given.by # "page"
  /\ la_box.pending.kind = "placeholder" => la_box.valid = 0 /\ la_given.by # "page"
  /\ la_box.pending.kind = "gpu" => la_box.valid = 0
  /\ la_job.kind = "job" /\ ~la_job.visible => la_job.frame.kind = "none"

(* A frame that waits completes the shadow to the page handed over last;   *)
(* while the mailbox calls the shadow valid, so does what is under way.    *)
Complete ==
  /\ la_box.pending.kind = "shm" =>
       la_given.by = "page" /\ Coming.px = la_given.px
  /\ la_box.valid # 0 /\ ~la_box.shutdown =>
       /\ la_given.by = "page" /\ Coming.px = la_given.px
       /\ Coming.size = la_box.valid /\ la_page = la_given.px

WholePages ==
  /\ la_given.by = "page" => la_given.px \in la_whole
  /\ JobFrame.kind = "shm" => InHand.px \in la_whole
  /\ la_shown.by = "shm" => la_shown.px \in la_whole

(* The page handed over last waits, is in hand or is on the screen. *)
Reached(frame) ==
  IF frame.kind = "shm" THEN InHand.px = la_given.px
  ELSE frame.kind = "none" => la_lost \/ la_shown.by # "shm" \/ la_shown.px = la_given.px

LastIsDrawn ==
  la_given.by = "page" /\ ~la_box.shutdown =>
    \/ la_box.pending.kind \in {"shm", "gpu"}
    \/ /\ la_job.kind = "job" => la_job.visible /\ la_job.frame.kind # "placeholder"
       /\ Reached(JobFrame)

ActorInv == BoxTyped /\ StartsAnew /\ Complete /\ WholePages /\ LastIsDrawn
-----------------------------------------------------------------------------
LEMMA WholeFrame ==
  ASSUME NEW page \in [Regions -> Nat], NEW base
  PROVE  Patched(base, [r \in Regions |-> page[r]]) = page
BY DEF Patched

LEMMA PartFrame ==
  ASSUME NEW page \in [Regions -> Nat], NEW next \in [Regions -> Nat], NEW changed \in SUBSET Regions,
         \A r \in Regions \ changed : next[r] = page[r]
  PROVE  Patched(page, [r \in changed |-> next[r]]) = next
BY DEF Patched

(* The rects of a frame that waits, with later ones laid over them. *)
Merged(changed, next, px) ==
  [r \in changed \cup DOMAIN px |-> IF r \in changed THEN next[r] ELSE px[r]]

LEMMA MergedFrame ==
  ASSUME NEW page \in [Regions -> Nat], NEW next \in [Regions -> Nat], NEW changed \in SUBSET Regions,
         \A r \in Regions \ changed : next[r] = page[r],
         NEW base, NEW px, Patched(base, px) = page
  PROVE  Patched(base, Merged(changed, next, px)) = next
<1> PICK w : w = Merged(changed, next, px)
  OBVIOUS
<1>1. ASSUME NEW r \in Regions PROVE (IF r \in DOMAIN w THEN w[r] ELSE base[r]) = next[r]
  <2>1. page[r] = IF r \in DOMAIN px THEN px[r] ELSE base[r]
    BY DEF Patched
  <2>2. /\ DOMAIN w = changed \cup DOMAIN px
        /\ \A q \in DOMAIN w : w[q] = IF q \in changed THEN next[q] ELSE px[q]
    BY DEF Merged
  <2> QED BY <2>1, <2>2
<1>2. Patched(base, w) = [r \in Regions |-> next[r]]
  BY <1>1 DEF Patched
<1> QED BY <1>2
LEMMA ActorInitInv == ActorInit => ActorInv
<1> SUFFICES ASSUME ActorInit PROVE ActorInv
  OBVIOUS
<1> USE DEF ActorInit
<1>1. BoxTyped
  <2>1. IsBox(la_box)
    BY DEF IsBox, BoxFields
  <2> QED BY <2>1 DEF BoxTyped, NoFrame, Extents
<1>2. StartsAnew
  BY DEF StartsAnew, NoFrame, Blank
<1>3. Complete
  BY DEF Complete, NoFrame
<1>4. WholePages
  BY DEF WholePages, JobFrame, NoFrame, Blank
<1>5. LastIsDrawn
  BY DEF LastIsDrawn, NoFrame, Blank
<1> QED BY <1>1, <1>2, <1>3, <1>4, <1>5 DEF ActorInv

(* A paint on CEF's thread. *)
LEMMA PresentStep == ActorInv /\ SurfacePresentSoftware => ActorInv'
<1> SUFFICES ASSUME ActorInv, SurfacePresentSoftware PROVE ActorInv'
  OBVIOUS
<1>1. PICK size \in {la_size, la_extent} \ {0}, changed \in SUBSET Regions \ {{}} :
        /\ PaintFrame(size, changed)
        /\ IF ~la_visible \/ la_box.shutdown
           THEN UNCHANGED <<la_box, la_given, la_whole>>
           ELSE LET box == Resize(SetVisible(la_box, la_visible), la_extent)
                    gpu == la_backend = "gpu" /\ ~la_failed
                IN /\ la_box' = IF gpu THEN EnqueueGpu(box, la_page', changed, size)
                                ELSE EnqueueShm(box, la_page', changed, size)
                   /\ la_given' = [size |-> size, px |-> la_page', by |-> "page"]
                   /\ la_whole' = la_whole \cup {la_page'}
  BY DEF SurfacePresentSoftware
<1>2. UNCHANGED <<la_changes, la_extent, la_visible, la_job, laworker, la_lost>>
  BY DEF SurfacePresentSoftware
<1>3. BoxTyped /\ StartsAnew /\ Complete /\ WholePages /\ LastIsDrawn
  BY DEF ActorInv
<1>4. /\ la_page' \in [Regions -> Nat] /\ la_size' \in Nat /\ la_paints' \in Nat
      /\ size \in Nat \ {0}
      /\ \A r \in Regions \ changed : la_page'[r] = la_page[r]
  BY <1>1, <1>3 DEF PaintFrame, BoxTyped, Extents
<1>5. InHand' = InHand /\ JobFrame' = JobFrame
  BY <1>2 DEF InHand, JobFrame, laworker
<1>6. CASE ~la_visible \/ la_box.shutdown
  <2>1. UNCHANGED <<la_box, la_given, la_whole>>
    BY <1>1, <1>6
  <2>2. Coming' = Coming
    BY <1>5, <2>1 DEF Coming
  <2>3. BoxTyped'
    BY <1>2, <1>3, <1>4, <2>1 DEF BoxTyped, laworker
  <2>4. StartsAnew'
    BY <1>2, <1>3, <2>1 DEF StartsAnew, laworker
  <2>5. Complete'
    BY <1>3, <1>6, <2>1, <2>2 DEF Complete, StartsAnew
  <2>6. WholePages'
    BY <1>2, <1>3, <1>5, <2>1 DEF WholePages, laworker
  <2>7. LastIsDrawn'
    BY <1>2, <1>3, <1>5, <2>1 DEF LastIsDrawn, Reached, laworker
  <2> QED BY <2>3, <2>4, <2>5, <2>6, <2>7 DEF ActorInv
<1>7. CASE la_visible /\ ~la_box.shutdown
  <2> PICK box : box = Resize(SetVisible(la_box, la_visible), la_extent)
    OBVIOUS
  <2>1. IsBox(box) /\ \A f \in BoxFields : box[f] = la_box[f]
    <3> PICK seen : seen = [la_box EXCEPT !.visible = TRUE]
      OBVIOUS
    <3>1. IsBox(la_box) /\ la_box.extent = la_extent /\ la_box.visible = TRUE
      BY <1>3, <1>7 DEF BoxTyped
    <3>2. IsBox(seen) /\ \A f \in BoxFields : seen[f] = la_box[f]
      BY <3>1 DEF IsBox, BoxFields
    <3>3. seen.extent = la_extent
      BY <3>1, <3>2 DEF BoxFields
    <3>4. SetVisible(la_box, la_visible) = seen
      BY <1>7 DEF SetVisible
    <3>5. box = seen
      BY <3>3, <3>4 DEF Resize
    <3> QED BY <3>2, <3>5
  <2>0. /\ box.valid = la_box.valid /\ box.pending = la_box.pending /\ box.extent = la_extent
        /\ box.visible = la_visible /\ box.shutdown = la_box.shutdown
    BY <1>3, <2>1 DEF BoxFields, BoxTyped
  <2>2. /\ la_box' = IF la_backend = "gpu" /\ ~la_failed THEN EnqueueGpu(box, la_page', changed, size)
                     ELSE EnqueueShm(box, la_page', changed, size)
        /\ la_given' = [size |-> size, px |-> la_page', by |-> "page"]
        /\ la_whole' = la_whole \cup {la_page'}
    BY <1>1, <1>7
  (* What either kind of frame leaves to show. *)
  <2>3. ASSUME la_box'.pending.kind \in {"shm", "gpu"},
               IsBox(la_box'), la_box'.extent = box.extent, la_box'.visible = box.visible,
               la_box'.shutdown = box.shutdown,
               la_box'.pending.kind = "shm" =>
                 /\ IsShm(la_box'.pending) /\ la_box'.pending.full \in BOOLEAN
                 /\ la_box'.pending.size = size
                 /\ Coming'.px = la_page' /\ la_box'.valid = size /\ la_backend # "gpu",
               la_box'.pending.kind = "gpu" => la_box'.valid = 0
        PROVE  ActorInv'
    <3>1. /\ la_box'.extent = la_extent /\ la_box'.visible = la_visible
          /\ la_box'.shutdown = la_box.shutdown
      BY <2>0, <2>3
    <3>2. BoxTyped'
      BY <1>2, <1>3, <1>4, <2>3, <3>1 DEF BoxTyped, laworker
    <3>3. StartsAnew'
      BY <1>2, <1>3, <1>7, <2>3 DEF StartsAnew, laworker
    <3>4. Complete'
      <4>1. la_given'.by = "page" /\ la_given'.px = la_page'
        BY <2>2
      <4>2. la_box'.pending.kind = "shm" => Coming'.size = size
        BY <2>3 DEF Coming, Composed
      <4> QED BY <2>3, <4>1, <4>2 DEF Complete
    <3>5. WholePages'
      <4>1. la_given'.by = "page" /\ la_given'.px = la_page' /\ la_whole' = la_whole \cup {la_page'}
        BY <2>2
      <4> QED BY <1>2, <1>3, <1>5, <4>1 DEF WholePages, laworker
    <3>6. LastIsDrawn'
      BY <2>3 DEF LastIsDrawn
    <3> QED BY <3>2, <3>3, <3>4, <3>5, <3>6 DEF ActorInv
  <2>4. CASE la_backend = "gpu" /\ ~la_failed
    <3> PICK frame : frame = [kind |-> "gpu", size |-> size, px |-> la_page', dirty |-> changed]
      OBVIOUS
    <3>1. la_box' = [box EXCEPT !.pending = frame]
      BY <2>2, <2>4 DEF EnqueueGpu
    <3>2. /\ IsBox(la_box') /\ la_box'.pending = frame /\ la_box'.valid = box.valid
          /\ la_box'.extent = box.extent /\ la_box'.visible = box.visible
          /\ la_box'.shutdown = box.shutdown
      BY <2>1, <3>1 DEF IsBox, BoxFields
    <3>3. la_box'.pending.kind = "gpu" /\ la_box'.valid = 0
      BY <1>3, <2>0, <2>4, <3>2 DEF StartsAnew
    <3> QED BY <2>3, <3>2, <3>3
  <2>5. CASE la_backend = "shm"
    <3>1. la_box' = EnqueueShm(box, la_page', changed, size)
      BY <2>2, <2>5
    <3>2. CASE NeedsFullCopy(box, size)
      <4> PICK rects : rects = [r \in Regions |-> la_page'[r]]
        OBVIOUS
      <4> PICK frame : frame = [kind |-> "shm", full |-> TRUE, size |-> size, px |-> rects]
        OBVIOUS
      <4>1. la_box' = [box EXCEPT !.pending = frame, !.valid = size]
        BY <3>1, <3>2 DEF EnqueueShm, StoreShm
      <4>2. /\ IsBox(la_box') /\ la_box'.pending = frame /\ la_box'.valid = size
            /\ la_box'.extent = box.extent /\ la_box'.visible = box.visible
            /\ la_box'.shutdown = box.shutdown
        BY <2>1, <4>1 DEF IsBox, BoxFields
      <4>3. \A base : Patched(base, rects) = la_page'
        BY <1>4, WholeFrame
      <4>4. Coming'.px = la_page'
        BY <4>2, <4>3 DEF Coming, Composed
      <4> QED BY <2>3, <2>5, <4>2, <4>4 DEF IsShm
    <3>3. CASE ~NeedsFullCopy(box, size)
      <4> PICK rects : rects = [r \in changed |-> la_page'[r]]
        OBVIOUS
      <4>1. la_box.valid = size /\ la_box.valid # 0
            /\ (la_box.pending.kind = "shm" => ~la_box.pending.full)
        BY <1>4, <2>0, <3>3 DEF NeedsFullCopy
      <4>2. la_box.pending.kind \in {"none", "shm"}
        BY <1>3, <4>1 DEF BoxTyped, StartsAnew
      <4>3. Coming.px = la_page /\ Coming.size = size
        BY <1>3, <1>7, <4>1 DEF Complete
      <4>4. la_box' = StoreShm(box, rects, FALSE, size)
        <5>1. NeedsFullCopy(box, size) = FALSE
          BY <3>3 DEF NeedsFullCopy
        <5>2. la_box' = StoreShm(box, [r \in changed |-> la_page'[r]], FALSE, size)
          <6>1. (IF NeedsFullCopy(box, size) THEN Regions ELSE changed) = changed
            BY <3>3
          <6> QED BY Zenon, <3>1, <5>1, <6>1 DEF EnqueueShm
        <5> QED BY <5>2
      <4>5. CASE la_box.pending.kind = "shm"
        <5> PICK px : px = Merged(changed, la_page', la_box.pending.px)
          OBVIOUS
        <5>1. la_box.pending.size = size
          BY <4>3, <4>5 DEF Coming, Composed
        <5> PICK frame : frame = [la_box.pending EXCEPT !.px = px]
          OBVIOUS
        <5>f. /\ IsShm(frame) /\ frame.kind = "shm" /\ frame.full \in BOOLEAN
              /\ frame.size = size /\ frame.px = px
          BY <1>3, <4>5, <5>1 DEF BoxTyped, IsShm
        <5>2. la_box' = [box EXCEPT !.pending = frame]
          <6>1. DOMAIN rects = changed /\ \A r \in changed : rects[r] = la_page'[r]
            OBVIOUS
          <6>2. la_box' = [box EXCEPT !.pending.px =
                             [r \in DOMAIN rects \cup DOMAIN @ |->
                                IF r \in DOMAIN rects THEN rects[r] ELSE @[r]]]
            BY <2>0, <4>1, <4>4, <4>5, <5>1 DEF StoreShm
          <6>3. [r \in DOMAIN rects \cup DOMAIN box.pending.px |->
                   IF r \in DOMAIN rects THEN rects[r] ELSE box.pending.px[r]] = px
            BY <2>0, <6>1 DEF Merged
          <6>4. la_box' = [box EXCEPT !.pending = [box.pending EXCEPT !.px = px]]
            BY <6>2, <6>3
          <6> QED BY <2>0, <6>4
        <5>3. /\ IsBox(la_box') /\ la_box'.pending = frame /\ la_box'.valid = size
              /\ la_box'.extent = box.extent /\ la_box'.visible = box.visible
              /\ la_box'.shutdown = box.shutdown
          <6>1. /\ IsBox(la_box') /\ la_box'.pending = frame /\ la_box'.valid = box.valid
                /\ la_box'.extent = box.extent /\ la_box'.visible = box.visible
                /\ la_box'.shutdown = box.shutdown
            BY <2>1, <5>2 DEF IsBox, BoxFields
          <6> QED BY <2>0, <4>1, <6>1
        <5> PICK base : base = IF InHand.size = size THEN InHand.px ELSE Blank.px
          OBVIOUS
        <5>4. Patched(base, la_box.pending.px) = la_page
          BY <4>3, <4>5, <5>1 DEF Coming, Composed
        <5>5. la_page \in [Regions -> Nat]
          BY <1>3 DEF BoxTyped
        <5>6. Patched(base, px) = la_page'
          BY <1>4, <5>4, <5>5, MergedFrame
        <5>7. Coming'.px = la_page'
          <6>1. Coming' = Composed(InHand, la_box'.pending)
            BY <1>5 DEF Coming
          <6> QED BY <5>3, <5>6, <5>f, <6>1 DEF Composed
        <5> QED BY <2>3, <2>5, <5>3, <5>7, <5>f
      <4>6. CASE la_box.pending.kind = "none"
        <5> PICK frame : frame = [kind |-> "shm", full |-> FALSE, size |-> size, px |-> rects]
          OBVIOUS
        <5>1. la_box' = [box EXCEPT !.pending = frame, !.valid = box.valid]
          BY <2>0, <4>4, <4>6 DEF StoreShm
        <5>2. /\ IsBox(la_box') /\ la_box'.pending = frame /\ la_box'.valid = size
              /\ la_box'.extent = box.extent /\ la_box'.visible = box.visible
              /\ la_box'.shutdown = box.shutdown
          <6>1. /\ IsBox(la_box') /\ la_box'.pending = frame /\ la_box'.valid = box.valid
                /\ la_box'.extent = box.extent /\ la_box'.visible = box.visible
                /\ la_box'.shutdown = box.shutdown
            BY <2>1, <5>1 DEF IsBox, BoxFields
          <6> QED BY <2>0, <4>1, <6>1
        <5>3. InHand.size = size /\ InHand.px = la_page
          BY <4>3, <4>6 DEF Coming, Composed
        <5>4. la_page \in [Regions -> Nat]
          BY <1>3 DEF BoxTyped
        <5>5. Patched(la_page, rects) = la_page'
          BY <1>4, <5>4, PartFrame
        <5>6. Coming'.px = la_page'
          <6>1. Coming' = Composed(InHand, la_box'.pending)
            BY <1>5 DEF Coming
          <6> QED BY <5>2, <5>3, <5>5, <6>1 DEF Composed
        <5> QED BY <2>3, <2>5, <5>2, <5>6 DEF IsShm
      <4> QED BY <4>2, <4>5, <4>6
    <3> QED BY <3>2, <3>3
  <2> QED BY <1>3, <2>4, <2>5 DEF StartsAnew, BoxTyped
<1> QED BY <1>3, <1>6, <1>7 DEF BoxTyped
(* The window, which hides the layer, shows it, resizes it or frees it. *)
LEMMA WindowStep == ActorInv /\ (SurfaceSetVisible \/ OnConfigure \/ FreeSurface) => ActorInv'
<1> SUFFICES ASSUME ActorInv, SurfaceSetVisible \/ OnConfigure \/ FreeSurface PROVE ActorInv'
  OBVIOUS
<1>1. BoxTyped /\ StartsAnew /\ Complete /\ WholePages /\ LastIsDrawn /\ IsBox(la_box)
  BY DEF ActorInv, BoxTyped
<1>2. UNCHANGED <<lapage, la_job, laworker, la_whole, la_lost>>
  BY DEF SurfaceSetVisible, OnConfigure, FreeSurface
<1>3. InHand' = InHand /\ JobFrame' = JobFrame
  BY <1>2 DEF InHand, JobFrame, laworker
(* A mailbox that is to start anew. *)
<1>4. ASSUME IsBox(la_box'), la_box'.extent = la_extent', la_box'.visible = la_visible',
             la_box'.shutdown = la_box.shutdown, la_box'.valid = 0,
             la_extent' \in Extents, la_visible' \in BOOLEAN,
             \/ la_given' = la_given /\ (~la_visible' => ~la_visible)
             \/ la_given' = Blank /\ la_box'.pending.kind # "shm",
             \/ la_box'.pending = la_box.pending
             \/ la_box'.pending = NoFrame
             \/ la_box'.pending = [kind |-> "placeholder"],
             la_box'.pending.kind = "placeholder" => la_given'.by # "page",
             ~la_visible' => la_box'.pending.kind = "none" /\ la_given'.by # "page",
             la_given'.by = "page" => la_box'.pending = la_box.pending
      PROVE  ActorInv'
  <2>1. /\ la_box'.pending.kind \in {"none", "placeholder", "shm", "gpu"}
        /\ la_box'.pending.kind \in {"shm", "gpu"} => la_box'.pending = la_box.pending
    BY <1>1, <1>4 DEF BoxTyped, NoFrame
  <2>2. BoxTyped'
    BY <1>1, <1>2, <1>4, <2>1 DEF BoxTyped, lapage, laworker
  <2>3. StartsAnew'
    BY <1>1, <1>2, <1>4, <2>1 DEF StartsAnew, laworker
  <2>4. Complete'
    <3>1. la_box'.pending.kind = "shm" => Coming' = Coming
      BY <1>3, <2>1 DEF Coming
    <3>2. la_box'.pending.kind = "shm" => la_given' = la_given
      BY <1>4
    <3> QED BY <1>1, <1>4, <2>1, <3>1, <3>2 DEF Complete
  <2>5. WholePages'
    <3>1. la_given'.by = "page" => la_given' = la_given
      BY <1>4 DEF Blank
    <3> QED BY <1>1, <1>2, <1>3, <3>1 DEF WholePages, laworker
  <2>6. LastIsDrawn'
    <3>1. la_given'.by = "page" => la_given' = la_given
      BY <1>4 DEF Blank
    <3>2. Reached(JobFrame)' <=> (IF JobFrame.kind = "shm" THEN InHand.px = la_given'.px
            ELSE JobFrame.kind = "none" => la_lost \/ la_shown.by # "shm" \/ la_shown.px = la_given'.px)
      BY <1>2, <1>3 DEF Reached, laworker
    <3> QED BY <1>1, <1>2, <1>3, <1>4, <3>1, <3>2 DEF LastIsDrawn, Reached
  <2> QED BY <2>2, <2>3, <2>4, <2>5, <2>6 DEF ActorInv
<1>5. CASE SurfaceSetVisible
  <2>1. la_visible' = ~la_visible /\ la_visible' \in BOOLEAN /\ la_extent' = la_extent
        /\ UNCHANGED la_box.shutdown
    <3>1. la_visible' = ~la_visible /\ la_extent' = la_extent
      BY <1>5 DEF SurfaceSetVisible
    <3> QED BY <1>1, <1>5, <3>1 DEF SurfaceSetVisible, SetVisible, RequestPlaceholder, BoxTyped, IsBox, BoxFields
  <2>2. CASE ~la_visible'
    <3>1. la_box' = [la_box EXCEPT !.visible = FALSE, !.pending = NoFrame, !.hide = TRUE, !.valid = 0]
          /\ la_given' = Blank
      BY <1>5, <2>2 DEF SurfaceSetVisible, SetVisible
    <3>2. /\ IsBox(la_box') /\ la_box'.extent = la_extent' /\ la_box'.visible = FALSE
          /\ la_box'.shutdown = la_box.shutdown /\ la_box'.valid = 0 /\ la_box'.pending = NoFrame
      BY <1>1, <2>1, <3>1 DEF BoxTyped, IsBox, BoxFields
    <3>3. la_box'.pending.kind = "none" /\ la_given'.by = "none"
      BY <3>1, <3>2 DEF NoFrame, Blank
    <3>4. la_visible' = FALSE
      BY <2>1, <2>2
    <3> QED BY <1>1, <1>4, <2>1, <3>1, <3>2, <3>3, <3>4 DEF BoxTyped
  <2>3. CASE la_visible'
    <3> PICK box : box = [la_box EXCEPT !.visible = TRUE]
      OBVIOUS
    <3>1. /\ la_box' = IF la_backend # "gpu" /\ ~la_failed
                       THEN [box EXCEPT !.pending = [kind |-> "placeholder"], !.valid = 0] ELSE box
          /\ la_given' = la_given /\ ~la_visible
      BY <1>2, <1>5, <2>1, <2>3 DEF SurfaceSetVisible, SetVisible, RequestPlaceholder, laworker
    <3>2. la_box.valid = 0 /\ la_box.pending.kind = "none" /\ la_given.by # "page"
      BY <1>1, <3>1 DEF StartsAnew
    <3>3. /\ IsBox(la_box') /\ la_box'.extent = la_extent' /\ la_box'.visible = TRUE
          /\ la_box'.shutdown = la_box.shutdown /\ la_box'.valid = 0
          /\ (la_box'.pending = la_box.pending \/ la_box'.pending = [kind |-> "placeholder"])
      BY <1>1, <2>1, <3>1, <3>2 DEF BoxTyped, IsBox, BoxFields
    <3>4. la_visible' = TRUE
      BY <2>1, <2>3
    <3> QED BY <1>1, <1>4, <2>1, <3>1, <3>2, <3>3, <3>4 DEF BoxTyped
  <2> QED BY <2>2, <2>3
<1>6. CASE OnConfigure
  <2>1. PICK extent \in Extents \ {la_extent} : la_extent' = extent /\ la_box' = Resize(la_box, extent)
    BY <1>6 DEF OnConfigure
  <2>2. la_box' = [la_box EXCEPT !.extent = extent, !.moved = TRUE, !.valid = 0]
    BY <1>1, <2>1 DEF Resize, BoxTyped
  <2>3. /\ IsBox(la_box') /\ la_box'.extent = la_extent' /\ la_box'.visible = la_visible
        /\ la_box'.shutdown = la_box.shutdown /\ la_box'.valid = 0 /\ la_box'.pending = la_box.pending
    BY <1>1, <2>1, <2>2 DEF BoxTyped, IsBox, BoxFields
  <2>4. la_visible' = la_visible /\ la_given' = la_given /\ la_visible \in BOOLEAN
    BY <1>1, <1>6 DEF OnConfigure, BoxTyped
  <2>5. /\ la_box.pending.kind = "placeholder" => la_given.by # "page"
        /\ ~la_visible => la_box.pending.kind = "none" /\ la_given.by # "page"
    BY <1>1 DEF StartsAnew
  <2> QED BY <1>4, <2>1, <2>3, <2>4, <2>5
<1>7. CASE FreeSurface
  <2>1. la_box' = [la_box EXCEPT !.shutdown = TRUE, !.pending = NoFrame]
        /\ UNCHANGED <<la_extent, la_visible, la_given>>
    BY <1>7 DEF FreeSurface
  <2>2. /\ IsBox(la_box') /\ la_box'.extent = la_extent /\ la_box'.visible = la_visible
        /\ la_box'.shutdown = TRUE /\ la_box'.valid = la_box.valid /\ la_box'.pending = NoFrame
    BY <1>1, <2>1 DEF BoxTyped, IsBox, BoxFields
  <2>3. la_box'.pending.kind = "none"
    BY <2>2 DEF NoFrame
  <2>4. BoxTyped'
    BY <1>1, <1>2, <2>1, <2>2, <2>3 DEF BoxTyped, lapage, laworker
  <2>5. StartsAnew'
    BY <1>1, <1>2, <2>1, <2>2, <2>3 DEF StartsAnew, laworker
  <2>6. Complete' /\ LastIsDrawn'
    BY <2>2, <2>3 DEF Complete, LastIsDrawn
  <2>7. WholePages'
    BY <1>1, <1>2, <1>3, <2>1 DEF WholePages, laworker
  <2> QED BY <2>4, <2>5, <2>6, <2>7 DEF ActorInv
<1> QED BY <1>5, <1>6, <1>7

LEMMA TakeStep == ActorInv /\ TakeJob => ActorInv'
<1> SUFFICES ASSUME ActorInv, TakeJob PROVE ActorInv'
  OBVIOUS
<1>1. BoxTyped /\ StartsAnew /\ Complete /\ WholePages /\ LastIsDrawn /\ IsBox(la_box)
  BY DEF ActorInv, BoxTyped
<1> PICK frame : frame = la_box.pending
  OBVIOUS
<1>2. /\ la_job.kind = "none" /\ ~la_box.shutdown
      /\ la_job' = [kind |-> "job", frame |-> frame, visible |-> la_visible, moved |-> la_box.moved]
      /\ la_box' = [la_box EXCEPT !.pending = NoFrame, !.hide = FALSE, !.moved = FALSE]
      /\ UNCHANGED <<lapage, la_extent, la_visible, laworker, la_given, la_whole, la_lost>>
  BY <1>1 DEF TakeJob, BoxTyped
<1>3. /\ IsBox(la_box') /\ la_box'.extent = la_extent /\ la_box'.visible = la_visible
      /\ la_box'.shutdown = la_box.shutdown /\ la_box'.valid = la_box.valid /\ la_box'.pending = NoFrame
  BY <1>1, <1>2 DEF BoxTyped, IsBox, BoxFields
<1>4. la_box'.pending.kind = "none"
  BY <1>3 DEF NoFrame
<1>5. la_job'.kind = "job" /\ la_job'.frame = frame /\ la_job'.visible = la_visible
  BY <1>2
<1>6. JobFrame' = frame
  BY <1>5 DEF JobFrame
<1>7. InHand = la_shadow /\ Coming = Composed(la_shadow, frame)
  BY <1>2 DEF InHand, Coming, JobFrame, NoFrame, Composed
<1>8. InHand' = Coming /\ Coming' = Coming
  <2>1. InHand' = Composed(la_shadow, frame)
    BY <1>2, <1>6 DEF InHand, laworker
  <2>2. Coming' = InHand'
    BY <1>4 DEF Coming, Composed
  <2> QED BY <1>7, <2>1, <2>2
<1>9. BoxTyped'
  BY <1>1, <1>2, <1>3, <1>4, <1>5 DEF BoxTyped, lapage, laworker
<1>10. StartsAnew'
  BY <1>1, <1>2, <1>3, <1>4, <1>5 DEF StartsAnew, laworker
<1>11. Complete'
  BY <1>1, <1>2, <1>3, <1>4, <1>8 DEF Complete, lapage
<1>12. WholePages'
  BY <1>1, <1>2, <1>6, <1>8 DEF WholePages, Complete, laworker
<1>13. LastIsDrawn'
  <2> SUFFICES ASSUME la_given.by = "page" PROVE LastIsDrawn'
    BY <1>2 DEF LastIsDrawn
  <2>1. la_visible /\ frame.kind # "placeholder"
    BY <1>1 DEF StartsAnew
  <2>2. CASE frame.kind = "shm"
    <3>1. InHand'.px = la_given'.px
      BY <1>1, <1>2, <1>8, <2>2 DEF Complete
    <3> QED BY <1>5, <1>6, <2>1, <2>2, <3>1 DEF LastIsDrawn, Reached
  <2>3. CASE frame.kind = "gpu"
    BY <1>5, <1>6, <2>1, <2>3 DEF LastIsDrawn, Reached
  <2>4. CASE frame.kind = "none"
    <3>1. JobFrame.kind = "none" /\ Reached(JobFrame)
      BY <1>1, <1>2, <2>4 DEF LastIsDrawn, JobFrame, NoFrame
    <3>2. la_lost \/ la_shown.by # "shm" \/ la_shown.px = la_given.px
      BY <3>1 DEF Reached
    <3>3. (la_lost \/ la_shown.by # "shm" \/ la_shown.px = la_given.px)'
      BY <1>2, <3>2 DEF laworker
    <3> QED BY <1>5, <1>6, <2>1, <2>4, <3>3 DEF LastIsDrawn, Reached
  <2> QED BY <1>1, <2>1, <2>2, <2>3, <2>4 DEF BoxTyped
<1> QED BY <1>9, <1>10, <1>11, <1>12, <1>13 DEF ActorInv

(* What the worker makes of a job. *)
LEMMA PerformStep == ActorInv /\ PerformJob => ActorInv'
<1> SUFFICES ASSUME ActorInv, PerformJob PROVE ActorInv'
  OBVIOUS
<1>1. BoxTyped /\ StartsAnew /\ Complete /\ WholePages /\ LastIsDrawn /\ IsBox(la_box)
  BY DEF ActorInv, BoxTyped
<1> PICK frame : frame = la_job.frame
  OBVIOUS
<1>2. /\ la_job.kind = "job" /\ la_job' = NoFrame
      /\ UNCHANGED <<lapage, la_extent, la_visible, la_box, la_given, la_whole>>
      /\ JobFrame = frame
  BY DEF PerformJob, JobFrame
<1>3. la_job'.kind = "none" /\ JobFrame' = NoFrame /\ InHand' = la_shadow'
  BY <1>2 DEF NoFrame, JobFrame, InHand, Composed
<1>4. /\ frame.kind = "shm" => la_job.visible
      /\ la_given.by = "page" /\ ~la_box.shutdown /\ la_box.pending.kind \notin {"shm", "gpu"} =>
           la_job.visible /\ frame.kind # "placeholder" /\ Reached(frame)
  BY <1>1, <1>2 DEF StartsAnew, LastIsDrawn
(* The shadow has what was in hand, and the screen what is still to show. *)
<1>5. ASSUME la_shadow' = InHand, la_backend' \in {"gpu", "shm"}, la_failed' => la_backend' = "shm",
             la_backend' = "gpu" => la_backend = "gpu",
             la_shown'.by = "shm" => la_shown' = la_shown \/ (frame.kind = "shm" /\ la_shown'.px = InHand.px),
             la_job.visible /\ frame.kind # "placeholder" =>
               \/ la_lost' \/ la_shown'.by # "shm"
               \/ frame.kind = "shm" /\ la_shown'.px = InHand.px
               \/ frame.kind = "none" /\ la_lost' = la_lost /\ la_shown' = la_shown
      PROVE  ActorInv'
  <2>1. InHand' = InHand
    BY <1>3, <1>5
  <2>2. Coming' = Coming
    BY <1>2, <2>1 DEF Coming
  <2>3. BoxTyped'
    BY <1>1, <1>2, <1>3, <1>5 DEF BoxTyped, lapage
  <2>4. StartsAnew'
    BY <1>1, <1>2, <1>3, <1>5 DEF StartsAnew
  <2>5. Complete'
    BY <1>1, <1>2, <2>2 DEF Complete, lapage
  <2>6. WholePages'
    <3>1. JobFrame'.kind = "none"
      BY <1>3 DEF NoFrame
    <3>2. frame.kind = "shm" => InHand.px \in la_whole
      BY <1>1, <1>2 DEF WholePages
    <3>3. la_shown'.by = "shm" => la_shown'.px \in la_whole
      BY <1>1, <1>5, <3>2 DEF WholePages
    <3> QED BY <1>1, <1>2, <3>1, <3>3 DEF WholePages
  <2>7. LastIsDrawn'
    <3> SUFFICES ASSUME la_given.by = "page", ~la_box.shutdown, la_box.pending.kind \notin {"shm", "gpu"}
                 PROVE  la_lost' \/ la_shown'.by # "shm" \/ la_shown'.px = la_given.px
      BY <1>2, <1>3 DEF LastIsDrawn, Reached, NoFrame
    <3> QED BY <1>4, <1>5 DEF Reached
  <2> QED BY <2>3, <2>4, <2>5, <2>6, <2>7 DEF ActorInv
<1>6. frame.kind # "shm" => InHand = la_shadow
  BY <1>2 DEF InHand, Composed
<1>7. la_backend \in {"gpu", "shm"} /\ (la_failed => la_backend = "shm")
  BY <1>1 DEF BoxTyped, StartsAnew
<1>8. CASE Hide
  <2>1. ~la_job.visible /\ frame.kind # "shm" /\ la_shadow' = InHand
    BY <1>4, <1>6, <1>8 DEF Hide
  <2>2. UNCHANGED <<la_backend, la_failed>> /\ (la_shown'.by = "shm" => la_shown' = la_shown)
    BY <1>8 DEF Hide, Blank
  <2> QED BY <1>5, <1>7, <2>1, <2>2
<1>9. CASE PresentPlaceholder
  <2>1. frame.kind = "placeholder" /\ la_shadow' = InHand
    BY <1>6, <1>9 DEF PresentPlaceholder
  <2>2. UNCHANGED <<la_backend, la_failed>> /\ (la_shown'.by = "shm" => la_shown' = la_shown)
    BY <1>9 DEF PresentPlaceholder, Blank
  <2> QED BY <1>5, <1>7, <2>1, <2>2
<1>10. CASE PresentShm
  <2>1. frame.kind = "shm" /\ la_shadow' = InHand
    BY <1>2, <1>10 DEF PresentShm, ComposeShadow, InHand, Composed
  <2>2. UNCHANGED <<la_backend, la_failed>> /\ (la_shown' = la_shadow' \/ (la_lost' /\ la_shown' = la_shown))
    BY <1>10 DEF PresentShm
  <2> QED BY <1>5, <1>7, <2>1, <2>2
<1>11. CASE PresentGpu
  <2>1. frame.kind = "gpu" /\ la_shadow' = InHand
    BY <1>6, <1>11 DEF PresentGpu
  <2>2. (la_shown' = la_shown /\ la_lost') \/ (la_shown'.by = "gpu" /\ UNCHANGED <<la_backend, la_failed>>)
    BY <1>11 DEF PresentGpu, Upload
  <2>3. /\ la_backend = "gpu" /\ la_backend' \in {"gpu", "shm"}
        /\ (la_failed' => la_backend' = "shm")
    BY <1>7, <1>11 DEF PresentGpu
  <2> QED BY <1>5, <2>1, <2>2, <2>3
<1>12. CASE SkipGpu
  <2>1. frame.kind = "gpu" /\ la_shadow' = InHand /\ la_lost'
    BY <1>6, <1>12 DEF SkipGpu, laworker
  <2>2. UNCHANGED <<la_backend, la_failed, la_shown>>
    BY <1>12 DEF SkipGpu, laworker
  <2> QED BY <1>5, <1>7, <2>1, <2>2
<1>13. CASE ReapplyViewport
  <2>1. frame.kind = "none" /\ la_shadow' = InHand
    BY <1>6, <1>13 DEF ReapplyViewport, laworker
  <2>2. UNCHANGED <<la_backend, la_failed, la_shown, la_lost>>
    BY <1>13 DEF ReapplyViewport, laworker
  <2> QED BY <1>5, <1>7, <2>1, <2>2
<1> QED BY <1>8, <1>9, <1>10, <1>11, <1>12, <1>13 DEF PerformJob

LEMMA ActorStill == ActorInv /\ UNCHANGED lavars => ActorInv'
<1> SUFFICES ASSUME ActorInv, UNCHANGED lavars PROVE ActorInv'
  OBVIOUS
<1> USE DEF ActorInv, lavars, lapage, laworker
<1>1. JobFrame' = JobFrame /\ InHand' = InHand /\ Coming' = Coming
  BY DEF JobFrame, InHand, Coming
<1>2. BoxTyped' /\ StartsAnew' /\ Complete'
  BY <1>1 DEF BoxTyped, StartsAnew, Complete
<1>3. WholePages' /\ LastIsDrawn'
  BY <1>1 DEF WholePages, LastIsDrawn, Reached
<1> QED BY <1>2, <1>3

(* wl_ops.rs and layer_actor.rs: however frames are dropped, merged and     *)
(* copied in part, shared memory shows one page of the browser, and once   *)
(* the worker has caught up, the last.                                     *)
THEOREM PagesAreWhole == ActorSpec => []LayerShowsAPage
<1>1. ActorInv /\ [ActorNext]_lavars => ActorInv'
  BY PresentStep, WindowStep, TakeStep, PerformStep, ActorStill DEF ActorNext
<1>2. ActorInv => LayerShowsAPage
  <2> SUFFICES ASSUME ActorInv, la_shown.by = "shm" PROVE LayerShowsAPage
    BY DEF LayerShowsAPage
  <2>1. Whole
    BY DEF ActorInv, WholePages, Whole
  <2>2. ASSUME Drawn, la_given.by = "page", ~la_lost PROVE la_shown.px = la_given.px
    BY <2>2 DEF ActorInv, LastIsDrawn, Reached, Drawn, JobFrame, NoFrame
  <2> QED BY <2>1, <2>2 DEF LayerShowsAPage
<1> QED BY ActorInitInv, <1>1, <1>2, PTL DEF ActorSpec
-----------------------------------------------------------------------------
(* RootWindow: what the root thread sleeps on *)

WindowModes == {"fullscreen", "maximized", "floating"}
WindowEvents == [kind : {"scale"}] \cup [kind : {"configure"}, mode : WindowModes]

RootStates == [mode : WindowModes, configured : BOOLEAN, present : BOOLEAN,
               discovery : {"idle", "requested", "spawned"}, pre_max : BOOLEAN, bg : Nat]
Scales == {"none", "provisional", "authoritative"}

RootTyped ==
  /\ rw_root \in RootStates
  /\ rw_comp \in [fs : BOOLEAN, max : BOOLEAN]
  /\ rw_events \in Seq(WindowEvents) /\ rw_cmds \in Seq(BOOLEAN) /\ rw_bg \in Nat
  /\ rw_max \in BOOLEAN
  /\ rw_scale \in Scales

RootFlags ==
  /\ rw_at \in {"unborn", "fed", "discover", "fs", "commands", "latch", "asleep",
                "dispatching", "ended"}
  /\ rw_caller \in {"idle", "maximize", "restore", "stored"}
  /\ rw_probe \in {"none", "probing", "fed", "flagged"}
  /\ rw_published \in BOOLEAN /\ (rw_ping => rw_published)

(* Whoever left a request has yet to wake the root thread, or has done so. *)
Knocks == rw_ping \/ rw_caller = "stored" \/ rw_unheard

(* A request is still ahead in the settle, or somebody knocks. *)
Served ==
  /\ rw_fs # "none" => Knocks \/ rw_at \notin {"commands", "latch", "asleep"}
  /\ rw_cmds # <<>> \/ rw_bg # rw_root.bg => Knocks \/ rw_at \notin {"latch", "asleep"}
  /\ rw_latch /\ rw_root.present => Knocks \/ rw_at # "asleep"

Tells(n) == rw_events[n].kind = "configure"
Told == \A n \in DOMAIN rw_events : ~Tells(n)

(* A window that is not mapped waits for its configure, for a settle to    *)
(* look for a scale, or for the probe.                                     *)
Unmapped ==
  IF rw_root.present THEN rw_scale # "none"
  ELSE \/ rw_root.discovery = "idle" /\ ~rw_root.configured /\ ~Told /\ rw_probe = "none"
       \/ /\ rw_root.discovery = "requested" /\ rw_root.configured /\ rw_scale = "none"
          /\ rw_at \in {"dispatching", "fed", "discover"} /\ rw_probe = "none"
       \/ /\ rw_root.discovery = "spawned" /\ rw_root.configured
          /\ \/ rw_probe = "probing"
             \/ rw_scale # "none" /\ rw_probe = "fed"
             \/ /\ rw_scale # "none" /\ rw_fed
                /\ \/ rw_probe = "flagged" \/ rw_ping \/ rw_unheard
                   \/ rw_at \in {"unborn", "dispatching", "fed", "ended"}

(* The last configure on its way tells the state the window is in.         *)
LastTells ==
  /\ \A n \in DOMAIN rw_events : Tells(n) /\ (\A m \in DOMAIN rw_events : m > n => ~Tells(m)) =>
       rw_events[n].mode = ModeOf(rw_comp)
  /\ Told => rw_root.mode = ModeOf(rw_comp)

(* The flag is what the window is, or what the last command makes of it.   *)
FlagFollows ==
  rw_root.present /\ Told /\ rw_root.mode # "fullscreen" =>
    \/ rw_max <=> rw_root.mode = "maximized"
    \/ rw_cmds # <<>> /\ (rw_max <=> rw_cmds[Len(rw_cmds)])

RootInv == RootTyped /\ RootFlags /\ Served /\ Unmapped /\ LastTells /\ FlagFollows
-----------------------------------------------------------------------------
LEMMA ModeOfTyped == \A c \in [fs : BOOLEAN, max : BOOLEAN] : ModeOf(c) \in WindowModes
BY DEF ModeOf, WindowModes

(* What a try to present leaves behind. *)
LEMMA TryPresentEnds ==
  ASSUME NEW root \in RootStates, NEW scale \in Scales, TryPresent(root, scale),
         rw_max \in BOOLEAN
  PROVE  /\ rw_root' \in RootStates /\ rw_max' \in BOOLEAN
         /\ rw_root'.mode = root.mode /\ rw_root'.bg = root.bg
         /\ (root.present \/ root.configured) /\ scale # "none" =>
              rw_root'.present /\ (rw_max' <=> root.mode = "maximized")
         /\ ~root.present /\ (~root.configured \/ scale = "none") =>
              /\ rw_root'.configured = root.configured /\ ~rw_root'.present
              /\ rw_root'.discovery = IF root.configured /\ root.discovery = "idle"
                                      THEN "requested" ELSE root.discovery
<1>1. Plan(root, scale) \in {"wait", "present", "discover"}
  BY DEF Plan
<1>2. CASE Plan(root, scale) = "present"
  <2>1. rw_root' = ExecutePresent(root)
        /\ rw_max' = (root.mode = "maximized")
    BY <1>2 DEF TryPresent
  <2>2. (root.configured \/ root.present) /\ scale # "none"
    BY <1>2 DEF Plan
  <2> QED BY <2>1, <2>2 DEF ExecutePresent, RootStates
<1>3. CASE Plan(root, scale) = "discover"
  <2>1. /\ rw_root' = [root EXCEPT !.discovery = IF @ = "idle" THEN "requested" ELSE @]
        /\ rw_max' = rw_max
    BY <1>3 DEF TryPresent
  <2>2. root.configured /\ scale = "none" /\ ~root.present
    BY <1>3 DEF Plan
  <2> QED BY <2>1, <2>2 DEF RootStates
<1>4. CASE Plan(root, scale) = "wait"
  <2>1. rw_root' = root /\ rw_max' = rw_max
    BY <1>4 DEF TryPresent
  <2>2. (~root.configured /\ ~root.present) \/ (root.present /\ scale = "none")
    BY <1>4 DEF Plan, RootStates
  <2> QED BY <2>1, <2>2 DEF RootStates
<1> QED BY <1>1, <1>2, <1>3, <1>4

(* What the compositor tells on top of what is on its way. *)
LEMMA CompositorTellsLast ==
  ASSUME RootTyped, LastTells, NEW c \in [fs : BOOLEAN, max : BOOLEAN], CompositorTells(c),
         rw_root'.mode = rw_root.mode
  PROVE  /\ rw_events' \in Seq(WindowEvents) /\ rw_comp' \in [fs : BOOLEAN, max : BOOLEAN]
         /\ LastTells' /\ (Told' => Told /\ c = rw_comp)
<1>1. rw_events \in Seq(WindowEvents) /\ rw_comp' = c
  BY DEF RootTyped, CompositorTells
<1>2. CASE c = rw_comp
  <2>1. rw_events' = rw_events
    BY <1>2 DEF CompositorTells
  <2> QED BY <1>1, <1>2, <2>1 DEF LastTells, Told, Tells
<1>3. CASE c # rw_comp
  <2>1. rw_events' = Append(rw_events, Configure(c))
    BY <1>3 DEF CompositorTells
  <2>2. Configure(c) \in WindowEvents /\ Configure(c).kind = "configure"
        /\ Configure(c).mode = ModeOf(c)
    BY ModeOfTyped DEF Configure, WindowEvents
  <2>3. /\ rw_events' \in Seq(WindowEvents) /\ DOMAIN rw_events' = 1..(Len(rw_events) + 1)
        /\ rw_events'[Len(rw_events) + 1] = Configure(c) /\ Len(rw_events) \in Nat
    BY <1>1, <2>1, <2>2
  <2>4. ~Told'
    BY <2>2, <2>3 DEF Told, Tells
  <2>5. \A n \in DOMAIN rw_events' :
          (\A m \in DOMAIN rw_events' : m > n => ~Tells(m)') => n = Len(rw_events) + 1
    BY <2>2, <2>3 DEF Tells
  <2> QED BY <1>1, <2>2, <2>3, <2>4, <2>5 DEF LastTells
<1> QED BY <1>2, <1>3

LEMMA ScaleToldLast ==
  ASSUME RootTyped, LastTells, rw_events' = Append(rw_events, [kind |-> "scale"]),
         rw_comp' = rw_comp, rw_root'.mode = rw_root.mode
  PROVE  rw_events' \in Seq(WindowEvents) /\ LastTells' /\ (Told' <=> Told)
<1>1. rw_events \in Seq(WindowEvents) /\ [kind |-> "scale"] \in WindowEvents
  BY DEF RootTyped, WindowEvents
<1>2. /\ rw_events' \in Seq(WindowEvents) /\ Len(rw_events) \in Nat
      /\ DOMAIN rw_events' = 1..(Len(rw_events) + 1) /\ DOMAIN rw_events = 1..Len(rw_events)
      /\ \A n \in 1..Len(rw_events) : rw_events'[n] = rw_events[n]
      /\ rw_events'[Len(rw_events) + 1].kind = "scale"
  BY <1>1
<1>3. \A n \in DOMAIN rw_events' : Tells(n)' <=> n \in DOMAIN rw_events /\ Tells(n)
  BY <1>2 DEF Tells
<1>4. Told' <=> Told
  BY <1>2, <1>3 DEF Told
<1>5. ASSUME NEW n \in DOMAIN rw_events', Tells(n)', \A m \in DOMAIN rw_events' : m > n => ~Tells(m)'
      PROVE  rw_events'[n].mode = ModeOf(rw_comp)'
  BY <1>2, <1>3, <1>5 DEF LastTells, ModeOf
<1> QED BY <1>2, <1>4, <1>5 DEF LastTells, ModeOf

(* The head of the events taken away. *)
LEMMA EventTaken ==
  ASSUME RootTyped, LastTells, rw_events # <<>>, rw_events' = Tail(rw_events), rw_comp' = rw_comp
  PROVE  /\ Head(rw_events) \in WindowEvents /\ rw_events' \in Seq(WindowEvents)
         /\ Told' /\ Head(rw_events).kind = "configure" =>
              Head(rw_events).mode = ModeOf(rw_comp)
         /\ Head(rw_events).kind # "configure" => (Told' <=> Told)
         /\ (IF Head(rw_events).kind = "configure" THEN rw_root'.mode = Head(rw_events).mode
             ELSE rw_root'.mode = rw_root.mode) => LastTells'
<1>1. rw_events \in Seq(WindowEvents)
  BY DEF RootTyped
<1>2. PICK k \in Nat : k = Len(rw_events)
  BY <1>1
<1>3. /\ DOMAIN rw_events = 1..k /\ k > 0 /\ DOMAIN rw_events' = 1..(k - 1)
      /\ rw_events' \in Seq(WindowEvents)
      /\ Head(rw_events) = rw_events[1] /\ rw_events[1] \in WindowEvents
      /\ \A n \in 1..(k - 1) : rw_events'[n] = rw_events[n + 1]
  BY <1>1, <1>2
<1>4. \A n \in 1..(k - 1) : Tells(n)' <=> Tells(n + 1)
  BY <1>3 DEF Tells
<1>5. ASSUME Told' PROVE \A n \in 1..k : n > 1 => ~Tells(n)
  <2> SUFFICES ASSUME NEW n \in 1..k, n > 1 PROVE ~Tells(n)
    OBVIOUS
  <2>1. n - 1 \in 1..(k - 1) /\ (n - 1) + 1 = n
    OBVIOUS
  <2> QED BY <1>3, <1>4, <1>5, <2>1 DEF Told
<1>6. ASSUME NEW n \in DOMAIN rw_events', Tells(n)',
             \A m \in DOMAIN rw_events' : m > n => ~Tells(m)'
      PROVE  rw_events'[n].mode = ModeOf(rw_comp)'
  <2>1. n + 1 \in 1..k /\ Tells(n + 1) /\ rw_events'[n] = rw_events[n + 1]
    BY <1>3, <1>4, <1>6
  <2>2. ASSUME NEW m \in 1..k, m > n + 1 PROVE ~Tells(m)
    <3>1. m - 1 \in 1..(k - 1) /\ m - 1 > n /\ (m - 1) + 1 = m
      BY <1>3, <2>2
    <3> QED BY <1>3, <1>4, <1>6, <3>1
  <2> QED BY <1>3, <2>1, <2>2 DEF LastTells, ModeOf
<1>7. Told' /\ Head(rw_events).kind = "configure" => Head(rw_events).mode = ModeOf(rw_comp)
  BY <1>3, <1>5 DEF LastTells, Tells
<1>8. Head(rw_events).kind # "configure" => (Told' <=> Told)
  <2>1. ASSUME Told PROVE Told'
    BY <1>3, <1>4, <2>1 DEF Told
  <2>2. ASSUME Told', Head(rw_events).kind # "configure" PROVE Told
    BY <1>3, <1>5, <2>2 DEF Told, Tells
  <2> QED BY <2>1, <2>2
<1>9. (IF Head(rw_events).kind = "configure" THEN rw_root'.mode = Head(rw_events).mode
       ELSE rw_root'.mode = rw_root.mode) => LastTells'
  BY <1>6, <1>7, <1>8 DEF LastTells, ModeOf
<1> QED BY <1>3, <1>7, <1>8, <1>9
-----------------------------------------------------------------------------
LEMMA OneEvent ==
  ASSUME NEW e \in WindowEvents
  PROVE  \E s \in Seq(WindowEvents) : s = <<e>> /\ Len(s) = 1 /\ s[1] = e
<1>1. <<e>> \in Seq(WindowEvents) /\ Len(<<e>>) = 1 /\ <<e>>[1] = e
  OBVIOUS
<1> WITNESS <<e>> \in Seq(WindowEvents)
<1> QED BY <1>1

LEMMA TwoEvents ==
  ASSUME NEW s \in Seq(WindowEvents), NEW t \in Seq(WindowEvents), Len(s) = 1, Len(t) = 1
  PROVE  \E both \in Seq(WindowEvents) :
           both = s \o t /\ DOMAIN both = 1..2 /\ both[1] = s[1] /\ both[2] = t[1]
<1>1. s \o t \in Seq(WindowEvents)
  OBVIOUS
<1>2. Len(s \o t) = 2 /\ (s \o t)[1] = s[1] /\ (s \o t)[2] = t[1]
  BY ConcatProperties
<1>3. DOMAIN (s \o t) = 1..2
  BY <1>1, <1>2
<1> WITNESS s \o t \in Seq(WindowEvents)
<1> QED BY <1>1, <1>2, <1>3

LEMMA RootInitInv == RootInit => RootInv
<1> SUFFICES ASSUME RootInit PROVE RootInv
  OBVIOUS
<1>1. PICK boot \in BOOLEAN : rw_comp = [fs |-> FALSE, max |-> boot]
  BY DEF RootInit
<1>2. rw_comp \in [fs : BOOLEAN, max : BOOLEAN] /\ [kind |-> "scale"] \in WindowEvents
  BY <1>1 DEF WindowEvents
<1>3. /\ Configure(rw_comp) \in WindowEvents /\ Configure(rw_comp).kind = "configure"
      /\ Configure(rw_comp).mode = ModeOf(rw_comp)
  BY <1>2, ModeOfTyped DEF Configure, WindowEvents
<1>4. /\ rw_events \in Seq(WindowEvents)
      /\ \E n \in DOMAIN rw_events :
           /\ rw_events[n] = Configure(rw_comp)
           /\ \A m \in DOMAIN rw_events \ {n} : rw_events[m].kind = "scale"
  <2>1. PICK s \in Seq(WindowEvents) :
          s = <<[kind |-> "scale"]>> /\ Len(s) = 1 /\ s[1] = [kind |-> "scale"]
    BY <1>2, OneEvent
  <2>2. PICK t \in Seq(WindowEvents) :
          t = <<Configure(rw_comp)>> /\ Len(t) = 1 /\ t[1] = Configure(rw_comp)
    BY <1>3, OneEvent
  <2>3. s[1].kind = "scale"
    BY <2>1
  <2>4. \/ rw_scaling = "first" /\ rw_events = s \o t \o <<>>
        \/ rw_scaling = "behind" /\ rw_events = <<>> \o t \o s
        \/ rw_scaling \in {"mapped", "never"} /\ rw_events = <<>> \o t \o <<>>
    BY <2>1, <2>2 DEF RootInit
  <2>5. s \o t \in Seq(WindowEvents) /\ t \o s \in Seq(WindowEvents)
    OBVIOUS
  <2>6. CASE rw_events = s \o t \o <<>>
    <3>1. rw_events = s \o t
      BY <2>5, <2>6, ConcatEmptySeq
    <3>2. DOMAIN rw_events = 1..2 /\ rw_events[1] = s[1] /\ rw_events[2] = t[1]
      BY <2>1, <2>2, <3>1, TwoEvents
    <3> QED BY <2>2, <2>3, <2>5, <3>1, <3>2
  <2>7. CASE rw_events = <<>> \o t \o s
    <3>1. rw_events = t \o s
      BY <2>5, <2>7, ConcatEmptySeq
    <3>2. DOMAIN rw_events = 1..2 /\ rw_events[1] = t[1] /\ rw_events[2] = s[1]
      BY <2>1, <2>2, <3>1, TwoEvents
    <3> QED BY <2>2, <2>3, <2>5, <3>1, <3>2
  <2>8. CASE rw_events = <<>> \o t \o <<>>
    <3>1. rw_events = t
      BY <2>8, ConcatEmptySeq
    <3>2. DOMAIN rw_events = 1..1
      BY <2>2, <3>1
    <3> QED BY <2>2, <3>1, <3>2
  <2> QED BY <2>4, <2>6, <2>7, <2>8
<1>5. PICK n \in DOMAIN rw_events :
        /\ rw_events[n] = Configure(rw_comp)
        /\ \A m \in DOMAIN rw_events \ {n} : rw_events[m].kind = "scale"
  BY <1>4
<1>6. ~Told /\ LastTells
  <2>1. Tells(n) /\ \A m \in DOMAIN rw_events : Tells(m) => m = n
    BY <1>3, <1>5 DEF Tells
  <2> QED BY <1>3, <1>5, <2>1 DEF LastTells, Told
<1>7. rw_root \in RootStates /\ ~rw_root.present /\ rw_root.discovery = "idle"
      /\ ~rw_root.configured /\ rw_root.bg = 0
  BY DEF RootInit, RootStates, WindowModes
<1>8. RootTyped
  <2>1. rw_cmds = <<>> /\ rw_bg \in Nat /\ rw_max \in BOOLEAN
    BY DEF RootInit
  <2>2. rw_scale \in Scales
    BY DEF RootInit, Scales
  <2>3. rw_cmds \in Seq(BOOLEAN)
    BY <2>1
  <2> QED BY <1>2, <1>4, <1>7, <2>1, <2>2, <2>3 DEF RootTyped
<1>9. RootFlags /\ Served
  BY <1>7 DEF RootInit, RootFlags, Served, Knocks
<1>10. rw_probe = "none"
  BY DEF RootInit
<1> QED BY <1>6, <1>7, <1>8, <1>9, <1>10 DEF RootInv, Unmapped, FlagFollows

(* The threads that make requests, and the thread that is published. *)
LEMMA RootFlagsStep == RootInv /\ [RootNext]_rwvars => RootFlags'
<1> SUFFICES ASSUME RootFlags, [RootNext]_rwvars PROVE RootFlags'
  BY DEF RootInv
<1> USE DEF RootFlags, rwloop, rwthread, rwrequests, rwshared, rwscale, rwcompositor
<1>0. CASE Publish
  BY <1>0 DEF Publish
<1>1. CASE Start \/ OnPing \/ BatchDrained
  BY <1>1 DEF Start, OnPing, BatchDrained
<1>2. CASE Dispatch
  BY <1>2 DEF Dispatch
<1>3. CASE SettleFed \/ ServiceFullscreen \/ ServiceCommand \/ ServiceBackground
  BY <1>3 DEF SettleFed, ServiceFullscreen, ServiceCommand, ServiceBackground
<1>4. CASE ServiceScaleDiscovery
  BY <1>4 DEF ServiceScaleDiscovery
<1>5. CASE DrainLatch
  BY <1>5 DEF DrainLatch
<1>6. CASE ProbeScale
  BY <1>6 DEF ProbeScale
<1>7. CASE Request \/ ReadMaximized \/ ToggleMaximize
  BY <1>7 DEF Request, MakesRequest, ReadMaximized, ToggleMaximize
<1>8. CASE Cleanup \/ UserActs
  BY <1>8 DEF Cleanup, UserActs
<1>9. CASE WakeRoot
  <2>1. rw_ping' <=> rw_ping \/ rw_published
    BY <1>9 DEF WakeRoot
  <2> QED BY <1>9, <2>1 DEF WakeRoot
<1>10. CASE UNCHANGED rwvars
  BY <1>10 DEF rwvars
<1> QED BY <1>0, <1>1, <1>2, <1>3, <1>4, <1>5, <1>6, <1>7, <1>8, <1>9, <1>10 DEF RootNext

RootRest == RootTyped /\ Served /\ Unmapped /\ LastTells /\ FlagFollows

(* Steps that wake the root thread, or let it wake. *)
LEMMA WakeSteps ==
  RootInv /\ (Start \/ Publish \/ OnPing \/ BatchDrained \/ WakeRoot \/ Cleanup) => RootRest'
<1> SUFFICES ASSUME RootInv, Start \/ Publish \/ OnPing \/ BatchDrained \/ WakeRoot \/ Cleanup
             PROVE  RootRest'
  OBVIOUS
<1>1. RootTyped /\ RootFlags /\ Served /\ Unmapped /\ LastTells /\ FlagFollows
  BY DEF RootInv
<1>2. UNCHANGED <<rw_root, rw_fs, rw_cmds, rw_bg, rwshared, rwscale, rwcompositor>>
  BY DEF Start, Publish, OnPing, BatchDrained, WakeRoot, Cleanup, rwrequests
<1>3. RootTyped' /\ LastTells' /\ FlagFollows' /\ (Told' <=> Told)
  BY <1>1, <1>2 DEF RootTyped, LastTells, FlagFollows, Told, Tells, ModeOf, rwshared, rwscale,
                    rwcompositor
<1>4. \/ rw_at \in {"unborn", "dispatching"} /\ rw_at' = "fed"
      \/ rw_at = "asleep" /\ rw_at' \in {"fed", "ended"}
      \/ rw_at' = rw_at /\ (Knocks => Knocks') /\ (rw_ping \/ rw_unheard => rw_ping' \/ rw_unheard')
  BY DEF Start, Publish, OnPing, BatchDrained, WakeRoot, Cleanup, Knocks, rwrequests, rwthread, rwloop
<1>5. Served'
  BY <1>1, <1>2, <1>4 DEF Served, rwshared
<1>6. Unmapped'
  BY <1>1, <1>2, <1>3, <1>4 DEF Unmapped, rwscale
<1> QED BY <1>3, <1>5, <1>6 DEF RootRest

(* Requests, and what the user does. *)
LEMMA RequestSteps ==
  RootInv /\ (Request \/ ReadMaximized \/ ToggleMaximize) => RootRest'
<1> SUFFICES ASSUME RootInv, Request \/ ReadMaximized \/ ToggleMaximize PROVE RootRest'
  OBVIOUS
<1>1. RootTyped /\ RootFlags /\ Served /\ Unmapped /\ LastTells /\ FlagFollows
  BY DEF RootInv
<1>2. UNCHANGED <<rw_root, rwloop, rw_unheard, rw_ping, rwscale, rwcompositor>>
  BY DEF Request, ReadMaximized, ToggleMaximize, rwthread
<1>3. LastTells' /\ (Told' <=> Told) /\ Unmapped'
  BY <1>1, <1>2 DEF LastTells, Told, Tells, ModeOf, rwcompositor, Unmapped, rwscale, rwloop
<1>4. CASE ReadMaximized
  <2>1. UNCHANGED <<rw_fs, rw_cmds, rw_bg, rwshared>> /\ rw_caller = "idle"
    BY <1>4 DEF ReadMaximized, MakesRequest
  <2>2. RootTyped'
    BY <1>1, <1>2, <2>1 DEF RootTyped, rwscale, rwcompositor, rwshared
  <2>3. Served'
    BY <1>1, <1>2, <2>1 DEF Served, Knocks, rwshared, rwloop
  <2>4. FlagFollows'
    BY <1>1, <1>2, <1>3, <2>1 DEF FlagFollows, rwshared
  <2> QED BY <1>3, <2>2, <2>3, <2>4 DEF RootRest
<1>5. CASE Request
  <2>1. UNCHANGED <<rw_cmds, rw_max>> /\ rw_caller' = "stored"
    BY <1>5 DEF Request
  <2>2. rw_bg' \in Nat
    BY <1>1, <1>5 DEF Request, RootTyped
  <2>3. RootTyped'
    BY <1>1, <1>2, <2>1, <2>2 DEF RootTyped, rwscale, rwcompositor
  <2>4. Served'
    BY <2>1 DEF Served, Knocks
  <2>5. FlagFollows'
    BY <1>1, <1>2, <1>3, <2>1 DEF FlagFollows
  <2> QED BY <1>3, <2>3, <2>4, <2>5 DEF RootRest
<1>6. CASE ToggleMaximize
  <2>1. /\ rw_caller' = "stored" /\ rw_max' = (rw_caller = "maximize") /\ rw_bg' = rw_bg
        /\ rw_cmds' = Append(rw_cmds, rw_caller = "maximize")
    BY <1>6 DEF ToggleMaximize
  <2>2. PICK cmd \in BOOLEAN : cmd = (rw_caller = "maximize")
    OBVIOUS
  <2>3. rw_max' = cmd /\ rw_cmds' = Append(rw_cmds, cmd) /\ rw_cmds \in Seq(BOOLEAN)
    BY <1>1, <2>1, <2>2 DEF RootTyped
  <2>4. rw_cmds' \in Seq(BOOLEAN) /\ rw_cmds' # <<>> /\ rw_cmds'[Len(rw_cmds')] = cmd
    BY <2>3
  <2>5. RootTyped'
    BY <1>1, <1>2, <2>1, <2>3, <2>4 DEF RootTyped, rwscale, rwcompositor
  <2>6. Served'
    BY <2>1 DEF Served, Knocks
  <2>7. FlagFollows'
    BY <2>3, <2>4 DEF FlagFollows
  <2> QED BY <1>3, <2>5, <2>6, <2>7 DEF RootRest
<1> QED BY <1>4, <1>5, <1>6

LEMMA UserActsStep == RootInv /\ UserActs => RootRest'
<1> SUFFICES ASSUME RootInv, UserActs PROVE RootRest'
  OBVIOUS
<1>1. RootTyped /\ RootFlags /\ Served /\ Unmapped /\ LastTells /\ FlagFollows
  BY DEF RootInv
<1>2. UNCHANGED <<rw_root, rwloop, rwthread, rwrequests, rwshared, rwscale>>
  BY DEF UserActs
<1>3. rw_comp \in [fs : BOOLEAN, max : BOOLEAN]
  BY <1>1 DEF RootTyped
<1>4. PICK c \in [fs : BOOLEAN, max : BOOLEAN] : c # rw_comp /\ CompositorTells(c)
  <2>1. CASE CompositorTells([rw_comp EXCEPT !.fs = ~@])
    <3>1. PICK c \in [fs : BOOLEAN, max : BOOLEAN] : c = [rw_comp EXCEPT !.fs = ~@]
      BY <1>3
    <3>2. c # rw_comp
      BY <1>3, <3>1
    <3> QED BY <2>1, <3>1, <3>2
  <2>2. CASE CompositorTells([rw_comp EXCEPT !.max = ~@])
    <3>1. PICK c \in [fs : BOOLEAN, max : BOOLEAN] : c = [rw_comp EXCEPT !.max = ~@]
      BY <1>3
    <3>2. c # rw_comp
      BY <1>3, <3>1
    <3> QED BY <2>2, <3>1, <3>2
  <2> QED BY <2>1, <2>2 DEF UserActs
<1>5. /\ rw_events' \in Seq(WindowEvents) /\ rw_comp' \in [fs : BOOLEAN, max : BOOLEAN]
      /\ LastTells' /\ ~Told'
  BY <1>1, <1>2, <1>4, CompositorTellsLast
<1>6. RootTyped'
  BY <1>1, <1>2, <1>5 DEF RootTyped, rwrequests, rwshared, rwscale
<1>7. Served' /\ Unmapped' /\ FlagFollows'
  <2>1. Served'
    BY <1>1, <1>2 DEF Served, Knocks, rwloop, rwthread, rwrequests, rwshared
  <2>2. Unmapped'
    BY <1>1, <1>2, <1>5 DEF Unmapped, rwloop, rwthread, rwrequests, rwscale
  <2> QED BY <1>5, <2>1, <2>2 DEF FlagFollows
<1> QED BY <1>5, <1>6, <1>7 DEF RootRest

LEMMA ProbeStep == RootInv /\ ProbeScale => RootRest'
<1> SUFFICES ASSUME RootInv, ProbeScale PROVE RootRest'
  OBVIOUS
<1>1. RootTyped /\ RootFlags /\ Served /\ Unmapped /\ LastTells /\ FlagFollows
  BY DEF RootInv
<1>2. UNCHANGED <<rw_root, rwloop, rw_fs, rw_cmds, rw_bg, rw_caller, rwshared, rwcompositor>>
  BY DEF ProbeScale
<1>3. LastTells' /\ FlagFollows' /\ (Told' <=> Told)
  BY <1>1, <1>2 DEF LastTells, FlagFollows, Told, Tells, ModeOf, rwshared, rwcompositor
<1>4. \/ /\ rw_probe = "probing" /\ rw_probe' = "fed" /\ rw_scale' \in Scales \ {"none"}
         /\ UNCHANGED <<rw_fed, rw_ping, rw_unheard>>
      \/ /\ rw_probe = "fed" /\ rw_probe' = "flagged" /\ rw_fed'
         /\ UNCHANGED <<rw_scale, rw_ping, rw_unheard>>
      \/ /\ rw_probe = "flagged" /\ rw_probe' = "none" /\ (rw_ping' \/ rw_unheard')
         /\ UNCHANGED <<rw_scale, rw_fed>>
  <2>1. FeedScale("provisional") => rw_scale' \in Scales \ {"none"}
    BY <1>1 DEF FeedScale, ScaleDisplaces, RootTyped, Scales
  <2>2. rw_published \in BOOLEAN
    BY <1>1 DEF RootFlags
  <2>3. rw_ping' = rw_published /\ rw_unheard' = ~rw_published => rw_ping' \/ rw_unheard'
    <3>1. CASE rw_published = TRUE
      BY <3>1, Zenon
    <3>2. CASE rw_published = FALSE
      BY <3>2, Zenon
    <3> QED BY <2>2, <3>1, <3>2
  <2> QED BY <2>1, <2>3 DEF ProbeScale
<1>5. RootTyped'
  BY <1>1, <1>2, <1>4 DEF RootTyped, rwshared, rwcompositor
<1>6. Served'
  BY <1>1, <1>2, <1>4 DEF Served, Knocks, rwloop, rwshared
<1>7. Unmapped'
  BY <1>1, <1>2, <1>3, <1>4 DEF Unmapped, rwloop
<1> QED BY <1>3, <1>5, <1>6, <1>7 DEF RootRest

LEMMA FedScale ==
  ASSUME rw_scale \in Scales, NEW incoming \in Scales \ {"none"}, FeedScale(incoming)
  PROVE  rw_scale' \in Scales \ {"none"}
BY DEF FeedScale, ScaleDisplaces, Scales

(* The compositor's events. *)
LEMMA DispatchStep == RootInv /\ Dispatch => RootRest'
<1> SUFFICES ASSUME RootInv, Dispatch PROVE RootRest'
  OBVIOUS
<1>1. RootTyped /\ RootFlags /\ Served /\ Unmapped /\ LastTells /\ FlagFollows
  BY DEF RootInv
<1>2. /\ UNCHANGED <<rwthread, rwrequests, rw_probe, rw_fed, rw_comp>> /\ rw_at' = "dispatching"
      /\ rw_events # <<>> /\ rw_events' = Tail(rw_events) /\ rw_at \in {"asleep", "dispatching"}
  BY DEF Dispatch
<1>3. Served'
  <2>1. rw_at' \notin {"commands", "latch", "asleep"}
    BY <1>2
  <2> QED BY <2>1 DEF Served
<1>4. PICK e \in WindowEvents : e = Head(rw_events)
  BY <1>1, <1>2, EventTaken
<1>5. /\ rw_events' \in Seq(WindowEvents) /\ (Told' /\ e.kind = "configure" => e.mode = ModeOf(rw_comp))
      /\ e.kind # "configure" => (Told' <=> Told)
      /\ (IF e.kind = "configure" THEN rw_root'.mode = e.mode
          ELSE rw_root'.mode = rw_root.mode) => LastTells'
  BY <1>1, <1>2, <1>4, EventTaken
<1>6. /\ rw_root \in RootStates /\ rw_scale \in Scales /\ rw_max \in BOOLEAN
  BY <1>1 DEF RootTyped
<1>7. CASE DispatchConfigure(e)
  <2>1. PICK root \in RootStates : root = [rw_root EXCEPT !.mode = e.mode, !.configured = TRUE]
    <3>1. e.mode \in WindowModes
      BY <1>7 DEF WindowEvents, DispatchConfigure
    <3> QED BY <1>6, <3>1 DEF RootStates
  <2>2. /\ root.mode = e.mode /\ root.configured /\ (root.present <=> rw_root.present)
        /\ root.discovery = rw_root.discovery
    BY <1>6, <2>1 DEF RootStates
  <2>3. e.kind = "configure" /\ TryPresent(root, rw_scale) /\ rw_scale' = rw_scale
    BY <1>7, <2>1 DEF DispatchConfigure
  <2>4. /\ rw_root' \in RootStates /\ rw_max' \in BOOLEAN /\ rw_root'.mode = e.mode
        /\ rw_scale # "none" => rw_root'.present /\ (rw_max' <=> rw_root'.mode = "maximized")
        /\ ~rw_root.present /\ rw_scale = "none" =>
             /\ rw_root'.configured /\ ~rw_root'.present
             /\ rw_root'.discovery = IF rw_root.discovery = "idle" THEN "requested"
                                     ELSE rw_root.discovery
    BY <1>6, <2>2, <2>3, TryPresentEnds
  <2>5. LastTells'
    BY <1>5, <2>3, <2>4
  <2>6. RootTyped'
    BY <1>1, <1>2, <1>5, <2>3, <2>4 DEF RootTyped, rwrequests
  <2>7. rw_root.present => rw_scale # "none"
    BY <1>1 DEF Unmapped
  <2>8. Unmapped' /\ FlagFollows'
    <3>1. CASE rw_scale # "none"
      BY <2>3, <2>4, <3>1 DEF Unmapped, FlagFollows
    <3>2. CASE rw_scale = "none"
      BY <1>1, <1>2, <2>3, <2>4, <2>7, <3>2 DEF Unmapped, FlagFollows
    <3> QED BY <3>1, <3>2
  <2> QED BY <1>3, <2>5, <2>6, <2>8 DEF RootRest
<1>8. CASE DispatchScale(e)
  <2>1. e.kind = "scale" /\ FeedScale("authoritative") /\ TryPresent(rw_root, rw_scale')
    BY <1>8 DEF DispatchScale
  <2>2. rw_scale' \in Scales \ {"none"}
    BY <1>6, <2>1, FedScale DEF Scales
  <2>3. /\ rw_root' \in RootStates /\ rw_max' \in BOOLEAN /\ rw_root'.mode = rw_root.mode
        /\ rw_root.present \/ rw_root.configured =>
             rw_root'.present /\ (rw_max' <=> rw_root'.mode = "maximized")
        /\ ~rw_root.present /\ ~rw_root.configured =>
             /\ ~rw_root'.configured /\ ~rw_root'.present
             /\ rw_root'.discovery = rw_root.discovery
    BY <1>6, <2>1, <2>2, TryPresentEnds DEF RootStates
  <2>4. LastTells' /\ (Told' <=> Told)
    BY <1>5, <2>1, <2>3
  <2>5. RootTyped'
    BY <1>1, <1>2, <1>5, <2>2, <2>3 DEF RootTyped, rwrequests
  <2>6. Unmapped' /\ FlagFollows'
    <3>1. CASE rw_root.present \/ rw_root.configured
      BY <2>2, <2>3, <3>1 DEF Unmapped, FlagFollows
    <3>2. CASE ~rw_root.present /\ ~rw_root.configured
      BY <1>1, <1>2, <2>3, <2>4, <3>2 DEF Unmapped, FlagFollows
    <3> QED BY <3>1, <3>2
  <2> QED BY <1>3, <2>4, <2>5, <2>6 DEF RootRest
<1> QED BY <1>4, <1>7, <1>8 DEF Dispatch

(* The settle looks for a scale. *)
LEMMA ScaleSteps == RootInv /\ (SettleFed \/ ServiceScaleDiscovery) => RootRest'
<1> SUFFICES ASSUME RootInv, SettleFed \/ ServiceScaleDiscovery PROVE RootRest'
  OBVIOUS
<1>1. RootTyped /\ RootFlags /\ Served /\ Unmapped /\ LastTells /\ FlagFollows
  BY DEF RootInv
<1>2. /\ UNCHANGED <<rwthread, rwrequests, rwcompositor>>
      /\ rw_at' \in {"discover", "fs"}
  BY DEF SettleFed, ServiceScaleDiscovery
<1>3. Served'
  <2>1. rw_at' \notin {"commands", "latch", "asleep"}
    BY <1>2
  <2> QED BY <2>1 DEF Served
<1>4. rw_root \in RootStates /\ rw_scale \in Scales /\ rw_max \in BOOLEAN
  BY <1>1 DEF RootTyped
<1>5. Told' <=> Told
  BY <1>2 DEF Told, Tells, rwcompositor
<1>6. ASSUME rw_root' \in RootStates, rw_scale' \in Scales, rw_max' \in BOOLEAN,
             rw_root'.mode = rw_root.mode
      PROVE  RootTyped' /\ LastTells'
  BY <1>1, <1>2, <1>5, <1>6 DEF RootTyped, LastTells, Tells, ModeOf, rwrequests, rwcompositor
(* A try to present with a scale in hand. *)
<1>7. ASSUME NEW root \in RootStates, TryPresent(root, rw_scale'), rw_scale' \in Scales \ {"none"},
             root.mode = rw_root.mode, root.present \/ root.configured
      PROVE  RootRest'
  <2>1. /\ rw_root' \in RootStates /\ rw_max' \in BOOLEAN /\ rw_root'.mode = rw_root.mode
        /\ rw_root'.present /\ (rw_max' <=> rw_root'.mode = "maximized")
    BY <1>4, <1>7, TryPresentEnds
  <2> QED BY <1>3, <1>6, <1>7, <2>1 DEF RootRest, Unmapped, FlagFollows
<1>8. CASE SettleFed /\ rw_fed
  <2>1. TryPresent(rw_root, rw_scale) /\ rw_scale' = rw_scale
    BY <1>8 DEF SettleFed
  <2>2. TryPresent(rw_root, rw_scale')
    BY <2>1
  <2>3. CASE (rw_root.present \/ rw_root.configured) /\ rw_scale # "none"
    BY <1>4, <1>7, <2>1, <2>2, <2>3
  <2>4. CASE ~(rw_root.present \/ rw_root.configured) \/ rw_scale = "none"
    <3>1. ~rw_root.present /\ (rw_root.configured => rw_scale = "none")
      BY <1>1, <2>4 DEF Unmapped
    <3>2. /\ rw_root' \in RootStates /\ rw_max' \in BOOLEAN /\ rw_root'.mode = rw_root.mode
          /\ rw_root'.configured = rw_root.configured /\ ~rw_root'.present
          /\ rw_root'.discovery = IF rw_root.configured /\ rw_root.discovery = "idle"
                                  THEN "requested" ELSE rw_root.discovery
      BY <1>4, <2>1, <3>1, TryPresentEnds
    <3>3. rw_at = "fed" /\ rw_at' = "discover" /\ rw_probe' = rw_probe
      BY <1>8 DEF SettleFed
    <3>4. Unmapped' /\ FlagFollows'
      BY <1>1, <1>2, <1>5, <2>1, <3>1, <3>2, <3>3 DEF Unmapped, FlagFollows
    <3> QED BY <1>3, <1>4, <1>6, <2>1, <3>2, <3>4 DEF RootRest
  <2> QED BY <2>3, <2>4
<1>9. CASE SettleFed /\ ~rw_fed
  <2>1. UNCHANGED <<rw_root, rwshared, rw_scale, rw_probe>> /\ rw_at = "fed" /\ rw_at' = "discover"
    BY <1>9 DEF SettleFed
  <2>2. RootTyped' /\ LastTells'
    BY <1>4, <1>6, <2>1 DEF rwshared
  <2>3. Unmapped'
    BY <1>1, <1>2, <1>5, <1>9, <2>1 DEF Unmapped, rwthread, rwrequests
  <2>4. FlagFollows'
    BY <1>1, <1>2, <1>5, <2>1 DEF FlagFollows, rwshared, rwrequests
  <2> QED BY <1>3, <2>2, <2>3, <2>4 DEF RootRest
<1>10. CASE ServiceScaleDiscovery
  <2>1. rw_at = "discover" /\ rw_at' = "fs" /\ rw_fed' = rw_fed
    BY <1>10 DEF ServiceScaleDiscovery
  <2>2. CASE rw_root.discovery # "requested"
    <3>1. UNCHANGED <<rw_root, rw_scale, rw_probe, rwshared>>
      BY <1>10, <2>2 DEF ServiceScaleDiscovery
    <3>2. RootTyped' /\ LastTells'
      BY <1>4, <1>6, <3>1 DEF rwshared
    <3>3. Unmapped'
      BY <1>1, <1>2, <1>5, <2>1, <2>2, <3>1 DEF Unmapped, rwthread, rwrequests
    <3>4. FlagFollows'
      BY <1>1, <1>2, <1>5, <3>1 DEF FlagFollows, rwshared, rwrequests
    <3> QED BY <1>3, <3>2, <3>3, <3>4 DEF RootRest
  <2>3. CASE rw_root.discovery = "requested" /\ rw_scale # "none"
    <3>1. /\ rw_root' = [rw_root EXCEPT !.discovery = "idle"]
          /\ UNCHANGED <<rw_scale, rw_probe, rwshared>>
      BY <1>10, <2>3 DEF ServiceScaleDiscovery
    <3>2. /\ rw_root' \in RootStates /\ rw_root'.mode = rw_root.mode
          /\ rw_root'.present = rw_root.present
      BY <1>4, <3>1 DEF RootStates
    <3>3. RootTyped' /\ LastTells'
      BY <1>4, <1>6, <3>1, <3>2 DEF rwshared
    <3>4. rw_root.present
      BY <1>1, <2>3 DEF Unmapped
    <3>5. Unmapped'
      BY <2>3, <3>1, <3>2, <3>4 DEF Unmapped
    <3>6. FlagFollows'
      BY <1>1, <1>2, <1>5, <3>1, <3>2 DEF FlagFollows, rwshared, rwrequests
    <3> QED BY <1>3, <3>3, <3>5, <3>6 DEF RootRest
  <2>4. CASE rw_root.discovery = "requested" /\ rw_scale = "none"
    <3>1. ~rw_root.present /\ rw_root.configured
      BY <1>1, <2>4 DEF Unmapped
    <3>2. PICK root \in RootStates : root = [rw_root EXCEPT !.discovery = "spawned"]
      BY <1>4 DEF RootStates
    <3>3. /\ root.mode = rw_root.mode /\ root.configured /\ ~root.present
          /\ root.discovery = "spawned"
      BY <1>4, <3>1, <3>2 DEF RootStates
    <3>4. CASE rw_root' = root /\ rw_probe' = "probing" /\ UNCHANGED <<rw_scale, rwshared>>
      <4>1. RootTyped' /\ LastTells'
        BY <1>4, <1>6, <3>3, <3>4 DEF rwshared
      <4>2. Unmapped' /\ FlagFollows'
        BY <3>3, <3>4 DEF Unmapped, FlagFollows
      <4> QED BY <1>3, <4>1, <4>2 DEF RootRest
    <3>5. CASE FeedScale("provisional") /\ TryPresent(root, rw_scale')
      <4>1. rw_scale' \in Scales \ {"none"}
        BY <1>4, <3>5, FedScale DEF Scales
      <4> QED BY <1>7, <3>3, <3>5, <4>1
    <3> QED BY <1>10, <2>4, <3>2, <3>4, <3>5 DEF ServiceScaleDiscovery
  <2> QED BY <2>2, <2>3, <2>4
<1> QED BY <1>8, <1>9, <1>10

(* The settle serves what was requested. *)
LEMMA FullscreenStep == RootInv /\ ServiceFullscreen => RootRest'
<1> SUFFICES ASSUME RootInv, ServiceFullscreen PROVE RootRest'
  OBVIOUS
<1>1. RootTyped /\ RootFlags /\ Served /\ Unmapped /\ LastTells /\ FlagFollows
  BY DEF RootInv
<1>2. /\ UNCHANGED <<rwthread, rw_cmds, rw_bg, rw_caller, rw_unheard, rwshared, rwscale>>
      /\ rw_at = "fs" /\ rw_at' = "commands" /\ rw_fs' = "none"
  BY DEF ServiceFullscreen
<1>3. Served'
  BY <1>2 DEF Served
<1>4. rw_root \in RootStates /\ rw_comp \in [fs : BOOLEAN, max : BOOLEAN]
  BY <1>1 DEF RootTyped
<1>5. /\ rw_root' \in RootStates /\ rw_root'.mode = rw_root.mode
      /\ rw_root'.present = rw_root.present /\ rw_root'.configured = rw_root.configured
      /\ rw_root'.discovery = rw_root.discovery
  <2>1. CASE rw_root' = rw_root
    BY <1>4, <2>1
  <2>2. CASE \E kept \in BOOLEAN : rw_root' = [rw_root EXCEPT !.pre_max = kept]
    BY <1>4, <2>2 DEF RootStates
  <2>3. rw_root' = [rw_root EXCEPT !.pre_max =
                      IF rw_root.mode = "fullscreen" THEN @ ELSE rw_root.mode = "maximized"]
        => \E kept \in BOOLEAN : rw_root' = [rw_root EXCEPT !.pre_max = kept]
    BY <1>4 DEF RootStates
  <2> QED BY <2>1, <2>2, <2>3 DEF ServiceFullscreen
<1>6. \/ UNCHANGED rwcompositor
      \/ \E c \in [fs : BOOLEAN, max : BOOLEAN] : CompositorTells(c)
  <2>1. [rw_comp EXCEPT !.fs = TRUE] \in [fs : BOOLEAN, max : BOOLEAN]
    BY <1>4
  <2>2. [rw_comp EXCEPT !.fs = FALSE, !.max = @ \/ rw_root.pre_max]
          \in [fs : BOOLEAN, max : BOOLEAN]
    BY <1>4 DEF RootStates
  <2> QED BY <2>1, <2>2 DEF ServiceFullscreen
<1>7. /\ rw_events' \in Seq(WindowEvents) /\ rw_comp' \in [fs : BOOLEAN, max : BOOLEAN]
      /\ LastTells' /\ (Told' => Told)
  <2>1. CASE UNCHANGED rwcompositor
    BY <1>1, <1>5, <2>1 DEF RootTyped, LastTells, Told, Tells, ModeOf, rwcompositor
  <2>2. CASE \E c \in [fs : BOOLEAN, max : BOOLEAN] : CompositorTells(c)
    BY <1>1, <1>5, <2>2, CompositorTellsLast
  <2> QED BY <1>6, <2>1, <2>2
<1>8. RootTyped'
  BY <1>1, <1>2, <1>5, <1>7 DEF RootTyped, rwshared, rwscale
<1>9. Unmapped'
  BY <1>1, <1>2, <1>5, <1>7 DEF Unmapped, rwthread, rwscale
<1>10. FlagFollows'
  BY <1>1, <1>2, <1>5, <1>7 DEF FlagFollows, rwshared
<1> QED BY <1>3, <1>7, <1>8, <1>9, <1>10 DEF RootRest

LEMMA CommandStep == RootInv /\ ServiceCommand => RootRest'
<1> SUFFICES ASSUME RootInv, ServiceCommand PROVE RootRest'
  OBVIOUS
<1>1. RootTyped /\ RootFlags /\ Served /\ Unmapped /\ LastTells /\ FlagFollows
  BY DEF RootInv
<1>2. /\ UNCHANGED <<rw_root, rw_at, rwthread, rw_fs, rw_bg, rw_caller, rw_unheard, rwshared,
                     rwscale>>
      /\ rw_at = "commands" /\ rw_cmds # <<>> /\ rw_cmds' = Tail(rw_cmds)
  BY DEF ServiceCommand
<1>3. /\ rw_cmds \in Seq(BOOLEAN) /\ Head(rw_cmds) \in BOOLEAN /\ rw_cmds' \in Seq(BOOLEAN)
      /\ rw_cmds' # <<>> => rw_cmds'[Len(rw_cmds')] = rw_cmds[Len(rw_cmds)]
      /\ rw_cmds' = <<>> => Head(rw_cmds) = rw_cmds[Len(rw_cmds)]
  <2>1. rw_cmds \in Seq(BOOLEAN)
    BY <1>1 DEF RootTyped
  <2>2. PICK k \in Nat : k = Len(rw_cmds)
    BY <2>1
  <2>3. /\ Len(rw_cmds') = k - 1 /\ k > 0 /\ rw_cmds' \in Seq(BOOLEAN)
        /\ \A n \in 1..(k - 1) : rw_cmds'[n] = rw_cmds[n + 1]
    BY <1>2, <2>1, <2>2
  <2>4. rw_cmds' # <<>> => k - 1 \in 1..(k - 1) /\ (k - 1) + 1 = k
    BY <2>2, <2>3
  <2>5. rw_cmds' = <<>> => k = 1
    BY <2>3, EmptySeq
  <2> QED BY <1>2, <2>1, <2>2, <2>3, <2>4, <2>5
<1>4. rw_comp \in [fs : BOOLEAN, max : BOOLEAN]
  BY <1>1 DEF RootTyped
<1>5. PICK c \in [fs : BOOLEAN, max : BOOLEAN] : c.max = Head(rw_cmds) /\ CompositorTells(c)
  <2>1. [rw_comp EXCEPT !.max = Head(rw_cmds)] \in [fs : BOOLEAN, max : BOOLEAN]
        /\ [rw_comp EXCEPT !.max = Head(rw_cmds)].max = Head(rw_cmds)
    BY <1>3, <1>4
  <2> QED BY <2>1 DEF ServiceCommand
<1>6. /\ rw_events' \in Seq(WindowEvents) /\ rw_comp' \in [fs : BOOLEAN, max : BOOLEAN]
      /\ LastTells' /\ (Told' => Told /\ c = rw_comp)
  BY <1>1, <1>2, <1>5, CompositorTellsLast
<1>7. RootTyped'
  BY <1>1, <1>2, <1>3, <1>6 DEF RootTyped, rwshared, rwscale
<1>8. Served'
  BY <1>1, <1>2 DEF Served, Knocks, rwthread, rwshared
<1>9. Unmapped'
  BY <1>1, <1>2, <1>6 DEF Unmapped, rwthread, rwscale
(* The last command is what the window is to be. *)
<1>10. FlagFollows'
  <2> SUFFICES ASSUME rw_root.present, Told', rw_root.mode # "fullscreen"
               PROVE  \/ rw_max <=> rw_root.mode = "maximized"
                      \/ rw_cmds' # <<>> /\ (rw_max <=> rw_cmds'[Len(rw_cmds')])
    BY <1>2 DEF FlagFollows, rwshared
  <2>1. Told /\ c = rw_comp /\ rw_root.mode = ModeOf(c)
    BY <1>1, <1>6 DEF LastTells
  <2>2. c.max <=> rw_root.mode = "maximized"
    BY <2>1 DEF ModeOf
  <2> QED BY <1>1, <1>3, <1>5, <2>1, <2>2 DEF FlagFollows
<1> QED BY <1>6, <1>7, <1>8, <1>9, <1>10 DEF RootRest

LEMMA CommitSteps == RootInv /\ (ServiceBackground \/ DrainLatch) => RootRest'
<1> SUFFICES ASSUME RootInv, ServiceBackground \/ DrainLatch PROVE RootRest'
  OBVIOUS
<1>1. RootTyped /\ RootFlags /\ Served /\ Unmapped /\ LastTells /\ FlagFollows
  BY DEF RootInv
<1>2. UNCHANGED <<rwthread, rwrequests, rw_max, rwscale, rw_comp>>
  BY DEF ServiceBackground, DrainLatch, rwcompositor
<1>3. rw_root \in RootStates /\ rw_bg \in Nat
  BY <1>1 DEF RootTyped
<1>4. CASE ServiceBackground
  <2>1. /\ rw_at = "commands" /\ rw_cmds = <<>> /\ rw_at' = "latch" /\ rw_events' = rw_events
        /\ rw_root' = [rw_root EXCEPT !.bg = rw_bg]
    BY <1>4 DEF ServiceBackground, rwcompositor
  <2>2. /\ rw_root' \in RootStates /\ rw_root'.mode = rw_root.mode /\ rw_root'.bg = rw_bg
        /\ rw_root'.present = rw_root.present /\ rw_root'.configured = rw_root.configured
        /\ rw_root'.discovery = rw_root.discovery
    BY <1>3, <2>1 DEF RootStates
  <2>3. LastTells' /\ (Told' <=> Told)
    BY <1>1, <1>2, <2>1, <2>2 DEF LastTells, Told, Tells, ModeOf
  <2>4. RootTyped'
    BY <1>1, <1>2, <2>1, <2>2 DEF RootTyped, rwrequests, rwscale
  <2>5. Served'
    BY <1>1, <1>2, <2>1, <2>2 DEF Served, Knocks, rwrequests, rwthread
  <2>6. Unmapped'
    BY <1>1, <1>2, <2>1, <2>2, <2>3 DEF Unmapped, rwrequests, rwthread, rwscale
  <2>7. FlagFollows'
    BY <1>1, <1>2, <2>2, <2>3 DEF FlagFollows, rwrequests
  <2> QED BY <2>3, <2>4, <2>5, <2>6, <2>7 DEF RootRest
<1>5. CASE DrainLatch
  <2>1. /\ rw_at = "latch" /\ rw_at' \in {"fed", "asleep"} /\ rw_root' = rw_root
        /\ rw_latch' /\ rw_root.present => FALSE
        /\ \/ rw_events' = rw_events \/ rw_events' = Append(rw_events, [kind |-> "scale"])
    BY <1>5 DEF DrainLatch
  <2>2. rw_events' \in Seq(WindowEvents) /\ LastTells' /\ (Told' <=> Told)
    <3>1. CASE rw_events' = rw_events
      BY <1>1, <1>2, <2>1, <3>1 DEF RootTyped, LastTells, Told, Tells, ModeOf
    <3>2. CASE rw_events' = Append(rw_events, [kind |-> "scale"])
      BY <1>1, <1>2, <2>1, <3>2, ScaleToldLast
    <3> QED BY <2>1, <3>1, <3>2
  <2>3. RootTyped'
    BY <1>1, <1>2, <2>1, <2>2 DEF RootTyped, rwrequests, rwscale
  <2>4. Served'
    BY <1>1, <1>2, <2>1 DEF Served, Knocks, rwrequests, rwthread
  <2>5. Unmapped'
    BY <1>1, <1>2, <2>1, <2>2 DEF Unmapped, rwrequests, rwthread, rwscale
  <2>6. FlagFollows'
    BY <1>1, <1>2, <2>1, <2>2 DEF FlagFollows, rwrequests
  <2> QED BY <2>2, <2>3, <2>4, <2>5, <2>6 DEF RootRest
<1> QED BY <1>4, <1>5

LEMMA RootStutters == RootInv /\ UNCHANGED rwvars => RootRest'
<1> SUFFICES ASSUME RootInv, UNCHANGED rwvars PROVE RootRest'
  OBVIOUS
<1>1. UNCHANGED <<rw_root, rw_at, rwthread, rw_fs, rw_cmds, rw_bg, rw_caller, rw_unheard, rw_latch,
                  rw_max, rw_scale, rw_probe, rw_fed, rw_comp, rw_events>>
  BY DEF rwvars, rwloop, rwrequests, rwshared, rwscale, rwcompositor
<1>2. Told' <=> Told
  BY <1>1 DEF Told, Tells
<1>3. LastTells' /\ RootTyped' /\ FlagFollows'
  BY <1>1, <1>2 DEF RootInv, LastTells, Tells, ModeOf, RootTyped, FlagFollows
<1>4. Served' /\ Unmapped'
  BY <1>1, <1>2 DEF RootInv, Served, Knocks, Unmapped, rwthread
<1> QED BY <1>3, <1>4 DEF RootRest

(* The root thread never goes to sleep on a request, a scale that was fed, *)
(* a commit that is owed or a window that is not on the screen, and the    *)
(* flag toggle_maximize goes by is then what the window is; for any number *)
(* of requests and of what the user does.  Excepted is a wake that came    *)
(* before the thread was published.                                        *)
THEOREM RootThreadSettles == RootSpec => []SettledIsDone
<1>1. RootInv /\ [RootNext]_rwvars => RootInv'
  <2>1. RootInv /\ [RootNext]_rwvars => RootRest'
    BY WakeSteps, RequestSteps, UserActsStep, ProbeStep, DispatchStep, ScaleSteps, FullscreenStep,
       CommandStep, CommitSteps, RootStutters DEF RootNext
  <2> QED BY <2>1, RootFlagsStep DEF RootInv, RootRest
<1>2. RootInv => SettledIsDone
  <2> SUFFICES ASSUME RootInv, SleepsOn, ~rw_unheard
               PROVE  /\ Settled
                      /\ rw_root.present /\ rw_root.mode # "fullscreen" =>
                           rw_max = (rw_root.mode = "maximized")
    BY DEF SettledIsDone
  <2>1. ~Knocks /\ rw_at = "asleep" /\ ~rw_ping /\ Told
    BY DEF SleepsOn, Knocks, Told
  <2>2. rw_fs = "none" /\ rw_cmds = <<>> /\ rw_bg = rw_root.bg /\ ~(rw_latch /\ rw_root.present)
    BY <2>1 DEF RootInv, Served
  <2>3. rw_probe = "none" => rw_root.present
    BY <2>1 DEF RootInv, Unmapped
  <2>4. rw_root.present /\ rw_root.mode # "fullscreen" => (rw_max <=> rw_root.mode = "maximized")
    BY <2>1, <2>2 DEF RootInv, FlagFollows
  <2>5. rw_max \in BOOLEAN
    BY DEF RootInv, RootTyped
  <2> QED BY <2>2, <2>3, <2>4, <2>5 DEF Settled
<1> QED BY RootInitInv, <1>1, <1>2, PTL DEF RootSpec
=============================================================================
