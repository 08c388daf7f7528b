----------------------------- MODULE LayerActor -----------------------------
(***************************************************************************)
(* The frames of one CEF layer on Wayland, from the software paint to the  *)
(* surface (wayland/src/wl_ops.rs, wayland/src/layer_actor.rs, and the     *)
(* upload texture of gpu_paint/src/painter.rs).  CEF's thread leaves       *)
(* frames in a mailbox of one slot, and a worker draws them: into a shared *)
(* memory buffer, or through the GPU until that fails for the first time.  *)
(*                                                                         *)
(* A paint names the regions that changed since the paint before it, and   *)
(* only those are copied when the rest is known to be there already.  A    *)
(* page is therefore a function from regions to the paint that changed     *)
(* them last, and what is on the screen has to be such a page.             *)
(***************************************************************************)
EXTENDS Naturals, FiniteSets

CONSTANTS
  Regions,         \* the regions of a page
  MaxPaints,       \* bound on paints
  MaxLayerChanges     \* bound on configures and on changes of visibility

ASSUME LayerActorAssumption ==
  IsFiniteSet(Regions) /\ MaxPaints \in Nat /\ MaxLayerChanges \in Nat

Extents == {1, 2}
Blank == [size |-> 0, px |-> [r \in Regions |-> 0], by |-> "none"]
NoFrame == [kind |-> "none"]

VARIABLES
  la_page, la_size,       \* what CEF painted last, and its size
  la_paints, la_changes,  \* counters
  la_extent, la_visible,  \* the window's extent; PlatformSurface.visible
  la_box,                 \* the mailbox: LayerState
  la_job,                 \* what the worker took from it
  la_backend, la_failed,  \* Backend; gpu_failed
  la_shadow, la_texture,  \* ShmShadow, UploadTexture
  la_content,             \* has_content
  la_shown,               \* what the surface shows
  la_given, la_whole,     \* history: the page handed over last; all of them
  la_lost                 \* history: a frame could not be drawn

lapage == <<la_page, la_size, la_paints>>
laworker == <<la_backend, la_failed, la_shadow, la_texture, la_content, la_shown>>
lavars == <<lapage, la_changes, la_extent, la_visible, la_box, la_job, laworker,
            la_given, la_whole, la_lost>>

ActorInit ==
  /\ la_page = [r \in Regions |-> 0] /\ la_size = 0
  /\ la_paints = 0 /\ la_changes = 0
  /\ la_extent = 1 /\ la_visible = TRUE
  /\ la_box = [pending |-> NoFrame, valid |-> 0, extent |-> 1, visible |-> TRUE,
               hide |-> FALSE, moved |-> FALSE, shutdown |-> FALSE]
  /\ la_job = NoFrame
  /\ la_backend \in {"gpu", "shm"} /\ la_failed = FALSE
  /\ la_shadow = Blank /\ la_texture = Blank /\ la_content = FALSE
  /\ la_shown = Blank /\ la_given = Blank /\ la_whole = {Blank.px}
  /\ la_lost = FALSE
-----------------------------------------------------------------------------
(* The mailbox *)

SetVisible_KeepsShadow(box, visible) ==
  IF visible THEN [box EXCEPT !.visible = TRUE]
  ELSE [box EXCEPT !.visible = FALSE, !.pending = NoFrame, !.hide = TRUE]

SetVisible(box, visible) ==
  IF visible THEN [box EXCEPT !.visible = TRUE]
  ELSE [box EXCEPT !.visible = FALSE, !.pending = NoFrame, !.hide = TRUE,
                   !.valid = 0]

Resize(box, extent) ==
  IF box.extent = extent THEN box
  ELSE [box EXCEPT !.extent = extent, !.moved = TRUE, !.valid = 0]

RequestPlaceholder(box) ==
  [box EXCEPT !.pending = [kind |-> "placeholder"], !.valid = 0]

NeedsFullCopy(box, size) ==
  \/ box.valid # size
  \/ box.pending.kind = "shm" /\ box.pending.full

(* Rects are merged into a pending frame of rects of the same size.        *)
StoreShm(box, rects, full, size) ==
  IF /\ ~full
     /\ box.pending.kind = "shm" /\ ~box.pending.full /\ box.pending.size = size
  THEN [box EXCEPT !.pending.px =
          [r \in DOMAIN rects \cup DOMAIN @ |->
             IF r \in DOMAIN rects THEN rects[r] ELSE @[r]]]
  ELSE [box EXCEPT !.pending = [kind |-> "shm", full |-> full, size |-> size,
                                px |-> rects],
                   !.valid = IF full THEN size ELSE @]

(* A pending frame is replaced, whatever it had changed.                   *)
EnqueueGpu(box, page, dirty, size) ==
  [box EXCEPT !.pending = [kind |-> "gpu", size |-> size, px |-> page,
                           dirty |-> dirty]]

EnqueueShm(box, page, dirty, size) ==
  LET full == NeedsFullCopy(box, size)
      copied == IF full THEN Regions ELSE dirty
  IN StoreShm(box, [r \in copied |-> page[r]], full, size)
-----------------------------------------------------------------------------
(* CEF's threads and the root thread, under the WlState lock *)

(* The first paint of a size names every region.                           *)
PaintFrame(size, changed) ==
  /\ la_paints < MaxPaints
  /\ size # la_size => changed = Regions
  /\ la_paints' = la_paints + 1 /\ la_size' = size
  /\ la_page' = [r \in Regions |-> IF r \in changed THEN la_paints + 1
                                   ELSE la_page[r]]

SurfacePresentSoftware ==
  \E size \in {la_size, la_extent} \ {0} : \E changed \in SUBSET Regions \ {{}} :
    /\ PaintFrame(size, changed)
    /\ IF ~la_visible \/ la_box.shutdown
       THEN UNCHANGED <<la_box, la_given, la_whole>>
       ELSE LET box == Resize(SetVisible(la_box, la_visible), la_extent)
                gpu == la_backend = "gpu" /\ ~la_failed
            IN /\ la_box' = IF gpu THEN EnqueueGpu(box, la_page', changed, size)
                            ELSE EnqueueShm(box, la_page', changed, size)
               /\ la_given' = [size |-> size, px |-> la_page', by |-> "page"]
               /\ la_whole' = la_whole \cup {la_page'}
    /\ UNCHANGED <<la_changes, la_extent, la_visible, la_job, laworker, la_lost>>

(* A placeholder would fight the swapchain of the GPU.                     *)
SurfaceSetVisible ==
  /\ la_changes < MaxLayerChanges /\ ~la_box.shutdown
  /\ la_changes' = la_changes + 1
  /\ la_visible' = ~la_visible
  /\ LET box == SetVisible(la_box, la_visible')
     IN la_box' = IF la_visible' /\ la_backend # "gpu" /\ ~la_failed
                  THEN RequestPlaceholder(box) ELSE box
  /\ la_given' = IF la_visible' THEN la_given ELSE Blank
  /\ UNCHANGED <<lapage, la_extent, la_job, laworker, la_whole, la_lost>>

OnConfigure ==
  /\ la_changes < MaxLayerChanges /\ ~la_box.shutdown
  /\ la_changes' = la_changes + 1
  /\ \E extent \in Extents \ {la_extent} :
       la_extent' = extent /\ la_box' = Resize(la_box, extent)
  /\ UNCHANGED <<lapage, la_visible, la_job, laworker, la_given, la_whole, la_lost>>

FreeSurface ==
  /\ ~la_box.shutdown
  /\ la_box' = [la_box EXCEPT !.shutdown = TRUE, !.pending = NoFrame]
  /\ UNCHANGED <<lapage, la_changes, la_extent, la_visible, la_job, laworker,
                 la_given, la_whole, la_lost>>
-----------------------------------------------------------------------------
(* The worker *)

TakeJob ==
  /\ la_job.kind = "none" /\ ~la_box.shutdown
  /\ la_box.pending.kind # "none" \/ la_box.hide \/ la_box.moved
  /\ la_job' = [kind |-> "job", frame |-> la_box.pending,
                visible |-> la_box.visible, moved |-> la_box.moved]
  /\ la_box' = [la_box EXCEPT !.pending = NoFrame, !.hide = FALSE, !.moved = FALSE]
  /\ UNCHANGED <<lapage, la_changes, la_extent, la_visible, laworker, la_given,
                 la_whole, la_lost>>

(* Only shared memory is detached: the compositor's swapchain owns the     *)
(* other buffers.                                                          *)
Hide ==
  /\ ~la_job.visible
  /\ la_content' = FALSE
  /\ la_shown' = IF la_backend = "shm" THEN Blank ELSE la_shown
  /\ UNCHANGED <<la_backend, la_failed, la_shadow, la_texture, la_lost>>

PresentPlaceholder ==
  /\ la_job.visible /\ la_job.frame.kind = "placeholder"
  /\ \/ /\ ~la_content
        /\ la_shown' = Blank
     \/ UNCHANGED la_shown
  /\ UNCHANGED <<la_backend, la_failed, la_shadow, la_texture, la_content, la_lost>>

Patched(base, rects) ==
  [r \in Regions |-> IF r \in DOMAIN rects THEN rects[r] ELSE base[r]]

(* compose_shm_shadow; a new size starts from nothing.                     *)
ComposeShadow(frame) ==
  LET base == IF la_shadow.size = frame.size THEN la_shadow.px ELSE Blank.px
  IN [size |-> frame.size, px |-> Patched(base, frame.px), by |-> "shm"]

(* The buffer is drawn from the shadow; it may not be had.                 *)
PresentShm ==
  /\ la_job.visible /\ la_job.frame.kind = "shm"
  /\ la_shadow' = ComposeShadow(la_job.frame)
  /\ \/ /\ la_shown' = la_shadow' /\ la_content' = TRUE
        /\ la_lost' = FALSE
     \/ la_lost' = TRUE /\ UNCHANGED <<la_shown, la_content>>
  /\ UNCHANGED <<la_backend, la_failed, la_texture>>

(* UploadTexture::write.                                                   *)
Upload(frame) ==
  LET rects == IF la_texture.size # frame.size THEN Regions ELSE frame.dirty
      base == IF la_texture.size # frame.size THEN Blank.px ELSE la_texture.px
  IN [size |-> frame.size, by |-> "gpu",
      px |-> [r \in Regions |-> IF r \in rects THEN frame.px[r] ELSE base[r]]]

(* A skipped frame is in the texture, and a failure is the end of the GPU. *)
PresentGpu ==
  /\ la_job.visible /\ la_job.frame.kind = "gpu" /\ la_backend = "gpu"
  /\ \/ /\ la_texture' = Upload(la_job.frame)
        /\ la_shown' = la_texture' /\ la_content' = TRUE
        /\ la_lost' = FALSE
        /\ UNCHANGED <<la_backend, la_failed>>
     \/ /\ la_texture' = Upload(la_job.frame)
        /\ la_lost' = TRUE
        /\ UNCHANGED <<la_backend, la_failed, la_shown, la_content>>
     \/ /\ la_backend' = "shm" /\ la_failed' = TRUE
        /\ la_texture' = Blank
        /\ la_lost' = TRUE
        /\ UNCHANGED <<la_shown, la_content>>
  /\ UNCHANGED la_shadow

(* Frames that were left for the GPU before it failed are skipped.         *)
SkipGpu ==
  /\ la_job.visible /\ la_job.frame.kind = "gpu" /\ la_backend = "shm"
  /\ la_lost' = TRUE
  /\ UNCHANGED laworker

(* Without a frame the worker only rescales what the surface shows.        *)
ReapplyViewport ==
  /\ la_job.visible /\ la_job.frame.kind = "none"
  /\ UNCHANGED <<laworker, la_lost>>

PerformJob ==
  /\ la_job.kind = "job"
  /\ \/ Hide \/ PresentPlaceholder \/ PresentShm \/ PresentGpu \/ SkipGpu
     \/ ReapplyViewport
  /\ la_job' = NoFrame
  /\ UNCHANGED <<lapage, la_changes, la_extent, la_visible, la_box, la_given,
                 la_whole>>

ActorNext ==
  \/ SurfacePresentSoftware \/ SurfaceSetVisible \/ OnConfigure \/ FreeSurface
  \/ TakeJob \/ PerformJob
ActorSpec == ActorInit /\ [][ActorNext]_lavars
-----------------------------------------------------------------------------
Whole == la_shown.px \in la_whole

Drawn ==
  /\ la_job.kind = "none" /\ ~la_box.shutdown
  /\ la_box.pending.kind = "none" /\ ~la_box.hide /\ ~la_box.moved

(* Whatever is dropped, merged or copied in part on its way, shared memory *)
(* shows a page CEF has painted, never the regions of two of them; and     *)
(* once the worker has caught up, it is the page that was handed over      *)
(* last, unless the layer was hidden after it (which drops a frame that    *)
(* waits) or no buffer could be had for it.                                *)
LayerShowsAPage ==
  la_shown.by = "shm" =>
    /\ Whole
    /\ Drawn /\ la_given.by = "page" /\ ~la_lost => la_shown.px = la_given.px

(* gpu_paint takes "the regions that changed since the last" frame, which  *)
(* must make the upload texture a page as well.                            *)
GpuShowsAPage == la_shown.by = "gpu" => Whole
=============================================================================
