----------------------------- MODULE PopupMenu -----------------------------
(***************************************************************************)
(* A menu in a popup of its own on Wayland: the engine that four threads   *)
(* share (linux_util/src/menu/engine.rs), and the popup the root thread    *)
(* keeps for it (wayland/src/popup.rs, wayland/src/root_window.rs).        *)
(*                                                                         *)
(* A press arms a popup before it is known whether a menu will open, since *)
(* only then it may take the grab; CEF opens the menu later, a render      *)
(* thread lays it out and paints it, and the compositor answers each step  *)
(* of the popup's with a configure, or dismisses it.  What is to be done   *)
(* to the popup is queued under the lock, and drained by one thread at a   *)
(* time.  A menu is the number of the request that opened it, a picture    *)
(* the menu it was laid out for, the menu it names and the active row.     *)
(***************************************************************************)
EXTENDS Naturals, Sequences

CONSTANT
  MaxInputs     \* bound on presses, menus, moves of the active row and
                \* dismissals by the compositor, taken together

ASSUME MenuAssumption == MaxInputs \in Nat

Threads == {"input", "ui", "root", "render"}
Nobody == 0       \* no generation, no menu
NoMenu == [id |-> Nobody, laid |-> Nobody, row |-> 0]
NoPopup == [gen |-> Nobody, mapped |-> FALSE, sent |-> <<>>, held |-> <<>>,
            pixels |-> <<>>]
Invisible == <<>> \* the picture that only maps the popup

VARIABLES
  pm_phase, pm_gen, pm_next, pm_menu,  \* MenuState
  pm_active, pm_engaged, pm_job,
  pm_shutdown,
  pm_pending, pm_draining,   \* the ops, and who drains them
  pm_pc, pm_op, pm_resolve,  \* Emitter::update, by thread
  pm_render,                 \* what the render thread works on
  pm_commands,               \* the root thread's queue
  pm_popup, pm_armed,        \* MenuPopup, armed_gen
  pm_events,                 \* the compositor's events for the popup
  pm_left,                   \* what may still happen
  pm_opened,                 \* the number of the menu opened last
  pm_answers,                \* history: how often each menu was answered
  pm_reopened,               \* history: a menu not shown yet was replaced
  pm_failed,                 \* history: something this popup needs failed
  pm_refused                 \* history: the picture of the menu that was lost

pmstate == <<pm_phase, pm_gen, pm_next, pm_menu, pm_active, pm_engaged, pm_job,
             pm_shutdown>>
pmemitter == <<pm_draining, pm_pc, pm_op, pm_resolve, pm_answers>>
pmroot == <<pm_commands, pm_popup, pm_armed, pm_events>>
pmopened == <<pm_opened, pm_reopened>>
pmfaults == <<pm_failed, pm_refused>>
pmvars == <<pmstate, pm_pending, pmemitter, pm_render, pmroot, pm_left, pmopened,
            pmfaults>>

MenuInit ==
  /\ pm_phase = "idle" /\ pm_gen = Nobody /\ pm_next = Nobody /\ pm_menu = NoMenu
  /\ pm_active = FALSE /\ pm_engaged = FALSE /\ pm_job = "none"
  /\ pm_shutdown = FALSE
  /\ pm_pending = <<>> /\ pm_draining = FALSE
  /\ pm_pc = [t \in Threads |-> "idle"] /\ pm_op = [t \in Threads |-> <<>>]
  /\ pm_resolve = [t \in Threads |-> Nobody]
  /\ pm_render = [kind |-> "none"]
  /\ pm_commands = <<>> /\ pm_popup = NoPopup /\ pm_armed = Nobody /\ pm_events = <<>>
  /\ pm_left = MaxInputs /\ pm_opened = 0
  /\ pm_answers = [m \in 1 .. MaxInputs |-> 0]
  /\ pm_reopened = FALSE /\ pm_failed = FALSE /\ pm_refused = Invisible
-----------------------------------------------------------------------------
(* Emitter *)

(* An update is made under the lock; its ops and its answer come after.    *)
Update(t, ops, resolve) ==
  /\ pm_pending' = pm_pending \o ops
  /\ pm_pc' = [pm_pc EXCEPT ![t] = "flush"]
  /\ pm_resolve' = [pm_resolve EXCEPT ![t] = resolve]
  /\ UNCHANGED <<pm_draining, pm_op, pm_answers>>

Answer(menu) ==
  IF menu = Nobody THEN pm_answers ELSE [pm_answers EXCEPT ![menu] = @ + 1]

(* What this update answers is answered when its ops are under way.        *)
Finish(t) ==
  /\ pm_answers' = Answer(pm_resolve[t])
  /\ pm_resolve' = [pm_resolve EXCEPT ![t] = Nobody]
  /\ pm_pc' = [pm_pc EXCEPT ![t] = "idle"]

Lead(t) ==
  /\ pm_pc' = [pm_pc EXCEPT ![t] = "lead"] /\ pm_draining' = TRUE
  /\ UNCHANGED <<pm_answers, pm_resolve>>

Flush_EveryoneLeads(t) ==
  /\ pm_pc[t] = "flush"
  /\ Lead(t)
  /\ UNCHANGED <<pmstate, pm_pending, pm_op, pm_render, pmroot, pm_left, pmopened, pmfaults>>

Flush(t) ==
  /\ pm_pc[t] = "flush"
  /\ IF pm_draining THEN Finish(t) /\ UNCHANGED pm_draining ELSE Lead(t)
  /\ UNCHANGED <<pmstate, pm_pending, pm_op, pm_render, pmroot, pm_left, pmopened, pmfaults>>

PopOp(t) ==
  /\ pm_pc[t] = "lead"
  /\ pm_draining' = (pm_pending # <<>>)
  /\ IF pm_pending = <<>>
     THEN Finish(t) /\ UNCHANGED <<pm_op, pm_pending>>
     ELSE /\ pm_pc' = [pm_pc EXCEPT ![t] = "emit"]
          /\ pm_op' = [pm_op EXCEPT ![t] = Head(pm_pending)]
          /\ pm_pending' = Tail(pm_pending)
          /\ UNCHANGED <<pm_answers, pm_resolve>>
  /\ UNCHANGED <<pmstate, pm_render, pmroot, pm_left, pmopened, pmfaults>>

Emit(t) ==
  /\ pm_pc[t] = "emit"
  /\ pm_commands' = Append(pm_commands, pm_op[t])
  /\ pm_op' = [pm_op EXCEPT ![t] = <<>>]
  /\ pm_pc' = [pm_pc EXCEPT ![t] = "lead"]
  /\ UNCHANGED <<pmstate, pm_pending, pm_draining, pm_resolve, pm_answers, pm_render,
                 pm_popup, pm_armed, pm_events, pm_left, pmopened, pmfaults>>
-----------------------------------------------------------------------------
(* The engine *)

Create(gen, place) == [kind |-> "create", gen |-> gen, place |-> place]
Reposition(gen, place) == [kind |-> "reposition", gen |-> gen, place |-> place]
Present(gen, pixels) == [kind |-> "paint", gen |-> gen, pixels |-> pixels]
Destroy(gen) == [kind |-> "destroy", gen |-> gen]

(* The anchor is the menu's, the size that of its layout.                  *)
Placement(menu) == <<menu.id, menu.laid>>

MoreUrgent(job) == IF pm_job = "shape" THEN "shape" ELSE job

NothingFailed == pm_failed' = FALSE /\ pm_refused' = Invisible

ClearMenu ==
  /\ pm_active' = FALSE /\ pm_engaged' = FALSE /\ pm_phase' = "idle"
  /\ pm_gen' = Nobody /\ pm_job' = "none" /\ pm_menu' = NoMenu
  /\ NothingFailed

CloseCurrent(t) ==
  /\ ClearMenu
  /\ Update(t, IF pm_gen = Nobody THEN <<>> ELSE <<Destroy(pm_gen)>>, pm_menu.id)

Idle(t) == pm_pc[t] = "idle" /\ UNCHANGED <<pmroot, pm_render>>

(* The input thread *)
Arm ==
  /\ Idle("input") /\ pm_left > 0
  /\ pm_left' = pm_left - 1
  /\ pm_next' = pm_next + 1 /\ pm_gen' = pm_next'
  /\ pm_engaged' = TRUE /\ pm_active' = FALSE
  /\ pm_phase' = "await_placeholder" /\ pm_menu' = NoMenu /\ pm_job' = "none"
  /\ NothingFailed
  /\ Update("input", <<Create(pm_gen', <<Nobody, Nobody>>)>>, pm_menu.id)
  /\ UNCHANGED <<pm_shutdown, pmopened>>

DismissIfSpeculative ==
  /\ Idle("input")
  /\ pm_menu = NoMenu /\ pm_phase # "idle"
  /\ CloseCurrent("input")
  /\ UNCHANGED <<pm_next, pm_shutdown, pm_left, pmopened>>

(* step: the active row moves.                                             *)
Redraw ==
  /\ Idle("input") /\ pm_menu.laid # Nobody /\ pm_left > 0
  /\ pm_left' = pm_left - 1
  /\ pm_menu' = [pm_menu EXCEPT !.row = 1 - @]
  /\ pm_job' = MoreUrgent("paint")
  /\ Update("input", <<>>, Nobody)
  /\ UNCHANGED <<pm_phase, pm_gen, pm_next, pm_active, pm_engaged, pm_shutdown,
                 pmopened, pmfaults>>

(* step: a row is picked, or the menu dismissed.                           *)
Close ==
  /\ Idle("input") /\ pm_menu # NoMenu /\ (pm_active \/ pm_menu.laid # Nobody)
  /\ CloseCurrent("input")
  /\ UNCHANGED <<pm_next, pm_shutdown, pm_left, pmopened>>

(* CEF's UI thread *)
Opens ==
  /\ pm_left > 0 /\ pm_left' = pm_left - 1 /\ pm_opened' = pm_opened + 1

OpenNothingSelectable ==
  /\ Idle("ui") /\ Opens
  /\ ClearMenu
  /\ pm_pending' = pm_pending \o
       (IF pm_gen = Nobody THEN <<>> ELSE <<Destroy(pm_gen)>>)
  /\ pm_pc' = [pm_pc EXCEPT !["ui"] = "flush"]
  /\ pm_resolve' = [pm_resolve EXCEPT !["ui"] = pm_menu.id]
  /\ pm_answers' = Answer(pm_opened')
  /\ UNCHANGED <<pm_draining, pm_op, pm_next, pm_shutdown, pm_reopened>>

Open ==
  /\ Idle("ui") /\ Opens /\ ~pm_shutdown
  /\ pm_menu' = [id |-> pm_opened', laid |-> Nobody, row |-> 0]
  /\ pm_job' = "shape"
  /\ IF pm_phase = "idle"
     THEN pm_next' = pm_next + 1 /\ pm_gen' = pm_next' /\ pm_engaged' = TRUE
     ELSE UNCHANGED <<pm_next, pm_gen, pm_engaged>>
  /\ pm_reopened' = (pm_reopened \/ (pm_menu # NoMenu /\ pm_phase # "shown"))
  /\ Update("ui", <<>>, pm_menu.id)
  /\ UNCHANGED <<pm_phase, pm_active, pm_shutdown, pmfaults>>

HideMenu ==
  /\ Idle("ui") /\ pm_menu # NoMenu
  /\ CloseCurrent("ui")
  /\ UNCHANGED <<pm_next, pm_shutdown, pm_left, pmopened>>

ShutdownMenu ==
  /\ Idle("ui") /\ ~pm_shutdown /\ pm_shutdown' = TRUE
  /\ CloseCurrent("ui")
  /\ UNCHANGED <<pm_next, pm_left, pmopened>>

(* The render thread *)
TakeRenderJob ==
  /\ pm_pc["render"] = "idle" /\ pm_render.kind = "none" /\ ~pm_shutdown
  /\ pm_job # "none" /\ pm_job' = "none"
  /\ pm_render' =
       IF pm_gen = Nobody \/ pm_menu = NoMenu
          \/ (pm_job = "paint" /\ pm_menu.laid = Nobody)
       THEN [kind |-> "none"]
       ELSE [kind |-> pm_job, gen |-> pm_gen, of |-> pm_menu]
  /\ UNCHANGED <<pm_phase, pm_gen, pm_next, pm_menu, pm_active, pm_engaged,
                 pm_shutdown, pm_pending, pmemitter, pmroot, pm_left, pmopened,
                 pmfaults>>

(* begin_menu; the invisible picture activates the grab.                   *)
BeginMenu(menu) == <<Present(pm_gen, Invisible), Reposition(pm_gen, Placement(menu))>>

Stale == pm_gen # pm_render.gen \/ pm_menu = NoMenu

OnLayout ==
  LET menu == [pm_menu EXCEPT !.laid = pm_render.of.id]
      begins == pm_phase \in {"placeholder", "idle"}
  IN /\ pm_menu' = menu
     /\ pm_phase' = IF begins THEN "await_menu" ELSE pm_phase
     /\ pm_active' = (pm_active \/ begins) /\ pm_engaged' = (pm_engaged \/ begins)
     /\ pm_job' = IF pm_phase = "shown" THEN MoreUrgent("paint") ELSE pm_job
     /\ Update("render",
               CASE pm_phase = "placeholder" -> BeginMenu(menu)
                 [] pm_phase = "idle" -> <<Create(pm_gen, Placement(menu))>>
                 [] pm_phase = "shown" -> <<Reposition(pm_gen, Placement(menu))>>
                 [] OTHER -> <<>>, Nobody)

Drawn == <<pm_menu.laid, pm_render.of.id, pm_render.of.row>>

OnPixels ==
  /\ Update("render", <<Present(pm_gen, Drawn)>>, Nobody)
  /\ UNCHANGED <<pm_phase, pm_menu, pm_active, pm_engaged, pm_job>>

Deliver ==
  /\ pm_pc["render"] = "idle" /\ pm_render.kind # "none"
  /\ pm_render' = [kind |-> "none"]
  /\ IF Stale
     THEN /\ Update("render", <<>>, Nobody)
          /\ UNCHANGED <<pm_phase, pm_menu, pm_active, pm_engaged, pm_job>>
     ELSE \/ pm_render.kind = "shape" /\ OnLayout
          \/ pm_render.kind = "paint" /\ OnPixels
  /\ UNCHANGED <<pm_gen, pm_next, pm_shutdown, pmroot, pm_left, pmopened, pmfaults>>

Picture(menu) == <<menu.id, menu.id, menu.row>>
Loses(pixels) ==
  pm_refused' = IF pixels = Picture(pm_menu) THEN pixels ELSE pm_refused

(* No pixels can be had: the job is dropped, nobody asks again.            *)
PaintFails ==
  /\ pm_pc["render"] = "idle" /\ pm_render.kind = "paint"
  /\ pm_render' = [kind |-> "none"]
  /\ Loses(Drawn)
  /\ UNCHANGED <<pmstate, pm_pending, pmemitter, pmroot, pm_left, pmopened, pm_failed>>
-----------------------------------------------------------------------------
(* The root thread *)

(* The compositor answers a place it is given, for a popup or for its      *)
(* move.  The objects needed to give it may not be had.                    *)
Configured(gen) ==
  /\ pm_events' = Append(pm_events, [kind |-> "ready", gen |-> gen])
  /\ UNCHANGED pm_failed
Fails(gen) == pm_failed' = (pm_failed \/ gen = pm_gen) /\ UNCHANGED pm_events
GivesPlace(gen) == Configured(gen) \/ Fails(gen)

CreateMenuPopup(c) ==
  /\ c.kind = "create"
  /\ IF c.gen <= pm_armed THEN UNCHANGED <<pm_armed, pm_popup, pm_events, pm_failed>>
     ELSE /\ pm_armed' = c.gen
          /\ \/ /\ pm_popup' = [NoPopup EXCEPT !.gen = c.gen, !.sent = c.place]
                /\ Configured(c.gen)
             \/ pm_popup' = NoPopup /\ Fails(c.gen)
  /\ UNCHANGED pm_refused

(* Placed::hold and Placed::send.                                          *)
RepositionMenuPopup(c) ==
  /\ c.kind = "reposition"
  /\ UNCHANGED <<pm_armed, pm_refused>>
  /\ IF pm_popup.gen # c.gen THEN UNCHANGED <<pm_popup, pm_events, pm_failed>>
     ELSE IF ~pm_popup.mapped
     THEN /\ pm_popup' = [pm_popup EXCEPT !.held =
                            IF c.place = pm_popup.sent THEN <<>> ELSE c.place]
          /\ UNCHANGED <<pm_events, pm_failed>>
     ELSE IF c.place = pm_popup.sent THEN UNCHANGED <<pm_popup, pm_events, pm_failed>>
     ELSE pm_popup' = [pm_popup EXCEPT !.sent = c.place] /\ GivesPlace(c.gen)

(* MenuPopup::paint and Placed::on_map.                                    *)
Attach(c) ==
  LET maps == ~pm_popup.mapped /\ pm_popup.held # <<>>
  IN /\ pm_popup' = [pm_popup EXCEPT !.mapped = TRUE, !.pixels = c.pixels,
                       !.sent = IF maps THEN pm_popup.held ELSE @,
                       !.held = IF pm_popup.mapped THEN @ ELSE <<>>]
     /\ IF maps THEN GivesPlace(c.gen) ELSE UNCHANGED <<pm_events, pm_failed>>
     /\ UNCHANGED pm_refused

(* Without a buffer the picture is lost; if it is the invisible one, the   *)
(* popup is not mapped either.                                             *)
NoBuffer(c) ==
  /\ IF c.pixels = Invisible /\ ~pm_popup.mapped
     THEN Fails(c.gen) ELSE UNCHANGED <<pm_events, pm_failed>>
  /\ Loses(c.pixels)
  /\ UNCHANGED pm_popup

PaintMenuPopup(c) ==
  /\ c.kind = "paint"
  /\ UNCHANGED pm_armed
  /\ IF pm_popup.gen # c.gen THEN UNCHANGED <<pm_popup, pm_events, pmfaults>>
     ELSE Attach(c) \/ NoBuffer(c)

DestroyMenuPopup(c) ==
  /\ c.kind = "destroy"
  /\ pm_popup' = IF pm_popup.gen = c.gen THEN NoPopup ELSE pm_popup
  /\ UNCHANGED <<pm_armed, pm_events, pmfaults>>

ApplyCommand ==
  /\ pm_pc["root"] = "idle" /\ pm_commands # <<>>
  /\ pm_commands' = Tail(pm_commands)
  /\ LET c == Head(pm_commands)
     IN CreateMenuPopup(c) \/ RepositionMenuPopup(c) \/ PaintMenuPopup(c)
        \/ DestroyMenuPopup(c)
  /\ UNCHANGED <<pmstate, pm_pending, pmemitter, pm_render, pm_left, pmopened>>

(* SoftwareMenu::on_ready                                                  *)
OnReady ==
  LET begins == pm_phase = "await_placeholder" /\ pm_menu.laid # Nobody
  IN /\ pm_phase' = CASE begins -> "await_menu"
                      [] pm_phase = "await_placeholder" /\ ~begins -> "placeholder"
                      [] pm_phase = "await_menu" -> "shown"
                      [] OTHER -> pm_phase
     /\ pm_active' = (pm_active \/ begins)
     /\ pm_job' = IF pm_phase = "await_menu" THEN MoreUrgent("paint") ELSE pm_job
     /\ Update("root", IF begins THEN BeginMenu(pm_menu) ELSE <<>>, Nobody)
     /\ UNCHANGED <<pm_gen, pm_menu, pm_engaged, pmfaults>>

(* An event of a popup that is no more, or of a generation that is not the *)
(* engine's any more, is ignored.                                          *)
PopupEvent ==
  /\ pm_pc["root"] = "idle" /\ pm_events # <<>>
  /\ pm_events' = Tail(pm_events)
  /\ LET e == Head(pm_events)
     IN IF pm_popup.gen # e.gen
        THEN UNCHANGED <<pm_phase, pm_gen, pm_menu, pm_active, pm_engaged, pm_job,
                         pm_pending, pmemitter, pmfaults>>
        ELSE IF pm_gen # e.gen
        THEN /\ Update("root", <<>>, Nobody)
             /\ UNCHANGED <<pm_phase, pm_gen, pm_menu, pm_active, pm_engaged, pm_job,
                            pmfaults>>
        ELSE \/ e.kind = "ready" /\ OnReady
             \/ e.kind = "done" /\ CloseCurrent("root")
  /\ UNCHANGED <<pm_next, pm_shutdown, pm_commands, pm_popup, pm_armed, pm_render,
                 pm_left, pmopened>>

(* The compositor dismisses a popup it knows.                              *)
Dismissed ==
  /\ pm_popup # NoPopup /\ pm_left > 0
  /\ pm_left' = pm_left - 1
  /\ pm_events' = Append(pm_events, [kind |-> "done", gen |-> pm_popup.gen])
  /\ UNCHANGED <<pmstate, pm_pending, pmemitter, pm_render, pm_commands, pm_popup,
                 pm_armed, pmopened, pmfaults>>

MenuNext ==
  \/ \E t \in Threads : Flush(t) \/ PopOp(t) \/ Emit(t)
  \/ Arm \/ DismissIfSpeculative \/ Redraw \/ Close
  \/ OpenNothingSelectable \/ Open \/ HideMenu \/ ShutdownMenu
  \/ TakeRenderJob \/ Deliver \/ PaintFails
  \/ ApplyCommand \/ PopupEvent \/ Dismissed
MenuSpec == MenuInit /\ [][MenuNext]_pmvars
-----------------------------------------------------------------------------
(* Everything that was begun has ended.                                    *)
AllQuiet ==
  /\ pm_pc = [t \in Threads |-> "idle"] /\ pm_pending = <<>>
  /\ pm_commands = <<>> /\ pm_events = <<>>
  /\ pm_render.kind = "none" /\ (pm_job = "none" \/ pm_shutdown)

(* However presses, menus, configures, dismissals, two stages of rendering *)
(* and failures of any of them cross: once they have ended, the popup is   *)
(* never that of another generation than the engine's, and every menu that *)
(* is not open has been answered once.  Unless the popup of this very      *)
(* generation could not be made, mapped or placed, it is there exactly if  *)
(* the engine has a generation, and a menu that is open is on the screen,  *)
(* with its own layout and active row but for a picture that was itself    *)
(* lost, and, unless a menu was replaced before it was shown, in its own   *)
(* place.  What failed for an earlier menu does no harm.                   *)
MenuIsOnScreen ==
  AllQuiet =>
    /\ pm_popup.gen \in {pm_gen, Nobody}
    /\ ~pm_failed => pm_popup.gen = pm_gen
    /\ pm_menu # NoMenu /\ ~pm_shutdown /\ ~pm_failed =>
         /\ pm_phase = "shown"
         /\ Picture(pm_menu) \in {pm_popup.pixels, pm_refused}
         /\ pm_popup.mapped /\ ~pm_reopened => pm_popup.sent = Placement(pm_menu)
    /\ \A m \in 1 .. pm_opened :
         pm_answers[m] = IF m = pm_menu.id THEN 0 ELSE 1

(* Without the exception: a menu that is laid out while the last one's     *)
(* configure is awaited is never sent its place.                           *)
AlwaysInPlace ==
  AllQuiet /\ pm_menu # NoMenu /\ ~pm_shutdown /\ ~pm_failed /\ pm_popup.mapped =>
    pm_popup.sent = Placement(pm_menu)
=============================================================================
