---------------------------- MODULE RootWindow -----------------------------
(***************************************************************************)
(* The toplevel window on Wayland (wayland/src/root_window.rs, and the     *)
(* scale of wayland/src/window_state.rs).  One thread owns the window: it  *)
(* sleeps until the compositor or a ping wakes it, dispatches what came,   *)
(* and then settles, step by step, whatever the other threads have asked   *)
(* for meanwhile.  A compositor may hold the scale back until the window   *)
(* is mapped, and the window may not be mapped without one: a probe on a   *)
(* thread of its own guesses it then.                                      *)
(***************************************************************************)
EXTENDS Naturals, Sequences

CONSTANTS
  MaxRequests,    \* bound on requests of the other threads
  MaxUserActions  \* bound on what the user does to the window

ASSUME RootAssumption == MaxRequests \in Nat /\ MaxUserActions \in Nat

VARIABLES
  rw_root,       \* RootState
  rw_at,         \* where the root thread is
  rw_progressed, \* settle's flag
  rw_published,  \* RootThread is set
  rw_ping,       \* the ping has not been read
  rw_stop,
  rw_fs, rw_cmds, rw_bg,  \* pending_fs, commands, pending_bg
  rw_latch, rw_fed,       \* pending_present, scale_fallback_fed
  rw_max,        \* maximized: what toggle_maximize goes by
  rw_scale,      \* WindowState.scale: its provenance
  rw_probe,      \* the scale probe's thread
  rw_caller,     \* a thread that makes a request
  rw_comp,       \* compositor: the state of the window
  rw_events,     \* compositor: events on their way
  rw_scaling,    \* compositor: when it tells the scale
  rw_left,       \* requests and user actions left
  rw_unheard,    \* history: a wake was lost
  rw_before      \* history: the last mode that was not fullscreen

rwrequests == <<rw_fs, rw_cmds, rw_bg, rw_caller, rw_unheard>>
rwscale == <<rw_scale, rw_probe, rw_fed>>
rwcompositor == <<rw_comp, rw_events, rw_scaling>>
rwloop == <<rw_at, rw_progressed>>
rwshared == <<rw_latch, rw_max>>
rwthread == <<rw_published, rw_ping, rw_stop>>
rwvars == <<rw_root, rwloop, rwthread, rwrequests, rwshared, rwscale,
            rwcompositor, rw_left, rw_before>>

(* window_mode of the flags of a configure.                                *)
ModeOf(c) ==
  IF c.fs THEN "fullscreen" ELSE IF c.max THEN "maximized" ELSE "floating"

Configure(c) == [kind |-> "configure", mode |-> ModeOf(c)]

(* ensure_started: the first commit elicits the first configure, and on    *)
(* some compositors the scale.                                             *)
RootInit ==
  /\ rw_scaling \in {"first", "behind", "mapped", "never"}
  /\ \E boot_max \in BOOLEAN : rw_comp = [fs |-> FALSE, max |-> boot_max]
  /\ rw_events = (IF rw_scaling = "first" THEN <<[kind |-> "scale"]>> ELSE <<>>)
                 \o <<Configure(rw_comp)>>
                 \o (IF rw_scaling = "behind" THEN <<[kind |-> "scale"]>> ELSE <<>>)
  /\ rw_root = [mode |-> "floating", configured |-> FALSE, present |-> FALSE,
                discovery |-> "idle", pre_max |-> FALSE, bg |-> 0]
  /\ rw_at = "unborn" /\ rw_progressed = FALSE
  /\ rw_published = FALSE /\ rw_ping = FALSE /\ rw_stop = FALSE
  /\ rw_fs = "none" /\ rw_cmds = <<>> /\ rw_bg = 0
  /\ rw_latch = FALSE /\ rw_fed = FALSE /\ rw_max = FALSE
  /\ rw_scale = IF rw_scaling = "never" THEN "provisional" ELSE "none"
  /\ rw_probe = "none" /\ rw_caller = "idle"
  /\ rw_left = [requests |-> MaxRequests, user |-> MaxUserActions]
  /\ rw_unheard = FALSE /\ rw_before = "floating"
-----------------------------------------------------------------------------
(* Presenting *)

(* presentation::plan; a size can always be resolved, from the boot        *)
(* geometry at the least.                                                  *)
Plan(root, scale) ==
  IF ~root.configured /\ ~root.present THEN "wait"
  ELSE IF scale # "none" THEN "present"
  ELSE IF root.present THEN "wait" ELSE "discover"

ExecutePresent(root) == [root EXCEPT !.present = TRUE, !.configured = FALSE]

(* try_present, with WindowState::publish.                                 *)
TryPresent(root, scale) ==
  LET step == Plan(root, scale)
  IN /\ rw_root' = CASE step = "present" -> ExecutePresent(root)
                     [] step = "discover" ->
                          [root EXCEPT !.discovery =
                             IF @ = "idle" THEN "requested" ELSE @]
                     [] step = "wait" -> root
     /\ rw_latch' = (rw_latch \/ step = "present")
     /\ rw_max' = IF step = "present" THEN root.mode = "maximized" ELSE rw_max

ScaleDisplaces(current, incoming) ==
  incoming = "authoritative" \/ current # "authoritative"

FeedScale(incoming) ==
  rw_scale' = IF ScaleDisplaces(rw_scale, incoming) THEN incoming ELSE rw_scale
-----------------------------------------------------------------------------
(* The root thread *)

Start ==
  /\ rw_at = "unborn"
  /\ rw_at' = "fed" /\ rw_progressed' = FALSE
  /\ UNCHANGED <<rw_root, rwthread, rwrequests, rwshared, rwscale, rwcompositor,
                 rw_left, rw_before>>

(* ensure_started publishes the thread it has spawned.                     *)
Publish ==
  /\ ~rw_published /\ rw_published' = TRUE
  /\ UNCHANGED <<rw_root, rwloop, rw_ping, rw_stop, rwrequests, rwshared, rwscale,
                 rwcompositor, rw_left, rw_before>>

(* A wake by ping or event ends in a settle; a dispatch may be partial.    *)
OnPing ==
  /\ rw_at = "asleep" /\ rw_ping /\ rw_ping' = FALSE
  /\ rw_at' = IF rw_stop THEN "ended" ELSE "fed"
  /\ rw_progressed' = FALSE /\ rw_unheard' = FALSE
  /\ UNCHANGED <<rw_root, rw_published, rw_stop, rw_fs, rw_cmds, rw_bg, rw_caller,
                 rwshared, rwscale, rwcompositor, rw_left, rw_before>>

DispatchConfigure(e) ==
  /\ e.kind = "configure"
  /\ TryPresent([rw_root EXCEPT !.mode = e.mode, !.configured = TRUE], rw_scale)
  /\ rw_before' = IF e.mode = "fullscreen" THEN rw_before ELSE e.mode
  /\ UNCHANGED rw_scale

DispatchScale(e) ==
  /\ e.kind = "scale"
  /\ FeedScale("authoritative")
  /\ TryPresent(rw_root, rw_scale')
  /\ UNCHANGED rw_before

Dispatch ==
  /\ rw_at = "asleep" \/ rw_at = "dispatching"
  /\ rw_events # <<>> /\ rw_events' = Tail(rw_events)
  /\ DispatchConfigure(Head(rw_events)) \/ DispatchScale(Head(rw_events))
  /\ rw_at' = "dispatching"
  /\ UNCHANGED <<rw_progressed, rwthread, rwrequests, rw_probe, rw_fed, rw_comp,
                 rw_scaling, rw_left>>

BatchDrained ==
  /\ rw_at = "dispatching" /\ rw_at' = "fed" /\ rw_progressed' = FALSE
  /\ rw_unheard' = FALSE
  /\ UNCHANGED <<rw_root, rwthread, rw_fs, rw_cmds, rw_bg, rw_caller, rwshared,
                 rwscale, rwcompositor, rw_left, rw_before>>

(* settle, step by step *)
SettleFed ==
  /\ rw_at = "fed" /\ rw_at' = "discover"
  /\ rw_fed' = FALSE
  /\ IF rw_fed THEN TryPresent(rw_root, rw_scale) /\ rw_progressed' = TRUE
     ELSE UNCHANGED <<rw_root, rwshared, rw_progressed>>
  /\ UNCHANGED <<rwthread, rwrequests, rw_scale, rw_probe, rwcompositor, rw_left,
                 rw_before>>

(* service_scale_discovery; without a thread the unit scale has to do.     *)
ServiceScaleDiscovery ==
  /\ rw_at = "discover" /\ rw_at' = "fs"
  /\ IF rw_root.discovery # "requested"
     THEN UNCHANGED <<rw_root, rw_scale, rw_probe, rwshared>>
     ELSE IF rw_scale # "none"
     THEN /\ rw_root' = [rw_root EXCEPT !.discovery = "idle"]
          /\ UNCHANGED <<rw_scale, rw_probe, rwshared>>
     ELSE \/ /\ rw_root' = [rw_root EXCEPT !.discovery = "spawned"]
             /\ rw_probe' = "probing"
             /\ UNCHANGED <<rw_scale, rwshared>>
          \/ /\ FeedScale("provisional")
             /\ TryPresent([rw_root EXCEPT !.discovery = "spawned"], rw_scale')
             /\ UNCHANGED rw_probe
  /\ UNCHANGED <<rw_progressed, rwthread, rwrequests, rw_fed, rwcompositor, rw_left,
                 rw_before>>

(* fullscreen_request                                                      *)
Resolved(request) ==
  IF request = "toggle" THEN rw_root.mode # "fullscreen" ELSE request = "on"

(* What the compositor makes of a request of ours, and tells us about it.  *)
CompositorTells(c) ==
  /\ rw_comp' = c
  /\ rw_events' = IF c = rw_comp THEN rw_events ELSE Append(rw_events, Configure(c))

(* apply_fullscreen                                                        *)
ServiceFullscreen ==
  /\ rw_at = "fs" /\ rw_at' = "commands"
  /\ rw_fs' = "none"
  /\ rw_progressed' = (rw_progressed \/ rw_fs # "none")
  /\ IF rw_fs = "none" THEN UNCHANGED <<rw_root, rwcompositor>>
     ELSE IF Resolved(rw_fs)
     THEN /\ rw_root' = [rw_root EXCEPT !.pre_max =
                IF rw_root.mode = "fullscreen" THEN @ ELSE rw_root.mode = "maximized"]
          /\ CompositorTells([rw_comp EXCEPT !.fs = TRUE])
     ELSE /\ rw_root' = [rw_root EXCEPT !.pre_max = FALSE]
          /\ CompositorTells([rw_comp EXCEPT !.fs = FALSE, !.max = @ \/ rw_root.pre_max])
  /\ UNCHANGED <<rwthread, rw_cmds, rw_bg, rw_caller, rw_unheard, rwshared, rwscale,
                 rw_scaling, rw_left, rw_before>>

(* apply_command until the queue is empty, then the background.            *)
ServiceCommand ==
  /\ rw_at = "commands" /\ rw_cmds # <<>>
  /\ rw_cmds' = Tail(rw_cmds) /\ rw_progressed' = TRUE
  /\ CompositorTells([rw_comp EXCEPT !.max = Head(rw_cmds)])
  /\ UNCHANGED <<rw_root, rw_at, rwthread, rw_fs, rw_bg, rw_caller, rw_unheard,
                 rwshared, rwscale, rw_scaling, rw_left, rw_before>>

ServiceBackground ==
  /\ rw_at = "commands" /\ rw_cmds = <<>> /\ rw_at' = "latch"
  /\ rw_root' = [rw_root EXCEPT !.bg = rw_bg]
  /\ rw_progressed' = (rw_progressed \/ rw_bg # rw_root.bg)
  /\ rw_latch' = (rw_latch \/ (rw_bg # rw_root.bg /\ rw_root.present))
  /\ UNCHANGED <<rwthread, rwrequests, rw_max, rwscale, rwcompositor, rw_left, rw_before>>

DrainLatch_DrainsPing ==
  /\ rw_at = "latch"
  /\ LET commits == rw_root.present /\ rw_latch
     IN /\ rw_latch' = (rw_latch /\ ~commits)
        /\ rw_at' = IF rw_progressed \/ commits THEN "fed" ELSE "asleep"
        /\ IF commits /\ rw_scaling = "mapped"
           THEN /\ rw_events' = Append(rw_events, [kind |-> "scale"])
                /\ rw_scaling' = "told"
           ELSE UNCHANGED <<rw_events, rw_scaling>>
  /\ rw_progressed' = FALSE /\ rw_ping' = FALSE
  /\ UNCHANGED <<rw_root, rw_published, rw_stop, rwrequests, rw_max, rwscale, rw_comp,
                 rw_left, rw_before>>

(* The one commit of the root surface; the first maps it.                  *)
DrainLatch ==
  /\ rw_at = "latch"
  /\ LET commits == rw_root.present /\ rw_latch
     IN /\ rw_latch' = (rw_latch /\ ~commits)
        /\ rw_at' = IF rw_progressed \/ commits THEN "fed" ELSE "asleep"
        /\ IF commits /\ rw_scaling = "mapped"
           THEN /\ rw_events' = Append(rw_events, [kind |-> "scale"])
                /\ rw_scaling' = "told"
           ELSE UNCHANGED <<rw_events, rw_scaling>>
  /\ rw_progressed' = FALSE
  /\ UNCHANGED <<rw_root, rwthread, rwrequests, rw_max, rwscale, rw_comp, rw_left,
                 rw_before>>
-----------------------------------------------------------------------------
(* The other threads *)

(* The probe feeds its guess, then raises the flag, then wakes the root.   *)
ProbeScale ==
  /\ \/ /\ rw_probe = "probing" /\ rw_probe' = "fed"
        /\ FeedScale("provisional")
        /\ UNCHANGED <<rw_fed, rw_ping, rw_unheard>>
     \/ /\ rw_probe = "fed" /\ rw_probe' = "flagged" /\ rw_fed' = TRUE
        /\ UNCHANGED <<rw_scale, rw_ping, rw_unheard>>
     \/ /\ rw_probe = "flagged" /\ rw_probe' = "none"
        /\ rw_ping' = rw_published /\ rw_unheard' = ~rw_published
        /\ UNCHANGED <<rw_scale, rw_fed>>
  /\ UNCHANGED <<rw_root, rwloop, rw_published, rw_stop, rw_fs, rw_cmds, rw_bg,
                 rw_caller, rwshared, rwcompositor, rw_left, rw_before>>

MakesRequest ==
  /\ rw_caller = "idle" /\ rw_left.requests > 0
  /\ rw_left' = [rw_left EXCEPT !.requests = @ - 1]

(* set_fullscreen, toggle_fullscreen, set_background_color, request_present *)
Request ==
  /\ MakesRequest /\ rw_caller' = "stored"
  /\ \/ rw_fs' \in {"on", "off", "toggle"} /\ UNCHANGED <<rw_bg, rw_latch>>
     \/ rw_bg' = rw_bg + 1 /\ UNCHANGED <<rw_fs, rw_latch>>
     \/ rw_latch' = TRUE /\ UNCHANGED <<rw_fs, rw_bg>>
  /\ UNCHANGED <<rw_root, rwloop, rwthread, rw_cmds, rw_unheard, rw_max, rwscale,
                 rwcompositor, rw_before>>

(* toggle_maximize: the flag is read, then written.                        *)
ReadMaximized ==
  /\ MakesRequest
  /\ rw_caller' = IF rw_max THEN "restore" ELSE "maximize"
  /\ UNCHANGED <<rw_root, rwloop, rwthread, rw_fs, rw_cmds, rw_bg, rw_unheard,
                 rwshared, rwscale, rwcompositor, rw_before>>

ToggleMaximize ==
  /\ rw_caller \in {"maximize", "restore"} /\ rw_caller' = "stored"
  /\ rw_max' = (rw_caller = "maximize")
  /\ rw_cmds' = Append(rw_cmds, rw_caller = "maximize")
  /\ UNCHANGED <<rw_root, rwloop, rwthread, rw_fs, rw_bg, rw_unheard, rw_latch,
                 rwscale, rwcompositor, rw_left, rw_before>>

(* wake: nothing before the thread is published.                           *)
WakeRoot ==
  /\ rw_caller = "stored" /\ rw_caller' = "idle"
  /\ rw_ping' = (rw_ping \/ rw_published)
  /\ rw_unheard' = (rw_unheard \/ ~rw_published)
  /\ UNCHANGED <<rw_root, rwloop, rw_published, rw_stop, rw_fs, rw_cmds, rw_bg,
                 rwshared, rwscale, rwcompositor, rw_left, rw_before>>

Cleanup ==
  /\ rw_published /\ ~rw_stop /\ rw_stop' = TRUE /\ rw_ping' = TRUE
  /\ UNCHANGED <<rw_root, rwloop, rw_published, rwrequests, rwshared, rwscale,
                 rwcompositor, rw_left, rw_before>>

UserActs ==
  /\ rw_left.user > 0 /\ rw_left' = [rw_left EXCEPT !.user = @ - 1]
  /\ \/ CompositorTells([rw_comp EXCEPT !.fs = ~@])
     \/ CompositorTells([rw_comp EXCEPT !.max = ~@])
  /\ UNCHANGED <<rw_root, rwloop, rwthread, rwrequests, rwshared, rwscale, rw_scaling,
                 rw_before>>

RootNext ==
  \/ Start \/ Publish \/ OnPing \/ Dispatch \/ BatchDrained
  \/ SettleFed \/ ServiceScaleDiscovery \/ ServiceFullscreen \/ ServiceCommand
  \/ ServiceBackground \/ DrainLatch
  \/ ProbeScale \/ Request \/ ReadMaximized \/ ToggleMaximize \/ WakeRoot \/ Cleanup
  \/ UserActs
RootSpec == RootInit /\ [][RootNext]_rwvars
-----------------------------------------------------------------------------
(* Nothing will wake the root thread.                                      *)
SleepsOn ==
  rw_at = "asleep" /\ ~rw_ping /\ rw_events = <<>> /\ rw_caller = "idle"

Settled ==
  /\ rw_fs = "none" /\ rw_cmds = <<>> /\ rw_bg = rw_root.bg
  /\ ~(rw_latch /\ rw_root.present)
  /\ rw_probe = "none" => rw_root.present

(* "A request enqueued before the wake fd could ring is still serviced":   *)
(* the root thread never sleeps on a request, a fed scale or an owed       *)
(* commit, a window whose scale is withheld gets mapped, and the next      *)
(* toggle_maximize does what the user sees to be missing; unless a wake    *)
(* came before the thread was published and nothing has happened since.    *)
SettledIsDone ==
  SleepsOn /\ ~rw_unheard =>
    /\ Settled
    /\ rw_root.present /\ rw_root.mode # "fullscreen" =>
         rw_max = (rw_root.mode = "maximized")

(* Without the exception: the settle before the loop may be over by then.  *)
EveryRequestIsServed == SleepsOn => Settled

(* Leaving fullscreen asks for the maximized state that was there before.  *)
RemembersMaximized ==
  SleepsOn /\ rw_root.mode = "fullscreen" /\ rw_left.user = MaxUserActions =>
    rw_root.pre_max = (rw_before = "maximized")
=============================================================================
