----------------------------- MODULE X11Overlay -----------------------------
(***************************************************************************)
(* The overlay windows of the X11 backend: the desired state that the CEF  *)
(* thread writes (x11/src/surface.rs, registry.rs), and the geometry       *)
(* thread that alone gives the windows their place (geometry.rs), by the   *)
(* state machine of overlay_fsm.rs.  Around them the X server, and a       *)
(* window manager that handles what concerns managed windows in its own    *)
(* time and may withdraw one it sees unmapped.                             *)
(*                                                                         *)
(* A rectangle is one of three: two places for a window, and the screen.   *)
(* Of the events of the server the model keeps what handling them amounts  *)
(* to, since the geometry thread handles all it has before it settles.     *)
(* The server carries out a request as it is made, and what a pass reads   *)
(* of the parent, or of one overlay, it reads at once: each of these is    *)
(* several round trips, and whatever changes in between is told as news.   *)
(***************************************************************************)
EXTENDS Naturals, FiniteSets, Sequences, SequencesExt

CONSTANTS
  Overlays,      \* ids of overlay surfaces
  MaxSurfaceOps, \* bound on the operations of the CEF thread
  MaxParentMoves \* bound on what happens to the parent window

ASSUME X11Assumption ==
  /\ IsFiniteSet(Overlays) /\ "parent" \notin Overlays
  /\ MaxSurfaceOps \in Nat /\ MaxParentMoves \in Nat

Geoms == {"window", "moved", "screen"}
NoGeom == "none"

(* How much work a pass owes: each level includes those below it. *)
Reconcile == 1
Restack == 2
Refocus == 3

NoNews == [level |-> 0, parent |-> "same"]
NoRequest == [unmapped |-> FALSE, map |-> FALSE, place |-> NoGeom]
NoWindow == [made |-> FALSE, mapped |-> FALSE, override |-> FALSE,
             managed |-> FALSE, geom |-> "window"]

VARIABLES
  xo_surface,  \* the registry: unborn, live or freed
  xo_visible,  \* the visibility in its record
  xo_asked,    \* the visibility the CEF thread asked for last
  xo_hand,     \* the commands (one at most) the CEF thread has still to enqueue
  xo_ops,      \* operations done by the CEF thread
  xo_commands, \* the command queue
  xo_resync,   \* the wake of the geometry thread
  xo_at,       \* where the geometry thread is: "loop", "commands", "pass" or "apply"
  xo_batch,    \* the commands it took from the queue and has still to handle
  xo_pending,  \* the work it owes
  xo_work,     \* what it knows of the parent, and whether this pass reasserts
  xo_order,    \* bottom-to-top order of the overlays
  xo_fsm,      \* per overlay: believed mapped, unmanaged
  xo_todo,     \* overlays left in this pass
  xo_seen,     \* what the server said of the first of them
  xo_parsed,   \* news that a round trip has read into userspace
  xo_server,   \* windows, stack (pairs, the upper first), parent, what the window
               \* manager has still to handle, and news on the socket
  xo_moves     \* what has happened to the parent

xocef == <<xo_surface, xo_visible, xo_asked, xo_hand, xo_ops>>
xoqueue == <<xo_commands, xo_resync>>
xothread == <<xo_at, xo_batch, xo_work, xo_order, xo_fsm, xo_todo, xo_seen>>
xovars == <<xocef, xoqueue, xothread, xo_pending, xo_parsed, xo_server, xo_moves>>

NotSeen == [geom |-> NoGeom, mapped |-> FALSE]

OverlayInit ==
  /\ xo_surface = [s \in Overlays |-> "unborn"]
  /\ xo_visible = [s \in Overlays |-> TRUE] /\ xo_asked = xo_visible
  /\ xo_hand = <<>> /\ xo_commands = <<>> /\ xo_resync = FALSE /\ xo_ops = 0
  /\ xo_batch = <<>>
  /\ xo_at = "loop" /\ xo_pending = Restack
  /\ xo_work = [geom |-> "window", fullscreen |-> FALSE, mapped |-> TRUE,
                reassert |-> FALSE]
  /\ xo_order = <<>> /\ xo_todo = <<>> /\ xo_seen = NotSeen
  /\ xo_fsm = [s \in Overlays |-> [mapped |-> FALSE, unmanaged |-> FALSE]]
  /\ xo_parsed = NoNews /\ xo_moves = 0
  /\ xo_server = [win |-> [s \in Overlays |-> NoWindow], stack |-> {},
                  parent |-> [geom |-> "window", fullscreen |-> FALSE, mapped |-> TRUE],
                  wm |-> [s \in Overlays |-> NoRequest], news |-> NoNews]

Higher(x, y) == IF x > y THEN x ELSE y
(* News that comes after other news. *)
Then(old, new) == [level |-> Higher(old.level, new.level),
                   parent |-> IF new.parent = "same" THEN old.parent ELSE new.parent]
Telling(sv, level) == [sv EXCEPT !.news = Then(@, [level |-> level, parent |-> "same"])]
(* The elements of a sequence that are in a set, in their order. *)
Only(seq, wanted) ==
  LET kept == {k \in DOMAIN seq : seq[k] \in wanted}
  IN  [n \in 1 .. Cardinality(kept) |->
         seq[CHOOSE k \in kept : Cardinality({j \in kept : j <= k}) = n]]
-----------------------------------------------------------------------------
(* surface.rs: desired state first, then the command *)

CefActs == xo_hand = <<>> /\ xo_ops < MaxSurfaceOps /\ xo_ops' = xo_ops + 1
CefKeeps == UNCHANGED <<xoqueue, xothread, xo_pending, xo_parsed, xo_server, xo_moves>>

AllocOverlay(s) ==
  /\ CefActs /\ xo_surface[s] = "unborn"
  /\ xo_surface' = [xo_surface EXCEPT ![s] = "live"]
  /\ xo_hand' = <<[op |-> "create", id |-> s]>>
  /\ UNCHANGED <<xo_visible, xo_asked>> /\ CefKeeps

FreeOverlay(s) ==
  /\ CefActs /\ xo_surface[s] = "live"
  /\ xo_surface' = [xo_surface EXCEPT ![s] = "freed"]
  /\ xo_hand' = <<[op |-> "destroy", id |-> s]>>
  /\ UNCHANGED <<xo_visible, xo_asked>> /\ CefKeeps

SetOverlayVisible(s, v) ==
  /\ CefActs /\ xo_surface[s] = "live" /\ xo_asked[s] # v
  /\ xo_asked' = [xo_asked EXCEPT ![s] = v]
  /\ xo_visible' = [xo_visible EXCEPT ![s] = v]
  /\ xo_hand' = IF xo_visible[s] = v THEN <<>>
                ELSE <<[op |-> "visible", id |-> s, visible |-> v]>>
  /\ UNCHANGED xo_surface /\ CefKeeps

OrderOverlays ==
  /\ CefActs
  /\ \E ids \in SetToSeqs({s \in Overlays : xo_surface[s] = "live"}) :
       ids # <<>> /\ xo_hand' = <<[op |-> "order", ids |-> ids]>>
  /\ UNCHANGED <<xo_surface, xo_visible, xo_asked>> /\ CefKeeps

EnqueueCommand ==
  /\ xo_hand # <<>> /\ xo_hand' = <<>>
  /\ xo_commands' = xo_commands \o xo_hand /\ xo_resync' = TRUE
  /\ UNCHANGED <<xo_surface, xo_visible, xo_asked, xo_ops, xothread, xo_pending,
                 xo_parsed, xo_server, xo_moves>>
-----------------------------------------------------------------------------
(* registry.rs: what the geometry thread may ask of a window.  Requests on *)
(* a managed window go to the window manager, but for its stacking, which  *)
(* is taken to be honoured at once.                                        *)

Windows(sv) == {"parent"} \cup {s \in Overlays : sv.win[s].made}
OnTop(sv, s) == {p \in sv.stack : p[1] # s /\ p[2] # s}
                  \cup {<<s, w>> : w \in Windows(sv) \ {s}}
Stacked(sv, stack) == IF stack = sv.stack THEN sv
                      ELSE Telling([sv EXCEPT !.stack = stack], Reconcile)
Unmap(sv, s) ==
  IF ~sv.win[s].mapped THEN sv
  ELSE Telling([sv EXCEPT !.win[s].mapped = FALSE,
                          !.wm[s].unmapped = @ \/ sv.win[s].managed], Reconcile)
SetOverrideRedirect(sv, s, v) == [Unmap(sv, s) EXCEPT !.win[s].override = v]
Map(sv, s) ==
  IF sv.win[s].mapped THEN sv
  ELSE IF sv.win[s].override THEN [sv EXCEPT !.win[s].mapped = TRUE]
  ELSE [sv EXCEPT !.wm[s].map = TRUE]
Raise(sv, s) == IF sv.win[s].override THEN Stacked(sv, OnTop(sv, s)) ELSE sv
(* The lowest of them is put just above the parent, each other just above  *)
(* the one before.  They are all the overlays there are.                   *)
RestackAbove(order) ==
  {<<order[k], "parent">> : k \in DOMAIN order}
    \cup {<<order[q[1]], order[q[2]]>> :
            q \in {p \in (DOMAIN order) \X (DOMAIN order) : p[1] > p[2]}}
PlaceAndSize(sv, s, geom) ==
  IF ~sv.win[s].override THEN [sv EXCEPT !.wm[s].place = geom]
  ELSE IF sv.win[s].geom = geom THEN sv
  ELSE Telling([sv EXCEPT !.win[s].geom = geom], Reconcile)
-----------------------------------------------------------------------------
(* geometry.rs: the commands, all that are in the queue, one by one *)

(* A round trip reads the socket, and keeps what it finds there. *)
RoundTrip(sv) ==
  /\ xo_parsed' = Then(xo_parsed, sv.news)
  /\ xo_server' = [sv EXCEPT !.news = NoNews]

HandleCreate(s) ==
  /\ RoundTrip([xo_server EXCEPT
                  !.win[s] = [NoWindow EXCEPT !.made = TRUE, !.override = xo_work.fullscreen,
                                              !.geom = xo_work.geom],
                  !.stack = OnTop(xo_server, s)])
  /\ xo_fsm' = [xo_fsm EXCEPT ![s] = [mapped |-> FALSE, unmanaged |-> xo_work.fullscreen]]
  /\ xo_order' = Append(xo_order, s)
  /\ UNCHANGED xo_visible

HandleDestroy(s) ==
  LET sv == Unmap(xo_server, s)
  IN  /\ xo_order' = Only(xo_order, Overlays \ {s})
      /\ xo_fsm' = [xo_fsm EXCEPT ![s] = [mapped |-> FALSE, unmanaged |-> FALSE]]
      /\ xo_server' = [sv EXCEPT !.win[s] = NoWindow, !.wm[s] = NoRequest,
                                 !.stack = {p \in @ : p[1] # s /\ p[2] # s}]
      /\ UNCHANGED <<xo_visible, xo_parsed>>

HandleVisible(s, v) ==
  /\ xo_visible' = IF xo_surface[s] = "live" THEN [xo_visible EXCEPT ![s] = v] ELSE xo_visible
  /\ UNCHANGED <<xo_order, xo_fsm, xo_server, xo_parsed>>

(* The requested order of what is owned, then what was not mentioned. *)
MergedOrder(ids, order) ==
  LET first == Only(ids, ToSet(order))
  IN  first \o Only(order, Overlays \ ToSet(first))

HandleSetOrder(ids) ==
  /\ xo_order' = MergedOrder(ids, xo_order)
  /\ xo_server' = Stacked(xo_server, RestackAbove(MergedOrder(ids, xo_order)))
  /\ UNCHANGED <<xo_visible, xo_fsm, xo_parsed>>

OnResync ==
  /\ xo_at = "loop" /\ xo_resync
  /\ xo_resync' = FALSE /\ xo_commands' = <<>>
  /\ xo_batch' = xo_commands /\ xo_at' = "commands"
  /\ UNCHANGED <<xocef, xo_pending, xo_work, xo_order, xo_fsm, xo_todo, xo_seen,
                 xo_parsed, xo_server, xo_moves>>

(* The last of them leaves a restack owed. *)
HandleCommand ==
  LET c == Head(xo_batch)
  IN  /\ xo_at = "commands" /\ xo_batch' = Tail(xo_batch)
      /\ \/ c.op = "create" /\ HandleCreate(c.id)
         \/ c.op = "destroy" /\ HandleDestroy(c.id)
         \/ c.op = "visible" /\ HandleVisible(c.id, c.visible)
         \/ c.op = "order" /\ HandleSetOrder(c.ids)
      /\ IF Tail(xo_batch) # <<>> THEN UNCHANGED <<xo_at, xo_pending>>
         ELSE xo_at' = "loop" /\ xo_pending' = Higher(xo_pending, Restack)
      /\ UNCHANGED <<xo_surface, xo_asked, xo_hand, xo_ops, xoqueue, xo_work, xo_todo,
                     xo_seen, xo_moves>>
-----------------------------------------------------------------------------
(* geometry.rs: events, and a pass *)

(* A fault: the socket alone wakes the loop. *)
HasEvents_SocketOnly == xo_server.news # NoNews

(* The loop wakes for the socket and for what was parsed before. *)
HasEvents == xo_server.news # NoNews \/ xo_parsed # NoNews

OnEvents ==
  /\ xo_at = "loop" /\ HasEvents
  /\ LET all == Then(xo_parsed, xo_server.news)
     IN  /\ xo_pending' = Higher(xo_pending, all.level)
         /\ xo_work' = IF all.parent = "same" THEN xo_work
                       ELSE [xo_work EXCEPT !.mapped = all.parent = "mapped"]
  /\ xo_parsed' = NoNews /\ xo_server' = [xo_server EXCEPT !.news = NoNews]
  /\ UNCHANGED <<xocef, xoqueue, xo_at, xo_batch, xo_order, xo_fsm, xo_todo, xo_seen, xo_moves>>

ReadParent ==
  LET parent == xo_server.parent
  IN  /\ xo_at = "loop" /\ xo_pending > 0
      /\ xo_pending' = 0
      /\ xo_work' = [xo_work EXCEPT
                       !.geom = parent.geom,
                       !.fullscreen = parent.fullscreen \/ parent.geom = "screen",
                       !.reassert = xo_pending >= Restack]
      /\ xo_todo' = xo_order /\ xo_at' = IF xo_order = <<>> THEN "loop" ELSE "pass"
      /\ RoundTrip(xo_server)
      /\ UNCHANGED <<xocef, xoqueue, xo_batch, xo_order, xo_fsm, xo_seen, xo_moves>>

Observe ==
  LET win == xo_server.win[Head(xo_todo)]
  IN  /\ xo_at = "pass" /\ xo_at' = "apply"
      /\ xo_seen' = [geom |-> win.geom, mapped |-> win.mapped]
      /\ RoundTrip(xo_server)
      /\ UNCHANGED <<xocef, xoqueue, xo_pending, xo_batch, xo_work, xo_order, xo_fsm, xo_todo,
                     xo_moves>>

(* overlay_fsm.rs: the state and the effects of a step. *)
Wanted(s) == xo_visible[s] /\ xo_work.mapped
Flips(s) == xo_fsm[s].unmanaged # xo_work.fullscreen
StillMapped(s) == xo_fsm[s].mapped /\ xo_seen.mapped /\ ~Flips(s)

StepOverlay(sv, s) ==
  LET flipped == IF Flips(s) THEN SetOverrideRedirect(sv, s, xo_work.fullscreen) ELSE sv
      mapped == IF StillMapped(s) THEN flipped ELSE Raise(Map(flipped, s), s)
      placed == IF StillMapped(s) /\ xo_seen.geom = xo_work.geom THEN mapped
                ELSE PlaceAndSize(mapped, s, xo_work.geom)
  IN  IF Wanted(s) THEN placed
      ELSE IF StillMapped(s) THEN Unmap(flipped, s) ELSE flipped

(* An unmanaged overlay that is shown is raised after what may restack. *)
Reasserts(s) == xo_work.reassert /\ xo_work.fullscreen /\ Wanted(s)

ApplyOverlay ==
  LET s == Head(xo_todo)
      sv == StepOverlay(xo_server, s)
  IN  /\ xo_at = "apply"
      /\ IF xo_surface[s] = "live"
         THEN /\ xo_fsm' = [xo_fsm EXCEPT ![s] = [mapped |-> Wanted(s),
                                                  unmanaged |-> xo_work.fullscreen]]
              /\ xo_server' = IF Reasserts(s) THEN Raise(sv, s) ELSE sv
         ELSE UNCHANGED <<xo_fsm, xo_server>>
      /\ xo_todo' = Tail(xo_todo) /\ xo_seen' = NotSeen
      /\ xo_at' = IF Tail(xo_todo) = <<>> THEN "loop" ELSE "pass"
      /\ UNCHANGED <<xocef, xoqueue, xo_pending, xo_batch, xo_work, xo_order, xo_parsed,
                     xo_moves>>
-----------------------------------------------------------------------------
(* The window manager *)

WmKeeps == UNCHANGED <<xocef, xoqueue, xothread, xo_pending, xo_parsed>>

(* It sees a managed window unmapped, and may withdraw it. *)
WmSeesUnmapped(s) ==
  LET seen == [xo_server EXCEPT !.wm[s].unmapped = FALSE, !.win[s].managed = FALSE]
  IN  /\ xo_server.wm[s].unmapped
      /\ xo_server' \in {seen, Unmap(seen, s)}
      /\ WmKeeps /\ UNCHANGED xo_moves

(* It maps a window at a place of its own. *)
WmMaps(s) ==
  LET asked == [xo_server EXCEPT !.wm[s].map = FALSE]
      stack == OnTop(asked, s)
      at(g) == [asked EXCEPT !.win[s].mapped = TRUE, !.win[s].managed = TRUE,
                             !.win[s].geom = g, !.stack = stack]
  IN  /\ xo_server.wm[s].map /\ ~xo_server.wm[s].unmapped
      /\ IF asked.win[s].override THEN xo_server' = asked
         ELSE \E g \in {asked.win[s].geom, "window"} :
                xo_server' = IF at(g) = [at(g) EXCEPT !.win[s].geom = asked.win[s].geom,
                                                      !.stack = asked.stack]
                             THEN at(g) ELSE Telling(at(g), Reconcile)
      /\ WmKeeps /\ UNCHANGED xo_moves

WmPlaces(s) ==
  LET request == xo_server.wm[s]
      asked == [xo_server EXCEPT !.wm[s].place = NoGeom, !.win[s].geom = request.place]
  IN  /\ request.place # NoGeom /\ ~request.unmapped /\ ~request.map
      /\ xo_server' = IF request.place = xo_server.win[s].geom THEN asked
                      ELSE Telling(asked, Reconcile)
      /\ WmKeeps /\ UNCHANGED xo_moves

(* What happens to the parent.  The window manager keeps its transients    *)
(* above it; it knows nothing of the others.                               *)
ParentBecomes(parent, level) ==
  /\ xo_moves < MaxParentMoves /\ xo_moves' = xo_moves + 1
  /\ parent # xo_server.parent
  /\ xo_server' = Telling([xo_server EXCEPT !.parent = parent], level)
  /\ WmKeeps

ParentMoves(geom) == ParentBecomes([xo_server.parent EXCEPT !.geom = geom], Restack)
ParentFullscreen(fs) == ParentBecomes([xo_server.parent EXCEPT !.fullscreen = fs], Restack)

ParentMapped(mapped) ==
  /\ xo_moves < MaxParentMoves /\ xo_moves' = xo_moves + 1
  /\ mapped # xo_server.parent.mapped
  /\ xo_server' = [xo_server EXCEPT
                     !.parent.mapped = mapped,
                     !.news = Then(@, IF mapped THEN [level |-> Refocus, parent |-> "mapped"]
                                      ELSE [level |-> Reconcile, parent |-> "unmapped"])]
  /\ WmKeeps

ParentRaised ==
  LET windows == Windows(xo_server)
      Tier(w) == IF w = "parent" THEN 2 ELSE IF xo_server.win[w].managed THEN 3 ELSE 1
      stack == {p \in windows \X windows :
                  \/ Tier(p[1]) > Tier(p[2])
                  \/ Tier(p[1]) = Tier(p[2]) /\ p \in xo_server.stack}
  IN  /\ xo_moves < MaxParentMoves /\ xo_moves' = xo_moves + 1
      /\ stack # xo_server.stack
      /\ xo_server' = Telling([xo_server EXCEPT !.stack = stack], Restack)
      /\ WmKeeps

OverlayNext ==
  \/ \E s \in Overlays : AllocOverlay(s) \/ FreeOverlay(s)
  \/ \E s \in Overlays, v \in BOOLEAN : SetOverlayVisible(s, v)
  \/ OrderOverlays
  \/ EnqueueCommand
  \/ OnResync
  \/ HandleCommand
  \/ OnEvents
  \/ ReadParent
  \/ Observe
  \/ ApplyOverlay
  \/ \E s \in Overlays : WmSeesUnmapped(s) \/ WmMaps(s) \/ WmPlaces(s)
  \/ \E geom \in Geoms : ParentMoves(geom)
  \/ \E b \in BOOLEAN : ParentFullscreen(b) \/ ParentMapped(b)
  \/ ParentRaised

OverlaySpec == OverlayInit /\ [][OverlayNext]_xovars
-----------------------------------------------------------------------------
(* The type invariant. *)
OverlayTypeOK ==
  /\ xo_surface \in [Overlays -> {"unborn", "live", "freed"}]
  /\ xo_visible \in [Overlays -> BOOLEAN] /\ xo_asked \in [Overlays -> BOOLEAN]
  /\ xo_resync \in BOOLEAN /\ xo_ops \in 0..MaxSurfaceOps /\ xo_moves \in 0..MaxParentMoves
  /\ xo_at \in {"loop", "commands", "pass", "apply"} /\ xo_pending \in 0..Refocus
  /\ xo_order \in Seq(Overlays) /\ xo_todo \in Seq(Overlays)
  /\ xo_fsm \in [Overlays -> [mapped : BOOLEAN, unmanaged : BOOLEAN]]

OverlaysQuiet ==
  /\ xo_hand = <<>> /\ ~xo_resync /\ ~HasEvents
  /\ xo_at = "loop" /\ xo_pending = 0
  /\ xo_server.wm = [s \in Overlays |-> NoRequest]

IsAbove(s, t) == <<s, t>> \in xo_server.stack

(* Whatever the window manager did to the parent or to the overlays, and   *)
(* in whatever order the events came, once all is handled a live overlay   *)
(* that is to be seen is mapped, just where the parent is and above it,    *)
(* and unmanaged exactly in fullscreen; the thread takes any other to be   *)
(* unmapped, and a freed surface has no window                             *)
(* (geometry.rs:573, overlay_fsm.rs:80).                                   *)
OverlaysFollowParent ==
  OverlaysQuiet =>
    \A s \in Overlays :
      LET win == xo_server.win[s]
          parent == xo_server.parent
      IN  /\ win.made = (xo_surface[s] = "live")
          /\ win.made /\ xo_visible[s] /\ parent.mapped =>
               /\ win.mapped /\ win.geom = parent.geom
               /\ win.override = (parent.fullscreen \/ parent.geom = "screen")
               /\ IsAbove(s, "parent")
          /\ win.made /\ ~(xo_visible[s] /\ parent.mapped) => ~xo_fsm[s].mapped

(* Refuted: an overlay that is not to be seen is unmapped ("Server truth   *)
(* wins", overlay_fsm.rs:84).  A window hidden while the window manager    *)
(* still has to map it is believed unmapped; nothing unmaps it later.      *)
HiddenIsUnmapped ==
  OverlaysQuiet =>
    \A s \in Overlays : xo_server.win[s].mapped => xo_visible[s] /\ xo_server.parent.mapped

(* Refuted: the visibility asked for last is the one in the record         *)
(* ("Redundant with the CEF-thread write", geometry.rs:411).  The echo of  *)
(* an older command overwrites a newer request, and the next request then  *)
(* seems to change nothing.                                                *)
LatestVisibilityWins == OverlaysQuiet => xo_visible = xo_asked

(* Refuted: overlays are stacked in their order ("Apply the z-order once,  *)
(* on this reorder", geometry.rs:383).  A window that is mapped again      *)
(* comes to the top.                                                       *)
StackedInOrder ==
  OverlaysQuiet =>
    \A j, k \in DOMAIN xo_order :
      /\ j < k
      /\ xo_server.win[xo_order[j]].mapped /\ xo_server.win[xo_order[k]].mapped
      => IsAbove(xo_order[k], xo_order[j])
=============================================================================
