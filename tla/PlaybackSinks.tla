--------------------------- MODULE PlaybackSinks ---------------------------
(***************************************************************************)
(* The coordinator composed with its builtin event sinks: idle inhibition  *)
(* (idle_inhibit_sink.rs), the page (browser_sink.rs) and the theme colour *)
(* (theme_color_sink.rs).  Each keeps state outside the playback core that *)
(* only the events can bring up to date, and every event of a batch        *)
(* carries the snapshot after the whole batch.                             *)
(***************************************************************************)
EXTENDS PlaybackCoordinator

VARIABLES
  idle_level,     \* what the platform was last told: None, System, Display
  page,           \* the transport state the page was last told
  page_position,  \* the position it was last told
  was_maximized   \* WAS_MAXIMIZED, read by the geometry save at exit

sinks == <<idle_level, page, page_position, was_maximized>>
svars == <<allvars, sinks>>

Levels == {"None", "System", "Display"}
PageStates == {"idle", "playing", "paused", "finished", "canceled", "error"}

SInit ==
  /\ CInit
  /\ idle_level = "None"
  /\ page = "idle" /\ page_position = 0
  /\ was_maximized = FALSE

-----------------------------------------------------------------------------
(* idle_inhibit_sink::deliver, for all the events of the batch *)

LevelFor(snap) ==
  IF snap.phase # "Playing" THEN "None"
  ELSE IF snap.media_type = "Audio" THEN "System" ELSE "Display"

IdleKinds == TransportKinds \union {"MediaTypeChanged"}

IdleInhibit ==
  /\ Advance("idle")
  /\ idle_level' = IF Kinds(events) \cap IdleKinds # {}
                   THEN LevelFor(published) ELSE idle_level
  /\ UNCHANGED <<page, page_position, was_maximized>>

(* browser_sink::deliver, event by event: the events the page is told of   *)
(* and the transport state each leaves it in.  A variant switch has no     *)
(* pause of the page's own, so that its load is shown as one.              *)

Heard_NoVariant(e, variant) == e.kind \in TransportKinds
Heard(e, variant) ==
  e.kind \in TransportKinds \/ (e.kind = "TrackLoaded" /\ variant)

StateOf(e) ==
  CASE e.kind = "Started"                 -> "playing"
    [] e.kind \in {"Paused", "TrackLoaded"} -> "paused"
    [] e.kind = "Finished"                -> "finished"
    [] e.kind = "Canceled"                -> "canceled"
    [] e.kind = "Error"                   -> "error"

(* The last event of the batch that the page hears of decides.             *)
IsLastHeard(n, variant) ==
  /\ n \in DOMAIN events /\ Heard(events[n], variant)
  /\ \A m \in DOMAIN events : Heard(events[m], variant) => m <= n
NothingHeard(variant) == \A n \in DOMAIN events : ~Heard(events[n], variant)

Browser ==
  /\ Advance("browser")
  /\ \/ NothingHeard(published.variant) /\ UNCHANGED page
     \/ \E n \in DOMAIN events :
          IsLastHeard(n, published.variant) /\ page' = StateOf(events[n])
  /\ page_position' = IF "PositionChanged" \in Kinds(events)
                      THEN published.position_us ELSE page_position
  /\ was_maximized' = IF "FullscreenChanged" \in Kinds(events)
                      THEN published.maximized ELSE was_maximized
  /\ UNCHANGED idle_level

(* Stages of other sinks: the media session, the theme colour, the actions. *)
OtherStage ==
  /\ \E stage \in {"media", "theme", "apply"} : Advance(stage)
  /\ UNCHANGED sinks

SNext == \/ (Post \/ WorkerStep \/ Shutdown \/ Finished) /\ UNCHANGED sinks
         \/ IdleInhibit \/ Browser \/ OtherStage

SSpec == SInit /\ [][SNext]_svars
-----------------------------------------------------------------------------
STypeOK ==
  /\ CTypeOK
  /\ idle_level \in Levels /\ page \in PageStates
  /\ page_position \in Positions /\ was_maximized \in BOOLEAN

(* The worker is between two batches: every sink has heard every event.    *)
Quiet == worker \in {"recv", "exited"}

PageFor(ph) == CASE ph = "Playing" -> {"playing"}
                 [] ph = "Paused"  -> {"paused"}
                 [] ph = "Stopped" -> {"idle", "finished", "canceled", "error"}
                 [] ph = "Starting" -> PageStates

(* Between batches every sink agrees with the player, although a batch may *)
(* have announced several states and every announcement was made with the  *)
(* same snapshot.  The screen is kept awake exactly while something plays  *)
(* (a load announces no transport event and keeps the level of the track   *)
(* before it); the page shows the transport state, and a variant switch as *)
(* a pause; the maximized flag the exit path reads is that of the last     *)
(* fullscreen change.                                                      *)
SinksAgree ==
  Quiet =>
    /\ phase # "Starting" => idle_level = LevelFor(Snapshot)
    /\ page \in PageFor(phase)
    /\ variant_switch_pending => page = "paused"
    /\ was_maximized = maximized_before_fullscreen

(* business_web.rs:298-299 posts the start position with every load "so    *)
(* MPRIS/JS see start position before mpv has opened the file": a position *)
(* the worker takes is shown by the page already or is announced to it.    *)
PositionReachesPage ==
  [][TakeInput /\ Head(queue).op = "Position" =>
       \/ page_position = Head(queue).arg
       \/ "PositionChanged" \in Kinds(events')]_svars
=============================================================================
