----------------------------- MODULE ThemeColor -----------------------------
(***************************************************************************)
(* The colour behind the page and the video (color/src/theme.rs): the      *)
(* page's theme colour, mpv's background while a video plays.  The main    *)
(* thread makes the tracker and tells it mpv's background before there is  *)
(* a page, and takes it away at exit (app.rs).  The UI thread sets video   *)
(* mode from the metadata the page gives with a load or by itself          *)
(* (business_web.rs); the coordinator's worker turns it off when it        *)
(* announces the end of a file, after it has told the page                 *)
(* (theme_color_sink.rs).                                                  *)
(***************************************************************************)
EXTENDS Naturals, Sequences

CONSTANTS
  Colors,        \* colours a page, or mpv's configuration, can ask for
  DefaultColor,  \* kBgColor
  ThemeLoads     \* bound on loads

ASSUME ColorsAssumption == DefaultColor \notin Colors
ASSUME ThemeLoadsAssumption == ThemeLoads \in Nat

VARIABLES
  tc_phase,      \* boot, before the browsers; running; gone, after shutdown
  tc_video_bg, tc_current, tc_unlocked, tc_video,   \* the tracker
  tc_applied,    \* last_applied: what the title bar and mpv were given
  tc_loads,      \* loads still to come
  tc_want,       \* history: the page last said that the item is a video
  tc_file,       \* mpv: none, opening, open
  tc_inputs,     \* the worker's queue: load, loaded, end, error
  tc_pending,    \* the state machine has a load in flight
  tc_active,     \* the state machine's presence
  tc_stage,      \* the worker between the sinks it calls for an end
  tc_raced       \* history: a load began with the last end not yet
                 \* announced, or the page told of a video nobody loads

tctracker == <<tc_video_bg, tc_current, tc_unlocked, tc_video, tc_applied>>
tcworker == <<tc_inputs, tc_pending, tc_active, tc_stage>>
tcpage == <<tc_loads, tc_want, tc_raced>>
tcvars == <<tctracker, tcworker, tcpage, tc_file, tc_phase>>

ThemeInit ==
  /\ tc_phase = "boot" /\ tc_video_bg = DefaultColor
  /\ tc_current = DefaultColor /\ tc_unlocked = FALSE /\ tc_video = FALSE
  /\ tc_applied = DefaultColor     \* jfn_theme_color_init applies once
  /\ tc_loads = ThemeLoads /\ tc_want = FALSE /\ tc_raced = FALSE
  /\ tc_file = "none"
  /\ tc_inputs = <<>> /\ tc_pending = FALSE /\ tc_active = FALSE
  /\ tc_stage = "recv"
-----------------------------------------------------------------------------
(* The tracker's operations, each under its lock, and nothing once it is   *)
(* gone.                                                                   *)

IfHeld(Op) == IF tc_phase = "gone" THEN UNCHANGED tctracker ELSE Op

Resolved(current, video) == IF video THEN tc_video_bg ELSE current

ApplyIfUnlocked(current, video) ==
  tc_applied' = IF tc_unlocked THEN Resolved(current, video) ELSE tc_applied

SetVideoBg(rgb) == IfHeld(
  /\ tc_video_bg' = rgb
  /\ tc_applied' = IF tc_video /\ tc_unlocked THEN rgb ELSE tc_applied
  /\ UNCHANGED <<tc_current, tc_unlocked, tc_video>>)

OnColor(rgb) == IfHeld(
  /\ tc_current' = rgb
  /\ ApplyIfUnlocked(rgb, tc_video)
  /\ UNCHANGED <<tc_video_bg, tc_unlocked, tc_video>>)

OnOverlayDismissed == IfHeld(
  /\ tc_unlocked' = TRUE
  /\ tc_applied' = Resolved(tc_current, tc_video)
  /\ UNCHANGED <<tc_video_bg, tc_current, tc_video>>)

SetVideoMode_Deferred(active) == IfHeld(
  /\ tc_video' = active
  /\ UNCHANGED <<tc_video_bg, tc_current, tc_unlocked, tc_applied>>)

SetVideoMode(active) == IfHeld(
  /\ tc_video' = active
  /\ IF tc_video = active THEN UNCHANGED tc_applied
     ELSE ApplyIfUnlocked(tc_current, active)
  /\ UNCHANGED <<tc_video_bg, tc_current, tc_unlocked>>)
-----------------------------------------------------------------------------
(* The main thread *)

(* init_main_browser: the browsers, and with them the page, come after. *)
InitMainBrowser ==
  /\ tc_phase = "boot" /\ tc_phase' = "running"
  /\ \E rgb \in Colors \union {DefaultColor} : SetVideoBg(rgb)
  /\ UNCHANGED <<tcworker, tcpage, tc_file>>

(* jfn_theme_color_shutdown: the worker and mpv are still there. *)
ThemeShutdown ==
  /\ tc_phase = "running" /\ tc_phase' = "gone"
  /\ UNCHANGED <<tctracker, tcworker, tcpage, tc_file>>
-----------------------------------------------------------------------------
(* The UI thread *)

HavePage == tc_phase # "boot" /\ UNCHANGED tc_phase

PageColor ==
  /\ HavePage
  /\ \E rgb \in Colors : OnColor(rgb)
  /\ UNCHANGED <<tcworker, tcpage, tc_file>>

DismissOverlay ==
  /\ HavePage
  /\ OnOverlayDismissed
  /\ UNCHANGED <<tcworker, tcpage, tc_file>>

StillQueued(input) == \E n \in DOMAIN tc_inputs : tc_inputs[n] = input
EndUnannounced == tc_stage # "recv" \/ StillQueued("end") \/ StillQueued("error")
NothingPlays == ~tc_active /\ tc_stage = "recv" /\ ~StillQueued("load")

(* handle_player_load; the page always gives the metadata.  LoadStarting   *)
(* is posted, video mode set, and mpv told to load, which ends the file it *)
(* has.                                                                    *)
PageLoad ==
  /\ HavePage
  /\ tc_loads > 0
  /\ tc_loads' = tc_loads - 1
  /\ \E video \in BOOLEAN : SetVideoMode(video) /\ tc_want' = video
  /\ tc_raced' = EndUnannounced
  /\ tc_inputs' = tc_inputs \o
       (IF tc_file = "none" THEN <<"load">> ELSE <<"load", "end">>)
  /\ tc_file' = "opening"
  /\ UNCHANGED <<tc_pending, tc_active, tc_stage>>

(* notifyMetadata, whatever plays by then. *)
NotifyMetadata ==
  /\ HavePage
  /\ \E video \in BOOLEAN :
       /\ SetVideoMode(video) /\ tc_want' = video
       /\ tc_raced' = (tc_raced \/ (video /\ NothingPlays))
  /\ UNCHANGED <<tcworker, tc_loads, tc_file>>
-----------------------------------------------------------------------------
(* mpv *)

MpvReports(input, file) ==
  /\ tc_file' = file
  /\ tc_inputs' = Append(tc_inputs, input)
  /\ UNCHANGED <<tctracker, tcpage, tc_phase, tc_pending, tc_active, tc_stage>>

MpvOpens == tc_file = "opening" /\ MpvReports("loaded", "open")
MpvFails == tc_file = "opening" /\ MpvReports("error", "none")
MpvEnds == tc_file = "open" /\ MpvReports("end", "none")
-----------------------------------------------------------------------------
(* The worker: the end of the previous track is swallowed while a load is  *)
(* in flight; any other end is announced to the page, then to the theme.   *)

WorkerTakes ==
  /\ tc_stage = "recv" /\ tc_inputs # <<>>
  /\ tc_inputs' = Tail(tc_inputs)
  /\ LET input == Head(tc_inputs)
         eaten == input = "end" /\ tc_pending
         over == input \in {"end", "error"} /\ ~eaten
     IN /\ tc_pending' = (input = "load")
        /\ tc_active' = ~over
        /\ tc_stage' = IF over THEN "browser" ELSE "recv"
  /\ UNCHANGED <<tctracker, tcpage, tc_file, tc_phase>>

TellPage ==
  /\ tc_stage = "browser"
  /\ tc_stage' = "theme"
  /\ UNCHANGED <<tctracker, tc_inputs, tc_pending, tc_active, tcpage, tc_file, tc_phase>>

TellTheme ==
  /\ tc_stage = "theme"
  /\ tc_stage' = "recv"
  /\ SetVideoMode(FALSE)
  /\ UNCHANGED <<tc_inputs, tc_pending, tc_active, tcpage, tc_file, tc_phase>>

ThemeNext ==
  \/ InitMainBrowser \/ ThemeShutdown
  \/ PageColor \/ DismissOverlay \/ PageLoad \/ NotifyMetadata
  \/ MpvOpens \/ MpvFails \/ MpvEnds
  \/ WorkerTakes \/ TellPage \/ TellTheme
ThemeSpec == ThemeInit /\ [][ThemeNext]_tcvars
-----------------------------------------------------------------------------
(* With nothing left to announce, the colour given to the title bar and to *)
(* mpv is that of what is on the screen: mpv's background while an item    *)
(* the page calls a video is loaded or playing, the page's colour          *)
(* otherwise, and the default under the connection overlay.  Excepted are  *)
(* a load the page began before the worker had told everybody of the end   *)
(* of the last file, since that end then turns the new video's mode off;   *)
(* and a page that tells of a video after the worker has told it of the    *)
(* end, which nothing turns off until the next load ends.                  *)
ThemeFollowsPlayback ==
  tc_inputs = <<>> /\ tc_stage = "recv" /\ ~tc_raced /\ tc_phase # "gone" =>
    tc_applied = IF tc_unlocked
                 THEN Resolved(tc_current, tc_active /\ tc_want)
                 ELSE DefaultColor

(* theme.rs:5 has the background switch "while video is playing"; the race *)
(* excepted above breaks it.                                               *)
VideoModeWhilePlaying ==
  tc_inputs = <<>> /\ tc_stage = "recv" /\ tc_phase # "gone" /\ tc_active /\ tc_want =>
    tc_video
=============================================================================
