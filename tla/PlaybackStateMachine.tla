------------------------ MODULE PlaybackStateMachine ------------------------
(***************************************************************************)
(* The playback state machine (src/src/playback/src/state_machine.rs): the *)
(* pure transition function from mpv observations and page commands to the *)
(* playback snapshot, the events announced to the sinks and the actions    *)
(* requested from them.  One action per handler; a handler's returned Vec  *)
(* of events is the value of `emitted` after the step.                     *)
(*                                                                         *)
(* The handlers are called by one thread (the coordinator worker), in the  *)
(* order in which several producer threads queued their inputs, so here    *)
(* any input may come at any time.                                         *)
(***************************************************************************)
EXTENDS Naturals, Sequences

CONSTANTS
  Items,          \* Jellyfin item ids a page can load
  NoItem,         \* the empty id: a load without one, or none remembered
  MaxPosition,    \* bound on position_us, in whatever unit
  ScalarFields,   \* snapshot fields that are stored and deduplicated only
  MaxActions      \* bound on actions that pile up without being consumed

ASSUME NoItemAssumption == NoItem \notin Items
ASSUME MaxPositionAssumption == MaxPosition \in Nat
ASSUME MaxActionsAssumption == MaxActions \in Nat

Presences == {"None", "Present"}
Phases == {"Starting", "Playing", "Paused", "Stopped"}
MediaTypes == {"Unknown", "Audio", "Video"}
EndReasons == {"Eof", "Error", "Canceled"}
Positions == 0 .. MaxPosition
ScalarValues == {0, 1}

TransportKinds == {"Started", "Paused", "Finished", "Canceled", "Error"}
TerminalKinds == {"Finished", "Canceled", "Error"}
EventKinds == TransportKinds \union
  {"TrackLoaded", "SeekingChanged", "BufferingChanged", "MediaTypeChanged",
   "PositionChanged", "FullscreenChanged", "ScalarChanged"}
ApplyTracks == "ApplyPendingTrackSelectionAndPlay"

Event == [kind : EventKinds, flag : BOOLEAN]
Ev(kind) == [kind |-> kind, flag |-> FALSE]
Flagged(kind, flag) == [kind |-> kind, flag |-> flag]

VARIABLES
  presence, phase, seeking, buffering, media_type, position_us,
  variant_switch_pending,
  fullscreen, maximized_before_fullscreen,
  scalar,               \* rate, duration, display_hz, buffered ranges
  pending_load, pause_requested, paused_for_cache, core_idle,
  frame_available, last_known_item_id, pending_actions,
  emitted,              \* what the last handler returned
  end_eaten             \* history: an end-file was swallowed since the load

transport == <<presence, phase, variant_switch_pending, pending_load,
               pause_requested, last_known_item_id>>
gates == <<paused_for_cache, core_idle, frame_available, media_type>>
window == <<fullscreen, maximized_before_fullscreen>>
vars == <<transport, gates, window, seeking, buffering, position_us, scalar,
          pending_actions, emitted, end_eaten>>

IsActivePhase == phase \in {"Starting", "Playing", "Paused"}
ReadyToPlay(ty, frame) == ty # "Video" \/ frame

Init ==
  /\ presence = "None" /\ phase = "Stopped"
  /\ seeking = FALSE /\ buffering = FALSE
  /\ media_type = "Unknown" /\ position_us = 0
  /\ variant_switch_pending = FALSE
  /\ fullscreen = FALSE /\ maximized_before_fullscreen = FALSE
  /\ scalar = [f \in ScalarFields |-> 0]
  /\ pending_load = FALSE /\ pause_requested = FALSE
  /\ paused_for_cache = FALSE /\ core_idle = FALSE
  /\ frame_available = FALSE /\ last_known_item_id = NoItem
  /\ pending_actions = <<>> /\ emitted = <<>>
  /\ end_eaten = FALSE

(* A handler that returns an empty Vec before assigning anything. *)
Ignored ==
  /\ emitted' = <<>>
  /\ UNCHANGED <<transport, gates, window, seeking, buffering, position_us,
                 scalar, pending_actions, end_eaten>>

(***************************************************************************)
(* A definition named <Def>_<fault> is <Def> with one plausible bug.  None *)
(* is used by the specification: they are there to be put in its place, to *)
(* see which property notices.                                             *)
(***************************************************************************)
TransitionToPlaying(out) ==
  /\ phase' = "Playing"
  /\ variant_switch_pending' = FALSE
  /\ emitted' = Append(out, Ev("Started"))

StayInPhase(out) ==
  /\ UNCHANGED <<phase, variant_switch_pending>>
  /\ emitted' = out

-----------------------------------------------------------------------------
(* Loads and ends *)

OnFileLoaded ==
  /\ Len(pending_actions) < MaxActions
  /\ presence' = "Present" /\ phase' = "Starting"
  /\ seeking' = FALSE
  /\ buffering' = (paused_for_cache \/ core_idle)
  /\ pending_load' = FALSE
  /\ pause_requested' = FALSE
  /\ frame_available' = FALSE
  /\ pending_actions' = Append(pending_actions, ApplyTracks)
  /\ emitted' = <<Ev("TrackLoaded")>>
  /\ end_eaten' = FALSE
  /\ UNCHANGED <<variant_switch_pending, last_known_item_id, paused_for_cache,
                 core_idle, media_type, window, position_us, scalar>>

OnLoadStarting(id) ==
  /\ pending_load' = TRUE
  /\ presence' = "Present" /\ phase' = "Starting"
  /\ seeking' = FALSE
  /\ buffering' = (paused_for_cache \/ core_idle)
  /\ variant_switch_pending' = (id # NoItem /\ id = last_known_item_id)
  /\ last_known_item_id' = IF id # NoItem THEN id ELSE last_known_item_id
  /\ pause_requested' = FALSE
  /\ frame_available' = FALSE
  /\ emitted' = <<Ev("TrackLoaded")>>
  /\ end_eaten' = FALSE
  /\ UNCHANGED <<paused_for_cache, core_idle, media_type, window, position_us,
                 scalar, pending_actions>>

IndicatorsCleared_SeekOnly ==
  IF seeking THEN <<Flagged("SeekingChanged", FALSE)>> ELSE <<>>

(* The events that clear the seek and buffering indicators of a file that  *)
(* ends, in the order in which `on_end_file` pushes them.                  *)
IndicatorsCleared ==
  (IF seeking THEN <<Flagged("SeekingChanged", FALSE)>> ELSE <<>>)
    \o (IF buffering THEN <<Flagged("BufferingChanged", FALSE)>> ELSE <<>>)

TerminalEvent(reason) ==
  Ev(CASE reason = "Eof" -> "Finished"
       [] reason = "Canceled" -> "Canceled"
       [] reason = "Error" -> "Error")

(* The track-switch path: a load is in flight, so the end of the previous  *)
(* file is swallowed.                                                      *)
EatEndFile(reason) ==
  /\ pending_load /\ reason # "Error"
  /\ pending_load' = FALSE
  /\ presence' = "Present" /\ phase' = "Starting"
  /\ emitted' = IndicatorsCleared
  /\ end_eaten' = TRUE
  /\ UNCHANGED <<pause_requested, variant_switch_pending, last_known_item_id,
                 position_us>>

Terminate_KeepsSession(reason) ==
  /\ ~(pending_load /\ reason # "Error")
  /\ pending_load' = FALSE
  /\ presence' = "None" /\ phase' = "Stopped"
  /\ position_us' = 0
  /\ emitted' = Append(IndicatorsCleared, TerminalEvent(reason))
  /\ end_eaten' = FALSE
  /\ UNCHANGED <<pause_requested, variant_switch_pending, last_known_item_id>>

Terminate(reason) ==
  /\ ~(pending_load /\ reason # "Error")
  /\ pending_load' = FALSE
  /\ pause_requested' = FALSE
  /\ presence' = "None" /\ phase' = "Stopped"
  /\ position_us' = 0
  /\ variant_switch_pending' = FALSE
  /\ last_known_item_id' = NoItem
  /\ emitted' = Append(IndicatorsCleared, TerminalEvent(reason))
  /\ end_eaten' = FALSE

OnEndFile(reason) ==
  /\ seeking' = FALSE
  /\ buffering' = FALSE
  /\ EatEndFile(reason) \/ Terminate(reason)
  /\ UNCHANGED <<gates, window, scalar, pending_actions>>
-----------------------------------------------------------------------------
(* Pause, seek and the gates of the first frame *)

PauseWhileActive(paused) ==
  /\ presence # "None" /\ phase # "Stopped"
  /\ pause_requested' = ~paused
  /\ \/ paused /\ phase = "Paused" /\ StayInPhase(<<>>)
     \/ /\ paused /\ phase # "Paused"
        /\ phase' = "Paused"
        /\ emitted' = <<Ev("Paused")>>
        /\ UNCHANGED variant_switch_pending
     \/ ~paused /\ phase = "Playing" /\ StayInPhase(<<>>)
     \/ ~paused /\ phase = "Paused" /\ TransitionToPlaying(<<>>)
     \/ /\ ~paused /\ phase = "Starting"
        /\ IF ~buffering /\ ReadyToPlay(media_type, frame_available)
           THEN TransitionToPlaying(<<>>)
           ELSE StayInPhase(<<>>)
  /\ UNCHANGED <<presence, pending_load, last_known_item_id, gates, window,
                 seeking, buffering, position_us, scalar, pending_actions,
                 end_eaten>>

OnPauseChanged(paused) ==
  \/ (presence = "None" \/ phase = "Stopped") /\ Ignored
  \/ PauseWhileActive(paused)

OnSeekingChanged(on) ==
  \/ (~IsActivePhase \/ seeking = on) /\ Ignored
  \/ /\ IsActivePhase /\ seeking # on
     /\ seeking' = on
     /\ emitted' = <<Flagged("SeekingChanged", on)>>
     /\ UNCHANGED <<transport, gates, window, buffering, position_us, scalar,
                    pending_actions, end_eaten>>

ApplyBufferingChange_NoPromotion(combined) ==
  IF ~IsActivePhase \/ buffering = combined
  THEN StayInPhase(<<>>) /\ UNCHANGED buffering
  ELSE /\ buffering' = combined
       /\ StayInPhase(<<Flagged("BufferingChanged", combined)>>)

(* `apply_buffering_change` with the combined value of the two causes; it  *)
(* is reached in an active phase only.                                     *)
ApplyBufferingChange(combined) ==
  IF ~IsActivePhase \/ buffering = combined
  THEN StayInPhase(<<>>) /\ UNCHANGED buffering
  ELSE /\ buffering' = combined
       /\ LET out == <<Flagged("BufferingChanged", combined)>>
          IN IF /\ ~combined /\ phase = "Starting" /\ pause_requested
                /\ ReadyToPlay(media_type, frame_available)
             THEN TransitionToPlaying(out)
             ELSE StayInPhase(out)

OnPausedForCache(pfc) ==
  \/ paused_for_cache = pfc /\ Ignored
  \/ /\ paused_for_cache # pfc
     /\ paused_for_cache' = pfc
     /\ ApplyBufferingChange(pfc \/ core_idle)
     /\ UNCHANGED <<presence, pending_load, pause_requested,
                    last_known_item_id, core_idle, frame_available,
                    media_type, window, seeking, position_us, scalar,
                    pending_actions, end_eaten>>

OnCoreIdle(idle) ==
  \/ core_idle = idle /\ Ignored
  \/ /\ core_idle # idle
     /\ core_idle' = idle
     /\ ApplyBufferingChange(paused_for_cache \/ idle)
     /\ UNCHANGED <<presence, pending_load, pause_requested,
                    last_known_item_id, paused_for_cache, frame_available,
                    media_type, window, seeking, position_us, scalar,
                    pending_actions, end_eaten>>

(* A position ends a seek, in any phase. *)
OnPosition(p) ==
  \/ position_us = p /\ ~seeking /\ Ignored
  \/ /\ ~(position_us = p /\ ~seeking)
     /\ position_us' = p
     /\ seeking' = FALSE
     /\ emitted' = (IF seeking THEN <<Flagged("SeekingChanged", FALSE)>> ELSE <<>>)
                     \o <<Ev("PositionChanged")>>
     /\ UNCHANGED <<transport, gates, window, buffering, scalar,
                    pending_actions, end_eaten>>

OnMediaType(ty) ==
  \/ media_type = ty /\ Ignored
  \/ /\ media_type # ty
     /\ media_type' = ty
     /\ LET out == <<Ev("MediaTypeChanged")>>
        IN IF /\ phase = "Starting" /\ pause_requested /\ ~buffering
              /\ ReadyToPlay(ty, frame_available)
           THEN TransitionToPlaying(out)
           ELSE StayInPhase(out)
     /\ UNCHANGED <<presence, pending_load, pause_requested,
                    last_known_item_id, paused_for_cache, core_idle,
                    frame_available, window, seeking, buffering, position_us,
                    scalar, pending_actions, end_eaten>>

OnVideoFrameAvailable(available) ==
  \/ frame_available = available /\ Ignored
  \/ /\ frame_available # available
     /\ frame_available' = available
     /\ IF /\ available /\ phase = "Starting"
           /\ pause_requested /\ ~buffering
        THEN TransitionToPlaying(<<>>)
        ELSE StayInPhase(<<>>)
     /\ UNCHANGED <<presence, pending_load, pause_requested,
                    last_known_item_id, paused_for_cache, core_idle,
                    media_type, window, seeking, buffering, position_us,
                    scalar, pending_actions, end_eaten>>
-----------------------------------------------------------------------------
(* Fields that are only stored *)

(* on_speed, on_duration, on_buffered_ranges and on_display_hz. *)
OnScalar(f, v) ==
  \/ scalar[f] = v /\ Ignored
  \/ /\ scalar[f] # v
     /\ scalar' = [scalar EXCEPT ![f] = v]
     /\ emitted' = <<Ev("ScalarChanged")>>
     /\ UNCHANGED <<transport, gates, window, seeking, buffering, position_us,
                    pending_actions, end_eaten>>

OnFullscreen(on, was_maximized) ==
  \/ fullscreen = on /\ Ignored
  \/ /\ fullscreen # on
     /\ fullscreen' = on
     /\ maximized_before_fullscreen' = (on /\ was_maximized)
     /\ emitted' = <<Ev("FullscreenChanged")>>
     /\ UNCHANGED <<transport, gates, seeking, buffering, position_us, scalar,
                    pending_actions, end_eaten>>

ConsumeActions ==
  /\ pending_actions # <<>>
  /\ pending_actions' = <<>>
  /\ UNCHANGED <<transport, gates, window, seeking, buffering, position_us,
                 scalar, emitted, end_eaten>>

Next ==
  \/ OnFileLoaded
  \/ \E id \in Items \union {NoItem} : OnLoadStarting(id)
  \/ \E reason \in EndReasons : OnEndFile(reason)
  \/ \E paused \in BOOLEAN : OnPauseChanged(paused)
  \/ \E on \in BOOLEAN : OnSeekingChanged(on)
  \/ \E pfc \in BOOLEAN : OnPausedForCache(pfc)
  \/ \E idle \in BOOLEAN : OnCoreIdle(idle)
  \/ \E p \in Positions : OnPosition(p)
  \/ \E ty \in MediaTypes : OnMediaType(ty)
  \/ \E available \in BOOLEAN : OnVideoFrameAvailable(available)
  \/ \E f \in ScalarFields, v \in ScalarValues : OnScalar(f, v)
  \/ \E on, was_maximized \in BOOLEAN : OnFullscreen(on, was_maximized)
  \/ ConsumeActions

Spec == Init /\ [][Next]_vars
-----------------------------------------------------------------------------
TypeOK ==
  /\ presence \in Presences /\ phase \in Phases
  /\ seeking \in BOOLEAN /\ buffering \in BOOLEAN
  /\ media_type \in MediaTypes /\ position_us \in Positions
  /\ variant_switch_pending \in BOOLEAN
  /\ fullscreen \in BOOLEAN /\ maximized_before_fullscreen \in BOOLEAN
  /\ scalar \in [ScalarFields -> ScalarValues]
  /\ pending_load \in BOOLEAN /\ pause_requested \in BOOLEAN
  /\ paused_for_cache \in BOOLEAN /\ core_idle \in BOOLEAN
  /\ frame_available \in BOOLEAN
  /\ last_known_item_id \in Items \union {NoItem}
  /\ pending_actions \in Seq({ApplyTracks})
  /\ Len(pending_actions) <= MaxActions
  /\ emitted \in Seq(Event)
  /\ end_eaten \in BOOLEAN

(* A stopped player carries nothing over into the next session: no seek or *)
(* buffering indicator, no half-done variant switch, no load in flight and *)
(* no remembered item (a remembered one would turn the next load of the    *)
(* same item into a "variant switch").                                     *)
StoppedIsClean ==
  /\ presence = "None" <=> phase = "Stopped"
  /\ phase = "Stopped" => /\ ~seeking /\ ~buffering
                          /\ ~variant_switch_pending /\ ~pending_load
                          /\ last_known_item_id = NoItem

(* The remembered play intent (`pause_requested` holds !paused) never      *)
(* contradicts the phase: only a player that was asked to play is Playing, *)
(* and a paused or stopped player carries no leftover request to play that *)
(* a later gate change could act on.                                       *)
IntentMatchesPhase ==
  /\ phase = "Playing" => pause_requested
  /\ phase \in {"Paused", "Stopped"} => ~pause_requested

(* No lost wakeup: the promotion Starting -> Playing is attempted only by  *)
(* the handler whose input changed, so whenever every gate is open the     *)
(* player has left Starting already.  Between a swallowed end-file and the *)
(* FILE_LOADED that follows it the gates may be stale.                     *)
PromotionNotMissed ==
  phase = "Starting" /\ ~end_eaten =>
    ~(pause_requested /\ ~buffering /\ ReadyToPlay(media_type, frame_available))

(* The published buffering flag is the disjunction of mpv's two causes,    *)
(* although each cause is tracked while inactive and the flag only while   *)
(* active.                                                                 *)
BufferingIsExact ==
  IsActivePhase /\ ~end_eaten => buffering = (paused_for_cache \/ core_idle)

(* A variant switch is pending only for the remembered item, and no longer *)
(* than until playback of the new variant.                                 *)
VariantOfRememberedItem ==
  variant_switch_pending => /\ last_known_item_id # NoItem
                            /\ phase # "Playing"

Kinds(events) == {events[i].kind : i \in DOMAIN events}

(* Every change of phase comes with the event that names it, except that   *)
(* the end of the previous track is swallowed while a load is in flight.   *)
PhaseTold ==
  phase' # phase =>
    \/ phase' = "Playing" /\ "Started" \in Kinds(emitted')
    \/ phase' = "Paused" /\ "Paused" \in Kinds(emitted')
    \/ phase' = "Stopped" /\ Kinds(emitted') \cap TerminalKinds # {}
    \/ phase' = "Starting" /\ "TrackLoaded" \in Kinds(emitted')
    \/ phase' = "Starting" /\ pending_load /\ ~pending_load'

(* An indicator changes with its own event, carrying the new value, or     *)
(* with the TrackLoaded that resets the whole display.                     *)
Told(kind, value) ==
  \/ \E i \in DOMAIN emitted' : emitted'[i] = Flagged(kind, value)
  \/ "TrackLoaded" \in Kinds(emitted')
IndicatorsTold ==
  /\ seeking' # seeking => Told("SeekingChanged", seeking')
  /\ buffering' # buffering => Told("BufferingChanged", buffering')

(* A consumer that only follows the events knows the phase and both        *)
(* indicators: none changes behind its back, whatever early return is      *)
(* taken.                                                                  *)
EventsSuffice == [][PhaseTold /\ IndicatorsTold]_vars

(* Playback of a new file is announced only when nothing holds it back:    *)
(* the player was asked to play, is not buffering, and, for video, has a   *)
(* frame to show.  Three handlers can be the last to open a gate.          *)
StartIsGated ==
  [][phase = "Starting" /\ phase' = "Playing" =>
       /\ pause_requested' /\ ~buffering'
       /\ ReadyToPlay(media_type', frame_available')]_vars

(* state_machine.rs:49-51 says of variant_switch_pending that it "must     *)
(* span until the new variant's first frame promotes to Playing".          *)
VariantSpansUntilFrame ==
  [][variant_switch_pending /\ phase' = "Playing" =>
       ReadyToPlay(media_type', frame_available')]_vars
=============================================================================
