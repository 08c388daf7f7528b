---------------------------- MODULE MediaSession ----------------------------
(***************************************************************************)
(* The OS media session: what MPRIS (mpris/src/sink.rs), SMTC              *)
(* (windows_sink) or the now-playing centre (macos_sink) is told of the    *)
(* playback the state machine tracks.                                      *)
(*                                                                         *)
(* The coordinator's worker collects a batch of events, then announces     *)
(* them one by one, each with the snapshot after the whole batch, to the   *)
(* event sink, which only queues them: without a bound for MPRIS, and with *)
(* a try_send that drops for the two others (sink_core.rs).  A consumer    *)
(* thread per session tells the OS.                                        *)
(***************************************************************************)
EXTENDS PlaybackStateMachine

CONSTANTS
  MediaItems,     \* items the page announces metadata of
  NoMedia,        \* no item, and no artwork
  QueueCap,       \* EVENT_QUEUE_CAP
  InputBudget     \* bound on the inputs of a run

ASSUME NoMediaAssumption == NoMedia \notin MediaItems
ASSUME QueueCapAssumption == QueueCap \in Nat /\ InputBudget \in Nat

Apis == {"mpris", "smtc", "nowplaying"}

VARIABLES
  ms_api,         \* the session of this build
  ms_left,        \* inputs still to come
  ms_batch,       \* the worker's events, not yet announced
  ms_announcing,  \* the batch is complete
  ms_queue,       \* the session's queue
  ms_held,        \* the consumer's copy of the metadata
  ms_os,          \* what the OS has been told
  ms_page,        \* history: the item and artwork the page announced last
  ms_lost         \* history: the last transport event found the queue full

msinput == <<ms_left, ms_page>>
msworker == <<ms_batch, ms_announcing>>
msconsumer == <<ms_held, ms_os>>
msvars == <<vars, ms_api, msinput, msworker, ms_queue, msconsumer, ms_lost>>

NoItemShown == [item |-> NoMedia, art |-> NoMedia]

SessionInit ==
  /\ Init
  /\ ms_api \in Apis
  /\ ms_left = InputBudget
  /\ ms_batch = <<>> /\ ms_announcing = FALSE
  /\ ms_queue = <<>>
  /\ ms_held = NoItemShown /\ ms_page = NoItemShown
  /\ ms_os = [status |-> "Stopped", rolling |-> FALSE, shown |-> NoItemShown]
  /\ ms_lost = FALSE
-----------------------------------------------------------------------------
(* The worker *)

Announcement(kind, about) == [kind |-> kind, about |-> about]
Announcements(events) ==
  [n \in DOMAIN events |-> Announcement(events[n].kind, NoItemShown)]

(* One input of the batch, and the event of its own some inputs add. *)
Collect(trailer) ==
  /\ ~ms_announcing /\ ms_left > 0
  /\ ms_left' = ms_left - 1
  /\ ms_batch' = ms_batch \o Announcements(emitted') \o trailer
  /\ UNCHANGED <<ms_api, ms_announcing, ms_queue, msconsumer, ms_lost>>

MpvInput ==
  /\ \/ OnFileLoaded
     \/ \E id \in Items : OnLoadStarting(id)
     \/ \E reason \in EndReasons : OnEndFile(reason)
     \/ \E on \in BOOLEAN : OnPauseChanged(on)
     \/ \E on \in BOOLEAN : OnSeekingChanged(on)
     \/ \E on \in BOOLEAN : OnPausedForCache(on)
  /\ Collect(<<>>)
  /\ UNCHANGED ms_page

(* The page's metadata comes without its picture, which follows on its own *)
(* when it has been fetched.                                               *)
MetadataInput(item) ==
  /\ OnMediaType("Audio")
  /\ Collect(<<Announcement("MetadataChanged",
                            [item |-> item, art |-> NoMedia])>>)
  /\ ms_page' = IF item = ms_page.item
                THEN ms_page ELSE [item |-> item, art |-> NoMedia]

ArtworkInput ==
  /\ ms_page.item # NoMedia
  /\ Ignored
  /\ Collect(<<Announcement("ArtworkChanged",
                            [item |-> NoMedia, art |-> ms_page.item])>>)
  /\ ms_page' = [ms_page EXCEPT !.art = ms_page.item]

BatchDone ==
  /\ ~ms_announcing /\ ms_batch # <<>>
  /\ ms_announcing' = TRUE
  /\ pending_actions' = <<>> /\ emitted' = <<>>
  /\ UNCHANGED <<transport, gates, window, seeking, buffering, position_us,
                 scalar, end_eaten, ms_api, msinput, ms_batch, ms_queue,
                 msconsumer, ms_lost>>

SnapshotNow == [phase |-> phase, seeking |-> seeking, buffering |-> buffering]

Transports == {"Started", "Paused", "TrackLoaded"} \union TerminalKinds

(* What the event sink does with one event: send for MPRIS, try_send into  *)
(* the bounded queue of the harness.                                       *)
EventSink(ev) ==
  IF ms_api = "mpris" \/ Len(ms_queue) < QueueCap
  THEN /\ ms_queue' = Append(ms_queue, ev)
       /\ ms_lost' = (ms_lost /\ ev.kind \notin Transports)
  ELSE /\ ms_lost' = (ms_lost \/ ev.kind \in Transports)
       /\ UNCHANGED ms_queue

Announce ==
  /\ ms_announcing
  /\ EventSink([kind |-> Head(ms_batch).kind, about |-> Head(ms_batch).about,
                snapshot |-> SnapshotNow])
  /\ ms_batch' = Tail(ms_batch)
  /\ ms_announcing' = (Tail(ms_batch) # <<>>)
  /\ UNCHANGED <<vars, ms_api, msinput, msconsumer>>
-----------------------------------------------------------------------------
(* MPRIS: every event refreshes the snapshot; some recompute the           *)
(* properties and emit those that moved.                                   *)

Recomputes_NoBuffering(kind) ==
  kind \notin {"PositionChanged", "MediaTypeChanged", "FullscreenChanged",
               "ScalarChanged", "Seeked", "BufferingChanged"}

Recomputes(kind) ==
  kind \notin {"PositionChanged", "MediaTypeChanged", "FullscreenChanged",
               "ScalarChanged", "Seeked"}

(* A repeated id is the same item: its art field, empty as posted, must    *)
(* not clobber the picture that came with an ArtworkChanged.               *)
MprisContent(ev) ==
  CASE ev.kind = "MetadataChanged" /\ ev.about.item # ms_held.item -> ev.about
    [] ev.kind = "ArtworkChanged" -> [ms_held EXCEPT !.art = ev.about.art]
    [] OTHER -> ms_held

(* projection.rs: status is the user's intent, the rate is frame motion. *)
StatusFor(p) ==
  CASE p \in {"Playing", "Starting"} -> "Playing"
    [] p = "Paused"                  -> "Paused"
    [] p = "Stopped"                 -> "Stopped"
Rolling(snapshot) ==
  snapshot.phase = "Playing" /\ ~snapshot.seeking /\ ~snapshot.buffering
Project(snapshot, content) ==
  [status  |-> StatusFor(snapshot.phase),
   rolling |-> Rolling(snapshot),
   shown   |-> IF snapshot.phase = "Stopped" THEN NoItemShown ELSE content]

MprisHandle(ev) ==
  LET repeat == ev.kind = "MetadataChanged" /\ ev.about.item = ms_held.item
  IN /\ ms_held' = MprisContent(ev)
     /\ ms_os' = IF Recomputes(ev.kind) /\ ~repeat
                 THEN Project(ev.snapshot, MprisContent(ev)) ELSE ms_os
-----------------------------------------------------------------------------
(* The harness's two sinks: the phase comes from the event's kind. *)

MapKindToPhase(kind) ==
  CASE kind = "Started"                   -> "Playing"
    [] kind \in {"Paused", "TrackLoaded"} -> "Paused"
    [] OTHER                              -> "Stopped"

(* SMTC: metadata is held back until playback starts; the thumbnail is     *)
(* pushed when it comes and again with the display properties.             *)
SmtcDeliver(ev) ==
  LET item == [ms_held EXCEPT !.item = ev.about.item]
      art == [ms_held EXCEPT !.art = ev.about.art]
      status == MapKindToPhase(ev.kind)
  IN CASE ev.kind = "MetadataChanged" ->
            ms_held' = item /\ UNCHANGED ms_os
       [] ev.kind = "ArtworkChanged" ->
            /\ ms_held' = art
            /\ ms_os' = [ms_os EXCEPT !.shown.art = ev.about.art]
       [] ev.kind = "Started" ->
            /\ ms_os' = [ms_os EXCEPT !.status = status, !.shown = ms_held]
            /\ UNCHANGED ms_held
       [] ev.kind \in {"Paused", "TrackLoaded"} ->
            /\ ms_os' = [ms_os EXCEPT !.status = status]
            /\ UNCHANGED ms_held
       [] ev.kind \in TerminalKinds ->
            /\ ms_held' = NoItemShown
            /\ ms_os' = [ms_os EXCEPT !.status = status, !.shown = NoItemShown]
       [] OTHER -> UNCHANGED msconsumer

(* The now-playing centre: new metadata replaces the dictionary and with   *)
(* it the picture, which is put only into a dictionary that exists.        *)
NowPlayingDeliver(ev) ==
  LET repeat == ev.about.item = ms_held.item
      status == MapKindToPhase(ev.kind)
  IN CASE ev.kind = "MetadataChanged" /\ ~repeat ->
            /\ ms_held' = ev.about
            /\ ms_os' = [ms_os EXCEPT !.shown = ev.about]
       [] ev.kind = "ArtworkChanged" ->
            /\ ms_held' = [ms_held EXCEPT !.art = ev.about.art]
            /\ ms_os' = IF ms_os.shown.item = NoMedia THEN ms_os
                        ELSE [ms_os EXCEPT !.shown.art = ev.about.art]
       [] ev.kind \in TerminalKinds ->
            /\ ms_held' = NoItemShown
            /\ ms_os' = [ms_os EXCEPT !.status = status, !.shown = NoItemShown]
       [] ev.kind \in Transports \ TerminalKinds ->
            /\ ms_os' = [ms_os EXCEPT !.status = status]
            /\ UNCHANGED ms_held
       [] OTHER -> UNCHANGED msconsumer

Consume ==
  /\ ms_queue # <<>>
  /\ ms_queue' = Tail(ms_queue)
  /\ \/ ms_api = "mpris" /\ MprisHandle(Head(ms_queue))
     \/ ms_api = "smtc" /\ SmtcDeliver(Head(ms_queue))
     \/ ms_api = "nowplaying" /\ NowPlayingDeliver(Head(ms_queue))
  /\ UNCHANGED <<vars, ms_api, msinput, msworker, ms_lost>>

SessionNext ==
  \/ MpvInput \/ (\E item \in MediaItems : MetadataInput(item)) \/ ArtworkInput
  \/ BatchDone \/ Announce \/ Consume
SessionSpec == SessionInit /\ [][SessionNext]_msvars
-----------------------------------------------------------------------------
SessionTypeOK ==
  /\ TypeOK
  /\ ms_api \in Apis /\ ms_left \in 0 .. InputBudget
  /\ ms_announcing \in BOOLEAN /\ ms_lost \in BOOLEAN
  /\ ms_api # "mpris" => Len(ms_queue) <= QueueCap
  /\ ms_os.status \in {"Playing", "Paused", "Stopped"}
  /\ ms_os.rolling \in BOOLEAN

SessionSettled == ms_batch = <<>> /\ ms_queue = <<>>

(* The status each session shows in a phase: MPRIS shows a load as playing *)
(* (rate 0), the two others as paused.                                     *)
ShownStatus ==
  IF ms_api = "mpris" THEN StatusFor(phase)
  ELSE CASE phase = "Playing"               -> "Playing"
         [] phase \in {"Paused", "Starting"} -> "Paused"
         [] phase = "Stopped"               -> "Stopped"

(* Once everything announced has been consumed, the OS shows the phase the *)
(* player is in, and MPRIS also whether frames are rolling and the item    *)
(* and artwork the page announced last, although each event is decided     *)
(* upon by its kind and carries a snapshot that may be ahead of it.  Only  *)
(* the last transport event dropped by a full queue, or the swallowed end  *)
(* of a previous track (which has no event), leaves the session behind.    *)
SessionAgrees ==
  SessionSettled /\ ~ms_lost /\ ~end_eaten =>
    /\ ms_os.status = ShownStatus
    /\ ms_api = "mpris" =>
         /\ ms_os.rolling = Rolling(SnapshotNow)
         /\ phase # "Stopped" => ms_os.shown = ms_page
    /\ phase = "Stopped" /\ ms_api # "nowplaying" => ms_os.shown.item = NoMedia
=============================================================================
