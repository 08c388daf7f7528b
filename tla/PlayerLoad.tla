----------------------------- MODULE PlayerLoad -----------------------------
(***************************************************************************)
(* A load as a whole: handle_player_load on the CEF UI thread              *)
(* (business_web.rs), the deferred track selection it leaves behind        *)
(* (mpv/src/api.rs), mpv opening the file, and the coordinator's worker    *)
(* applying the selection when it hears that the file is loaded.           *)
(*                                                                         *)
(* Loads are numbered.  The UI thread and the worker meet in one slot, the *)
(* pending selection, and in mpv's command queue; each of them touches the *)
(* slot first and the queue afterwards.                                    *)
(***************************************************************************)
EXTENDS Naturals, Sequences

CONSTANT MaxLoads   \* bound on the loads the page asks for
ASSUME MaxLoadsAssumption == MaxLoads \in Nat

NoLoad == 0
Loads == 1 .. MaxLoads

VARIABLES
  pl_ui,        \* the UI thread: idle, or inside the handler
  pl_last,      \* the number of the load begun last
  pl_pending,   \* the slot: of which load, and still valid
  pl_commands,  \* mpv's command queue
  pl_opening,   \* the load mpv is opening, or NoLoad
  pl_file,      \* the load whose file mpv has open, or NoLoad
  pl_tracks,    \* the load whose selection was written to the open file
  pl_paused,    \* mpv's pause property
  pl_events,    \* FILE_LOADED on its way to the worker
  pl_actions,   \* ApplyPendingTrackSelectionAndPlay, still to be delivered
  pl_held,      \* the selection the worker took out of the slot
  pl_overlap    \* history: a load began before an earlier one was acted upon

pl_mpv == <<pl_opening, pl_file, pl_tracks, pl_paused>>
pl_worker == <<pl_actions, pl_held>>
plvars == <<pl_ui, pl_last, pl_pending, pl_commands, pl_mpv, pl_events,
            pl_worker, pl_overlap>>

LoadInit ==
  /\ pl_ui = "idle" /\ pl_last = NoLoad
  /\ pl_pending = [of |-> NoLoad, valid |-> FALSE]
  /\ pl_commands = <<>>
  /\ pl_opening = NoLoad /\ pl_file = NoLoad /\ pl_tracks = NoLoad
  /\ pl_paused = FALSE
  /\ pl_events = 0 /\ pl_actions = 0 /\ pl_held = NoLoad
  /\ pl_overlap = FALSE

Command(op, of) == [op |-> op, of |-> of]

(* What an earlier load has started is not over: mpv may still report its  *)
(* file, or the worker still has to act on the report.                     *)
LoadUnderway ==
  \/ pl_commands # <<>> \/ pl_opening # NoLoad
  \/ pl_events > 0 \/ pl_actions > 0 \/ pl_held # NoLoad
-----------------------------------------------------------------------------
(* handle_player_load and jfn_mpv_load_file, on the UI thread *)

StashSelection_NotValid ==
  /\ pl_ui = "idle" /\ pl_last < MaxLoads
  /\ pl_ui' = "stashed" /\ pl_last' = pl_last + 1
  /\ pl_pending' = [pl_pending EXCEPT !.of = pl_last + 1]
  /\ pl_overlap' = (pl_overlap \/ LoadUnderway)
  /\ UNCHANGED <<pl_commands, pl_mpv, pl_events, pl_worker>>

(* A load whose URL passes the gate: the selection is put into the slot    *)
(* and the lock released ...                                               *)
StashSelection ==
  /\ pl_ui = "idle" /\ pl_last < MaxLoads
  /\ pl_ui' = "stashed" /\ pl_last' = pl_last + 1
  /\ pl_pending' = [of |-> pl_last + 1, valid |-> TRUE]
  /\ pl_overlap' = (pl_overlap \/ LoadUnderway)
  /\ UNCHANGED <<pl_commands, pl_mpv, pl_events, pl_worker>>

(* ... before `loadfile ... pause=yes` goes to mpv's queue.                *)
SendLoadfile ==
  /\ pl_ui = "stashed"
  /\ pl_ui' = "idle"
  /\ pl_commands' = Append(pl_commands, Command("loadfile", pl_last))
  /\ UNCHANGED <<pl_last, pl_pending, pl_mpv, pl_events, pl_worker, pl_overlap>>
-----------------------------------------------------------------------------
(* mpv: commands in the order in which they were queued *)

ExecLoadfile ==
  /\ pl_commands # <<>> /\ Head(pl_commands).op = "loadfile"
  /\ pl_commands' = Tail(pl_commands)
  /\ pl_opening' = Head(pl_commands).of
  /\ pl_file' = NoLoad /\ pl_tracks' = NoLoad
  /\ pl_paused' = TRUE
  /\ UNCHANGED <<pl_ui, pl_last, pl_pending, pl_events, pl_worker, pl_overlap>>

(* vid, aid and sid select tracks of an open file only: with automatic     *)
(* selection off mpv forgets them when it opens the next one.              *)
ExecSelect ==
  /\ pl_commands # <<>> /\ Head(pl_commands).op = "select"
  /\ pl_commands' = Tail(pl_commands)
  /\ pl_tracks' = IF pl_file # NoLoad THEN Head(pl_commands).of ELSE pl_tracks
  /\ UNCHANGED <<pl_ui, pl_last, pl_pending, pl_opening, pl_file, pl_paused,
                 pl_events, pl_worker, pl_overlap>>

ExecUnpause ==
  /\ pl_commands # <<>> /\ Head(pl_commands).op = "unpause"
  /\ pl_commands' = Tail(pl_commands)
  /\ pl_paused' = FALSE
  /\ UNCHANGED <<pl_ui, pl_last, pl_pending, pl_opening, pl_file, pl_tracks,
                 pl_events, pl_worker, pl_overlap>>

FileOpened ==
  /\ pl_opening # NoLoad
  /\ pl_file' = pl_opening /\ pl_opening' = NoLoad
  /\ pl_events' = pl_events + 1
  /\ UNCHANGED <<pl_ui, pl_last, pl_pending, pl_commands, pl_tracks, pl_paused,
                 pl_worker, pl_overlap>>

OpenFailed ==
  /\ pl_opening # NoLoad
  /\ pl_opening' = NoLoad
  /\ UNCHANGED <<pl_ui, pl_last, pl_pending, pl_commands, pl_file, pl_tracks,
                 pl_paused, pl_events, pl_worker, pl_overlap>>
-----------------------------------------------------------------------------
(* The worker: on_file_loaded requests the action, the batch delivers it *)

TakeFileLoaded ==
  /\ pl_events > 0
  /\ pl_events' = pl_events - 1
  /\ pl_actions' = pl_actions + 1
  /\ UNCHANGED <<pl_ui, pl_last, pl_pending, pl_commands, pl_mpv, pl_held,
                 pl_overlap>>

TakeSelection ==
  /\ pl_actions > 0 /\ pl_held = NoLoad
  /\ pl_actions' = pl_actions - 1
  /\ IF pl_pending.valid
     THEN /\ pl_held' = pl_pending.of
          /\ pl_pending' = [pl_pending EXCEPT !.valid = FALSE]
     ELSE UNCHANGED <<pl_held, pl_pending>>
  /\ UNCHANGED <<pl_ui, pl_last, pl_commands, pl_mpv, pl_events, pl_overlap>>

WriteSelection ==
  /\ pl_held # NoLoad
  /\ pl_held' = NoLoad
  /\ pl_commands' = pl_commands \o
       <<Command("select", pl_held), Command("unpause", pl_held)>>
  /\ UNCHANGED <<pl_ui, pl_last, pl_pending, pl_mpv, pl_events, pl_actions,
                 pl_overlap>>

LoadNext ==
  \/ StashSelection \/ SendLoadfile
  \/ ExecLoadfile \/ ExecSelect \/ ExecUnpause \/ FileOpened \/ OpenFailed
  \/ TakeFileLoaded \/ TakeSelection \/ WriteSelection

LoadSpec == LoadInit /\ [][LoadNext]_plvars
-----------------------------------------------------------------------------
LoadTypeOK ==
  /\ pl_ui \in {"idle", "stashed"}
  /\ pl_last \in 0 .. MaxLoads
  /\ pl_pending \in [of : 0 .. MaxLoads, valid : BOOLEAN]
  /\ pl_commands \in Seq([op : {"loadfile", "select", "unpause"}, of : Loads])
  /\ pl_opening \in 0 .. MaxLoads /\ pl_file \in 0 .. MaxLoads
  /\ pl_tracks \in 0 .. MaxLoads /\ pl_paused \in BOOLEAN
  /\ pl_events \in Nat /\ pl_actions \in Nat
  /\ pl_held \in 0 .. MaxLoads /\ pl_overlap \in BOOLEAN

LoadSettled == pl_ui = "idle" /\ ~LoadUnderway

SelectedAndPlaying == pl_tracks = pl_file /\ ~pl_paused

(* A file that was opened ends up playing with the tracks chosen for it,   *)
(* and mpv never runs unpaused without them: as long as no load begins     *)
(* before the one ahead of it has been acted upon.  After a failed load    *)
(* the slot still holds a selection, which the next load replaces.         *)
PlaysWithItsTracks ==
  ~pl_overlap /\ pl_file # NoLoad =>
    /\ LoadSettled => SelectedAndPlaying
    /\ ~pl_paused => pl_tracks = pl_file

(* api.rs:551-556: the "intended ids" are stashed and applied "after       *)
(* FILE_LOADED", so that "playback only begins after track-switch reinits  *)
(* land".  Without the condition on overlapping loads it is not so: the    *)
(* worker may take the selection of a load whose file is not open yet.     *)
SelectionOutlivesOverlap ==
  LoadSettled /\ pl_file # NoLoad => SelectedAndPlaying
=============================================================================
