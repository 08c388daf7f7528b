----------------------------- MODULE WebPlayer -----------------------------
(***************************************************************************)
(* The video player plugin of the page (web/mpv-video-player.js over       *)
(* web/mpv-player-base.js) and the signals it shares with the calls it     *)
(* makes (web/native-shim.js).                                             *)
(*                                                                         *)
(* The page is one thread: a function runs up to its next await.  Calls    *)
(* travel to the host and signals back, each in order, and cross on the    *)
(* way.  jellyfin-web, which asks for plays and stops, is external, and so *)
(* is the host, of which only the announcements of the transport state are *)
(* modelled (PlaybackStateMachine has the rest).                           *)
(*                                                                         *)
(* Plays are numbered; a play's number also stands for its source and for  *)
(* the one-shot listener its load leaves behind.                           *)
(***************************************************************************)
EXTENDS Naturals, Sequences, FiniteSets

CONSTANTS
  MaxPlays,   \* bound on the plays asked for
  MaxControls,\* bound on stops, pauses and resumes
  MayAbandon  \* whether a play may be stopped, or followed by the next one,
              \* before its file has begun

ASSUME WebPlayerAssumption ==
  MaxPlays \in Nat /\ MaxControls \in Nat /\ MayAbandon \in BOOLEAN

NoPlay == 0
Plays == 1 .. MaxPlays
Handler == 0       \* the listener the player itself connects
Listeners == {Handler} \union Plays

VARIABLES
  wp_player,    \* the fields of the player and of its dialog
  wp_current,   \* the play asked for last
  wp_stage,     \* how far each play() has come
  wp_playing,   \* the listeners of the signal `playing`, in order
  wp_error,     \* the listeners of the signal `error`, in order
  wp_calls,     \* calls on their way to the host
  wp_signals,   \* signals on their way to the page
  wp_host,      \* the host: the file it has and the transport phase
  wp_heard,     \* history: the file whose `playing` the page took last
  wp_controls   \* how many stops, pauses and resumes there were

wpvars == <<wp_player, wp_current, wp_stage, wp_playing, wp_error, wp_calls,
            wp_signals, wp_host, wp_heard, wp_controls>>

PlayStages == {"none", "zooming", "resolving", "loading", "resolved"}

WebInit ==
  /\ wp_player = [started |-> FALSE, ended |-> FALSE, src |-> NoPlay, paused |-> FALSE,
                  connected |-> FALSE, dialog |-> FALSE]
  /\ wp_current = NoPlay
  /\ wp_stage = [n \in Plays |-> "none"]
  /\ wp_playing = <<>> /\ wp_error = <<>>
  /\ wp_calls = <<>> /\ wp_signals = <<>>
  /\ wp_host = [file |-> NoPlay, phase |-> "Stopped"]
  /\ wp_heard = NoPlay /\ wp_controls = 0

Call(op, of) == [op |-> op, of |-> of]

(* The listeners that are not gone, in their order.                        *)
Without(listeners, gone) ==
  LET kept == {k \in DOMAIN listeners : listeners[k] \notin gone}
  IN  [n \in 1 .. Cardinality(kept) |->
         listeners[CHOOSE k \in kept : Cardinality({j \in kept : j <= k}) = n]]
-----------------------------------------------------------------------------
(* A signal is fired by walking along the array of its listeners.  A       *)
(* one-shot listener takes itself out of the array while it is walked: the *)
(* ones behind it move up, and the walk passes over the first of them.  So *)
(* in a run of one-shot listeners every other one is called, and a         *)
(* listener behind an odd number of them is passed over.                   *)

CalledAt(listeners) ==
  {k \in DOMAIN listeners :
     \E j \in 0 .. k - 1 :
       /\ j # 0 => listeners[j] = Handler
       /\ \A i \in j + 1 .. k - 1 : listeners[i] # Handler
       /\ (k - 1 - j) % 2 = 0}

(* A listener is in the array once: the player's since it is connected     *)
(* once, a play's since its load is.                                       *)
Fire(listeners) ==
  LET called == {listeners[k] : k \in CalledAt(listeners)}
  IN  [called |-> called, left |-> Without(listeners, called \ {Handler})]

(* The loads whose one-shot listener was called: their promise resolves.   *)
Resolve(called) ==
  wp_stage' = [n \in Plays |-> IF n \in called THEN "resolved" ELSE wp_stage[n]]

Connected(listeners) ==
  IF wp_player.connected THEN listeners ELSE Append(listeners, Handler)
-----------------------------------------------------------------------------
(* What jellyfin-web may ask for.                                          *)
PageMayAsk ==
  MayAbandon \/ \A n \in Plays : wp_stage[n] \notin {"zooming", "resolving", "loading"}

(* play(), up to its first await.  A new dialog that fills the screen      *)
(* zooms in first; an old one is used again.                               *)
Play(fullscreen) ==
  LET n == wp_current + 1
  IN  /\ n \in Plays /\ PageMayAsk
      /\ wp_current' = n
      /\ wp_stage' = [wp_stage EXCEPT ![n] =
                        IF fullscreen /\ ~wp_player.dialog THEN "zooming" ELSE "resolving"]
      /\ wp_player' = [wp_player EXCEPT !.started = FALSE, !.ended = FALSE,
                         !.dialog = TRUE, !.connected = @ \/ ~wp_player.dialog]
      /\ IF wp_player.dialog
         THEN UNCHANGED <<wp_playing, wp_error>>
         ELSE wp_playing' = Connected(wp_playing) /\ wp_error' = Connected(wp_error)
      /\ UNCHANGED <<wp_calls, wp_signals, wp_host, wp_heard, wp_controls>>

(* The animation of the dialog ends; it never does once the dialog is      *)
(* taken out of the document, and the play is lost.                        *)
ZoomedIn(n) ==
  /\ wp_stage[n] = "zooming" /\ wp_player.dialog
  /\ wp_stage' = [wp_stage EXCEPT ![n] = "resolving"]
  /\ UNCHANGED <<wp_player, wp_current, wp_playing, wp_error, wp_calls,
                 wp_signals, wp_host, wp_heard, wp_controls>>

(* The video mode is resolved, possibly over the network, and the file is  *)
(* loaded: one listener for `playing` and one for `error`.                 *)
SetCurrentSrc(n) ==
  /\ wp_stage[n] = "resolving"
  /\ wp_stage' = [wp_stage EXCEPT ![n] = "loading"]
  /\ wp_player' = [wp_player EXCEPT !.src = n]
  /\ wp_playing' = Append(wp_playing, n) /\ wp_error' = Append(wp_error, n)
  /\ wp_calls' = Append(wp_calls, Call("load", n))
  /\ UNCHANGED <<wp_current, wp_signals, wp_host, wp_heard, wp_controls>>

(* The handler of `finished`, which stop() calls too.                      *)
Ended(player) ==
  IF player.ended THEN player ELSE [player EXCEPT !.ended = TRUE, !.src = NoPlay]

DialogRemoved(player) == [player EXCEPT !.dialog = FALSE]

Control == wp_controls < MaxControls /\ PageMayAsk /\ wp_controls' = wp_controls + 1

(* Between episodes: the dialog and the listeners stay.                    *)
Stop ==
  /\ Control
  /\ wp_player' = Ended(wp_player)
  /\ wp_calls' = Append(wp_calls, Call("stop", NoPlay))
  /\ UNCHANGED <<wp_current, wp_stage, wp_playing, wp_error, wp_signals,
                 wp_host, wp_heard>>

(* For good: removeMediaDialog stops once more, the signals are released.  *)
StopAndDestroy ==
  /\ Control
  /\ wp_player' = [DialogRemoved(Ended(wp_player)) EXCEPT !.connected = FALSE]
  /\ wp_calls' = wp_calls \o <<Call("stop", NoPlay), Call("stop", NoPlay)>>
  /\ wp_playing' = Without(wp_playing, {Handler})
  /\ wp_error' = Without(wp_error, {Handler})
  /\ UNCHANGED <<wp_current, wp_stage, wp_signals, wp_host, wp_heard>>

Pause ==
  /\ Control
  /\ wp_calls' = Append(wp_calls, Call("pause", NoPlay))
  /\ UNCHANGED <<wp_player, wp_current, wp_stage, wp_playing, wp_error,
                 wp_signals, wp_host, wp_heard>>

Resume ==
  /\ Control
  /\ wp_player' = [wp_player EXCEPT !.paused = FALSE]
  /\ wp_calls' = Append(wp_calls, Call("play", NoPlay))
  /\ UNCHANGED <<wp_current, wp_stage, wp_playing, wp_error, wp_signals,
                 wp_host, wp_heard>>
-----------------------------------------------------------------------------
(* _nativeEmit *)

Take(kind) ==
  /\ wp_signals # <<>> /\ Head(wp_signals).op = kind
  /\ wp_signals' = Tail(wp_signals)

OnPlaying ==
  LET fired == Fire(wp_playing)
  IN  /\ Take("playing")
      /\ wp_playing' = fired.left
      /\ wp_error' = Without(wp_error, fired.called \ {Handler})
      /\ Resolve(fired.called)
      /\ wp_player' = IF Handler \notin fired.called THEN wp_player
                      ELSE [wp_player EXCEPT !.paused = FALSE, !.started = TRUE]
      /\ wp_heard' = Head(wp_signals).of
      /\ UNCHANGED <<wp_current, wp_calls, wp_host, wp_controls>>

OnError_KeepsListening ==
  LET fired == Fire(wp_error)
  IN  /\ Take("error")
      /\ wp_error' = fired.left
      /\ wp_playing' = wp_playing
      /\ Resolve(fired.called)
      /\ wp_player' = IF Handler \in fired.called THEN DialogRemoved(wp_player) ELSE wp_player
      /\ wp_calls' = IF Handler \in fired.called
                     THEN Append(wp_calls, Call("stop", NoPlay)) ELSE wp_calls
      /\ UNCHANGED <<wp_current, wp_host, wp_heard, wp_controls>>

OnError ==
  LET fired == Fire(wp_error)
  IN  /\ Take("error")
      /\ wp_error' = fired.left
      /\ wp_playing' = Without(wp_playing, fired.called \ {Handler})
      /\ Resolve(fired.called)
      /\ wp_player' = IF Handler \in fired.called THEN DialogRemoved(wp_player) ELSE wp_player
      /\ wp_calls' = IF Handler \in fired.called
                     THEN Append(wp_calls, Call("stop", NoPlay)) ELSE wp_calls
      /\ UNCHANGED <<wp_current, wp_host, wp_heard, wp_controls>>

(* Nothing listens to `canceled`.                                          *)
OnOther ==
  /\ \/ Take("finished") /\ wp_player' = IF wp_player.connected THEN Ended(wp_player)
                                         ELSE wp_player
     \/ Take("paused") /\ wp_player' = [wp_player EXCEPT !.paused = @ \/ wp_player.connected]
     \/ Take("canceled") /\ UNCHANGED wp_player
  /\ UNCHANGED <<wp_current, wp_stage, wp_playing, wp_error, wp_calls, wp_host,
                 wp_heard, wp_controls>>
-----------------------------------------------------------------------------
(* The host *)

HostBecomes(file, phase, signals) ==
  /\ wp_host' = [file |-> file, phase |-> phase]
  /\ wp_signals' = wp_signals \o signals
  /\ UNCHANGED <<wp_player, wp_current, wp_stage, wp_playing, wp_error, wp_heard,
                 wp_controls>>

Announce(kind) == <<Call(kind, wp_host.file)>>
HasFile == wp_host.phase # "Stopped"

(* A load of the item the host has already is announced as a pause.        *)
HostTakes ==
  /\ wp_calls # <<>>
  /\ wp_calls' = Tail(wp_calls)
  /\ LET call == Head(wp_calls)
     IN  \/ /\ call.op = "load"
            /\ \/ HostBecomes(call.of, "Starting", <<>>)
               \/ HasFile /\ HostBecomes(call.of, "Starting", <<Call("paused", call.of)>>)
         \/ /\ call.op = "stop"
            /\ HostBecomes(wp_host.file, "Stopped", IF HasFile THEN Announce("canceled") ELSE <<>>)
         \/ /\ call.op = "pause"
            /\ IF wp_host.phase \in {"Starting", "Playing"}
               THEN HostBecomes(wp_host.file, "Paused", Announce("paused"))
               ELSE HostBecomes(wp_host.file, wp_host.phase, <<>>)
         \/ /\ call.op = "play"
            /\ IF wp_host.phase = "Paused"
               THEN HostBecomes(wp_host.file, "Playing", Announce("playing"))
               ELSE HostBecomes(wp_host.file, wp_host.phase, <<>>)

HostStarts ==
  /\ wp_host.phase = "Starting"
  /\ HostBecomes(wp_host.file, "Playing", Announce("playing"))
  /\ UNCHANGED wp_calls

HostEnds ==
  /\ HasFile
  /\ \E kind \in {"finished", "error"} : HostBecomes(wp_host.file, "Stopped", Announce(kind))
  /\ UNCHANGED wp_calls

WebNext ==
  \/ \E fullscreen \in BOOLEAN : Play(fullscreen)
  \/ \E n \in Plays : ZoomedIn(n) \/ SetCurrentSrc(n)
  \/ Stop \/ StopAndDestroy \/ Pause \/ Resume
  \/ OnPlaying \/ OnError \/ OnOther
  \/ HostTakes \/ HostStarts \/ HostEnds

WebSpec == WebInit /\ [][WebNext]_wpvars
-----------------------------------------------------------------------------
WebTypeOK ==
  /\ wp_player.src \in {NoPlay} \union Plays
  /\ wp_current \in {NoPlay} \union Plays
  /\ wp_stage \in [Plays -> PlayStages]
  /\ wp_playing \in Seq(Listeners) /\ wp_error \in Seq(Listeners)
  /\ wp_host.phase \in {"Stopped", "Starting", "Playing", "Paused"}
  /\ wp_controls \in 0..MaxControls

(* "the first frame hides the spinner, drops the poster and reports        *)
(* playing" (mpv-video-player.test.js:301): once the page has taken the    *)
(* `playing` of the file it shows, the player has acted upon it, whatever  *)
(* became of the loads before.                                             *)
FirstFrameReported ==
  wp_player.connected /\ wp_player.src # NoPlay
    /\ wp_player.src = wp_current /\ wp_heard = wp_current
  => wp_player.started

(* "the load callback waits for mpv to report the file is playing"         *)
(* (native-shim.test.js:235): a play resolves on account of its own file.  *)
ResolvedByItsFile ==
  [][\A n \in Plays : wp_stage[n] = "loading" /\ wp_stage'[n] = "resolved"
       => Head(wp_signals).of = n]_wpvars

(* Once stopped for good, nothing starts until the next play.              *)
StoppedStaysStopped ==
  [][\A n \in Plays : wp_stage[n] = "resolving" /\ wp_stage'[n] = "loading"
       => wp_player.connected]_wpvars

(* "the end of a file is reported exactly once" (mpv-video-player.test.js  *)
(* line 342): the end that is reported is that of the file that ended.     *)
EndIsOfThisFile ==
  [][wp_signals # <<>> /\ wp_signals' = Tail(wp_signals) /\ Head(wp_signals).op = "finished"
       /\ wp_player'.src # wp_player.src => wp_player.src = Head(wp_signals).of]_wpvars
=============================================================================
