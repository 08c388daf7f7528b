-------------------------- MODULE MCDesktopParts --------------------------
(***************************************************************************)
(* The parts that face the desktop, each of which is checked on its own:   *)
(* the window and what is drawn into it, and the media session.  They      *)
(* share nothing, so one run does for all: `part` says which of them a     *)
(* behaviour is about, and the others keep still.                          *)
(***************************************************************************)
EXTENDS WindowMode, WindowSync, ViewPaint, LayerActor, RootWindow, MediaSession, X11Overlay

VARIABLE part

(* What is chosen at the start is chosen for the part in question only; a  *)
(* window that boots maximized is told its scale at once.                  *)
Chosen ==
  /\ part # "paint" => vp_target = 1
  /\ part # "layer" => la_backend = "shm"
  /\ part # "root" => rw_scaling = "first" /\ ~rw_comp.max
  /\ rw_comp.max => rw_scaling = "first"
  /\ part # "session" => ms_api = "mpris"

PartsInit ==
  /\ part \in {"mode", "sync", "paint", "layer", "root", "session", "x11"}
  /\ ModeInit /\ SyncInit /\ PaintInit /\ ActorInit /\ RootInit
  /\ SessionInit /\ OverlayInit
  /\ Chosen

PartsNext ==
  \/ /\ part = "mode" /\ ModeNext
     /\ UNCHANGED <<part, wsvars, vpvars, lavars, rwvars, msvars, xovars>>
  \/ /\ part = "sync" /\ SyncNext
     /\ UNCHANGED <<part, wmvars, vpvars, lavars, rwvars, msvars, xovars>>
  \/ /\ part = "paint" /\ PaintNext
     /\ UNCHANGED <<part, wmvars, wsvars, lavars, rwvars, msvars, xovars>>
  \/ /\ part = "layer" /\ ActorNext
     /\ UNCHANGED <<part, wmvars, wsvars, vpvars, rwvars, msvars, xovars>>
  \/ /\ part = "root" /\ RootNext
     /\ UNCHANGED <<part, wmvars, wsvars, vpvars, lavars, msvars, xovars>>
  \/ /\ part = "session" /\ SessionNext
     /\ UNCHANGED <<part, wmvars, wsvars, vpvars, lavars, rwvars, xovars>>
  \/ /\ part = "x11" /\ OverlayNext
     /\ UNCHANGED <<part, wmvars, wsvars, vpvars, lavars, rwvars, msvars>>

partsvars == <<part, wmvars, wsvars, vpvars, lavars, rwvars, msvars, xovars>>
PartsSpec == PartsInit /\ [][PartsNext]_partsvars
=============================================================================
