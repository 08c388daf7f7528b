-------------------------- MODULE MCPlaybackParts --------------------------
(***************************************************************************)
(* The parts around playback, each of which is checked on its own.  They   *)
(* share nothing, so one run does for all: `part` says which of them a     *)
(* behaviour is about, and the others keep still.                          *)
(***************************************************************************)
EXTENDS PlayerLoad, SinkLocks, ThemeColor, Stats, AbLoop, VideoMode, PlaybackSinks, WebPlayer

CONSTANT evt

(* One producer is enough: what matters here is how inputs fall into       *)
(* batches.  The transport inputs with fullscreen changes between them.    *)
In(op, arg) == [op |-> op, arg |-> arg]
MCProducers == {evt}
TransportInputs ==
  {In("LoadStarting", i) : i \in Items} \union
  {In("FileLoaded", 0), In("PauseChanged", FALSE), In("PauseChanged", TRUE),
   In("EndFile", "Eof"), In("EndFile", "Error"),
   In("MediaType", "Audio"), In("MediaType", "Video"),
   In("VideoFrameAvailable", TRUE),
   In("Fullscreen", <<TRUE, TRUE>>), In("Fullscreen", <<FALSE, FALSE>>),
   In("Seeked", 0), In("Scalar", <<"rate", 0>>)}
(* And the inputs of a load that tells its position.                       *)
PositionInputs ==
  {In("LoadStarting", i) : i \in Items} \union
  {In("FileLoaded", 0), In("EndFile", "Eof"), In("Position", 0), In("Position", 1)}

VARIABLE part

PartsInit ==
  /\ part \in {"sinks", "load", "locks", "theme", "stats", "loop", "mode", "web"}
  /\ SInit /\ LoadInit /\ LocksInit /\ ThemeInit /\ StatsInit /\ ABInit /\ VMInit
  /\ WebInit

PartsNext ==
  \/ /\ part = "sinks" /\ SNext
     /\ UNCHANGED <<part, plvars, skvars, tcvars, stvars, abvars, vmvars, wpvars>>
  \/ /\ part = "load" /\ LoadNext
     /\ UNCHANGED <<part, svars, skvars, tcvars, stvars, abvars, vmvars, wpvars>>
  \/ /\ part = "locks" /\ LocksNext
     /\ UNCHANGED <<part, svars, plvars, tcvars, stvars, abvars, vmvars, wpvars>>
  \/ /\ part = "theme" /\ ThemeNext
     /\ UNCHANGED <<part, svars, plvars, skvars, stvars, abvars, vmvars, wpvars>>
  \/ /\ part = "stats" /\ StatsNext
     /\ UNCHANGED <<part, svars, plvars, skvars, tcvars, abvars, vmvars, wpvars>>
  \/ /\ part = "loop" /\ ABNext
     /\ UNCHANGED <<part, svars, plvars, skvars, tcvars, stvars, vmvars, wpvars>>
  \/ /\ part = "mode" /\ VMNext
     /\ UNCHANGED <<part, svars, plvars, skvars, tcvars, stvars, abvars, wpvars>>
  \/ /\ part = "web" /\ WebNext
     /\ UNCHANGED <<part, svars, plvars, skvars, tcvars, stvars, abvars, vmvars>>

partsvars == <<part, svars, plvars, skvars, tcvars, stvars, abvars, vmvars, wpvars>>
PartsSpec == PartsInit /\ [][PartsNext]_partsvars
=============================================================================
