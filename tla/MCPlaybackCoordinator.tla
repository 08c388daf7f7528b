----------------------- MODULE MCPlaybackCoordinator -----------------------
(* The inputs that begin and end a session and those of the two buffering  *)
(* causes; one that carries an event of its own behind the state machine's.*)
(* Two producers: the mpv event thread and the page's thread.              *)
EXTENDS PlaybackCoordinator
CONSTANTS i1, evt, page
MCItems == {i1}
MCProducers == {evt, page}
MCScalarFields == {}
In(op, arg) == [op |-> op, arg |-> arg]
MCInputs == {In("LoadStarting", i1), In("FileLoaded", 0),
             In("EndFile", "Eof"), In("SeekingChanged", TRUE),
             In("PausedForCache", TRUE), In("CoreIdle", FALSE),
             In("Artwork", 0)}
=============================================================================
