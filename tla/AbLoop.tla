------------------------------- MODULE AbLoop -------------------------------
(***************************************************************************)
(* The A-B repeat loop.  mpv owns the two points; the page asks for a step *)
(* ("set-a", "set-b", "clear"), the native side turns the step into mpv    *)
(* commands off the pair it last observed (src/src/playback/src/           *)
(* ab_loop.rs), and what the page draws is what mpv reports back           *)
(* (src/src/web/ab-loop.js).                                               *)
(*                                                                         *)
(* Four parties, each with a queue in front of it: the page (`pushes`),    *)
(* the CEF UI thread (`ipc`), the mpv core (`cmds`) and the ingest thread  *)
(* (`reports`).  A point is written as the file it was stamped in.         *)
(***************************************************************************)
EXTENDS Naturals, Sequences, FiniteSets

CONSTANTS
  No,           \* an unset point, mpv's "no"
  MaxFile,      \* bound on the files loaded
  MaxIpc,       \* bound on messages the page has in flight
  MaxCmds,      \* bound on commands mpv has not executed
  MaxLag        \* bound on reports, and on pushes, under way

ASSUME MaxFileAssumption == MaxFile \in Nat
ASSUME NoAssumption == No \notin 0 .. MaxFile

Ends == {"a", "b"}
Points == (0 .. MaxFile) \union {No}
Pairs == [Ends -> Points]
Unset == [e \in Ends |-> No]
Messages == {"set-a", "set-b", "clear", "load", "refused-load", "stop"}
Cmd(op, asked) == [op |-> op, asked |-> asked]

VARIABLES
  ui,           \* the pair ab-loop.js draws
  viewing,      \* the page is between playbackstart and playbackstop
  ipc,          \* messages from the page to the CEF UI thread
  cmds,         \* commands queued in libmpv, in order
  loop,         \* mpv's ab-loop-a and ab-loop-b
  file,         \* the file mpv has loaded last
  told,         \* per property, the value of mpv's last notification
  reports,      \* notifications on their way to the ingest thread
  observed,     \* Inner.a and Inner.b
  pushed,       \* Inner.pushed
  pushes        \* pairs on their way to the page

core == <<loop, file, told>>
native == <<observed, pushed>>
abvars == <<ui, viewing, ipc, cmds, core, reports, native, pushes>>

ABInit ==
  /\ ui = Unset /\ viewing = FALSE /\ ipc = <<>>
  /\ cmds = <<>>
  /\ loop = Unset /\ file = 0 /\ told = Unset
  /\ reports = <<>>
  /\ observed = Unset /\ pushed = Unset
  /\ pushes = <<>>
-----------------------------------------------------------------------------
(* The page *)

LoadsAhead == Cardinality({n \in DOMAIN ipc : ipc[n] = "load"})
              + Cardinality({n \in DOMAIN cmds : cmds[n].op = "loadfile"})

(* `setA` is offered while A is unset, `setB` while it is set, and a clear *)
(* while there is something to clear.                                      *)
MayAsk(msg) ==
  CASE msg = "set-a" -> viewing /\ ui["a"] = No
    [] msg = "set-b" -> viewing /\ ui["a"] # No
    [] msg = "clear" -> viewing /\ ui # Unset
    [] msg = "load"  -> file + LoadsAhead < MaxFile
    [] OTHER -> TRUE

PageAsks(msg) ==
  /\ Len(ipc) < MaxIpc
  /\ MayAsk(msg)
  /\ ipc' = Append(ipc, msg)
  /\ viewing' = (viewing \/ msg = "load")
  /\ UNCHANGED <<ui, cmds, core, reports, native, pushes>>

(* `handleStop`: playbackstop, which an end of file fires with no message. *)
PageStops ==
  /\ viewing
  /\ viewing' = FALSE
  /\ ui' = Unset
  /\ UNCHANGED <<ipc, cmds, core, reports, native, pushes>>

(* `applyPush` *)
PageDraws ==
  /\ pushes # <<>>
  /\ ui' = Head(pushes)
  /\ pushes' = Tail(pushes)
  /\ UNCHANGED <<viewing, ipc, cmds, core, reports, native>>
-----------------------------------------------------------------------------
(* The CEF UI thread *)

CommandFor(action) ==
  CASE action = "set-a" /\ observed = Unset -> "Cycle"
    [] action = "set-b" /\ observed["a"] # No /\ observed["b"] = No -> "Cycle"
    [] action = "clear" -> "ClearBoth"
    [] OTHER -> "Ignore"

(* `jfn_mpv_clear_ab_loop`: two writes, a before b. *)
ClearPair == <<Cmd("unset", "a"), Cmd("unset", "b")>>

Asked(action) == IF action = "set-a" THEN "a" ELSE "b"

Run(action) ==
  LET c == CommandFor(action)
  IN cmds' = cmds \o CASE c = "Cycle" -> <<Cmd("cycle", Asked(action))>>
                       [] c = "ClearBoth" -> ClearPair
                       [] c = "Ignore" -> <<>>

LoadCommands_ClearAfter(allowed) ==
  IF allowed THEN <<Cmd("loadfile", "a")>> \o ClearPair ELSE <<>>

(* `handle_player_load`: the points are dropped, then the URLs are gated. *)
LoadCommands(allowed) ==
  ClearPair \o IF allowed THEN <<Cmd("loadfile", "a")>> ELSE <<>>

HandleMessage ==
  /\ ipc # <<>> /\ Len(cmds) < MaxCmds
  /\ ipc' = Tail(ipc)
  /\ CASE Head(ipc) \in {"set-a", "set-b", "clear"} -> Run(Head(ipc))
       [] Head(ipc) = "load" -> cmds' = cmds \o LoadCommands(TRUE)
       [] Head(ipc) = "refused-load" -> cmds' = cmds \o LoadCommands(FALSE)
       [] Head(ipc) = "stop" -> cmds' = cmds \o ClearPair
  /\ UNCHANGED <<ui, viewing, core, reports, native, pushes>>
-----------------------------------------------------------------------------
(* mpv *)

(* `ab-loop` stamps the next unset end, or unsets both. *)
NextEnd == IF loop["a"] = No THEN "a" ELSE IF loop["b"] = No THEN "b" ELSE "none"
Cycled == IF NextEnd = "none" THEN Unset ELSE [loop EXCEPT ![NextEnd] = file]

Execute ==
  /\ cmds # <<>>
  /\ LET c == Head(cmds)
     IN CASE c.op = "cycle"    -> loop' = Cycled /\ UNCHANGED file
          [] c.op = "unset"    -> loop' = [loop EXCEPT ![c.asked] = No]
                                  /\ UNCHANGED file
          [] c.op = "loadfile" -> file' = file + 1 /\ UNCHANGED loop
  /\ cmds' = Tail(cmds)
  /\ UNCHANGED <<ui, viewing, ipc, told, reports, native, pushes>>

(* Notifications coalesce: one carries the value of the moment. *)
Notify(e) ==
  /\ loop[e] # told[e] /\ Len(reports) < MaxLag
  /\ told' = [told EXCEPT ![e] = loop[e]]
  /\ reports' = Append(reports, [end |-> e, point |-> loop[e]])
  /\ UNCHANGED <<ui, viewing, ipc, cmds, loop, file, native, pushes>>
-----------------------------------------------------------------------------
(* `on_property`, on the ingest thread *)

Fold(r) == [observed EXCEPT ![r.end] = r.point]

OnProperty_Unlatched ==
  /\ reports # <<>> /\ Len(pushes) < MaxLag
  /\ LET points == Fold(Head(reports))
     IN /\ observed' = points
        /\ UNCHANGED pushed
        /\ pushes' = IF points = pushed THEN pushes ELSE Append(pushes, points)
  /\ reports' = Tail(reports)
  /\ UNCHANGED <<ui, viewing, ipc, cmds, core>>

OnProperty ==
  /\ reports # <<>> /\ Len(pushes) < MaxLag
  /\ LET points == Fold(Head(reports))
     IN /\ observed' = points
        /\ pushed' = points
        /\ pushes' = IF points = pushed THEN pushes ELSE Append(pushes, points)
  /\ reports' = Tail(reports)
  /\ UNCHANGED <<ui, viewing, ipc, cmds, core>>

ABNext == \/ \E msg \in Messages : PageAsks(msg)
        \/ PageStops \/ PageDraws
        \/ HandleMessage
        \/ Execute \/ \E e \in Ends : Notify(e)
        \/ OnProperty

ABSpec == ABInit /\ [][ABNext]_abvars
-----------------------------------------------------------------------------
CmdType == [op : {"cycle", "unset", "loadfile"}, asked : Ends]

ABTypeOK ==
  /\ ui \in Pairs /\ viewing \in BOOLEAN
  /\ ipc \in Seq(Messages) /\ cmds \in Seq(CmdType)
  /\ loop \in Pairs /\ file \in 0 .. MaxFile /\ told \in Pairs
  /\ reports \in Seq([end : Ends, point : Points])
  /\ observed \in Pairs /\ pushed \in Pairs
  /\ pushes \in Seq(Pairs)

(* A loop set on one file never applies to the next, whatever steps the    *)
(* page still had in flight when it asked for the load.                    *)
LoopIsOfThisFile == \A e \in Ends : loop[e] \in {No, file}

Settled == ipc = <<>> /\ cmds = <<>> /\ told = loop
           /\ reports = <<>> /\ pushes = <<>>

(* When nothing is in flight the page of a playing item draws the pair mpv *)
(* loops over, although notifications coalesce, equal pairs are not pushed *)
(* again and the page forgets its pair by itself at playbackstop.          *)
UiAgreesWhenSettled == Settled /\ viewing => ui = loop

(* ab_loop.rs:97-100: the check against the observed pair is there so that *)
(* a stale UI "cannot turn "set A" into "set B"".                          *)
StaleCannotShift ==
  cmds # <<>> /\ Head(cmds).op = "cycle" => NextEnd = Head(cmds).asked

(* business_web.rs:283: "Gate before any side effect".                     *)
RefusedLoadHasNoEffect ==
  [][HandleMessage /\ Head(ipc) = "refused-load" => UNCHANGED cmds]_abvars
=============================================================================
