------------------------ MODULE PlaybackPartsProofs ------------------------
(***************************************************************************)
(* The parts around playback that share nothing, each with its inductive   *)
(* invariant, for any number of loads, batches, colours and values.        *)
(*                                                                         *)
(* A load (PlayerLoad): as long as none begins before the one ahead of it  *)
(* has been acted upon, it is a sequence of stages, each with one thing in *)
(* flight, and it ends with the file playing with its tracks.              *)
(*                                                                         *)
(* Locks (SinkLocks): no circle of threads waits for locks or for the      *)
(* worker's end.  The argument is an order on the threads: the worker      *)
(* waits for nobody, since nobody else keeps the sinks or the media lock;  *)
(* whoever has the slot waits for the worker at most; and the others wait  *)
(* for one of these two.                                                   *)
(*                                                                         *)
(* Statistics (Stats): a value is reported, in the ingest thread's hands   *)
(* or in the record, and a clean record is what the page shows.            *)
(*                                                                         *)
(* Theme colour (ThemeColor): a playback is either over or under way at    *)
(* one of a few places, and the place tells what is still to be announced. *)
(*                                                                         *)
(* The A-B loop (AbLoop) and the video modes (VideoMode), for any bounds   *)
(* on files and queues: a loop never outlives the file its points were set *)
(* in, the page draws the loop mpv runs, and mpv runs the mode last        *)
(* applied.                                                                *)
(*                                                                         *)
(* The player of the page (WebPlayer): it hears every signal ahead of the  *)
(* one load that may be under way, so no listener makes it miss one.       *)
(***************************************************************************)
EXTENDS PlayerLoad, SinkLocks, ThemeColor, Stats, AbLoop, VideoMode, WebPlayer,
        FiniteSetTheorems, SequenceTheorems, TLAPS

LoadTyped ==
  /\ pl_last \in Nat /\ pl_events \in Nat /\ pl_actions \in Nat
  /\ pl_paused \in BOOLEAN /\ pl_overlap \in BOOLEAN
  /\ pl_pending \in [of : Nat, valid : BOOLEAN]
  /\ pl_opening \in Nat /\ pl_file \in Nat /\ pl_tracks \in Nat /\ pl_held \in Nat

Loadfile == <<Command("loadfile", pl_last)>>
Unpause == <<Command("unpause", pl_last)>>
SelectAndUnpause == <<Command("select", pl_last), Command("unpause", pl_last)>>

(* What is in flight, of one load at a time: nothing else is. *)
InFlight(commands, opening, events, actions, held) ==
  /\ pl_commands = commands /\ pl_opening = opening
  /\ pl_events = events /\ pl_actions = actions /\ pl_held = held

Nothing == InFlight(<<>>, NoLoad, 0, 0, NoLoad)
Stashed == pl_pending = [of |-> pl_last, valid |-> TRUE] /\ pl_last # NoLoad
(* The file of this load is open and waits, paused, for its selection.     *)
Waits == pl_file = pl_last /\ pl_last # NoLoad /\ pl_paused

Playing == pl_file # NoLoad => SelectedAndPlaying

Stage ==
  \/ pl_ui = "idle" /\ Nothing /\ Playing
  \/ pl_ui = "stashed" /\ Nothing /\ Playing /\ Stashed
  \/ pl_ui = "idle" /\ InFlight(Loadfile, NoLoad, 0, 0, NoLoad) /\ Playing /\ Stashed
  \/ /\ pl_ui = "idle" /\ InFlight(<<>>, pl_last, 0, 0, NoLoad) /\ Stashed
     /\ pl_file = NoLoad /\ pl_paused
  \/ pl_ui = "idle" /\ InFlight(<<>>, NoLoad, 1, 0, NoLoad) /\ Waits /\ Stashed
  \/ pl_ui = "idle" /\ InFlight(<<>>, NoLoad, 0, 1, NoLoad) /\ Waits /\ Stashed
  \/ pl_ui = "idle" /\ InFlight(<<>>, NoLoad, 0, 0, pl_last) /\ Waits
  \/ pl_ui = "idle" /\ InFlight(SelectAndUnpause, NoLoad, 0, 0, NoLoad) /\ Waits
  \/ /\ pl_ui = "idle" /\ InFlight(Unpause, NoLoad, 0, 0, NoLoad) /\ Waits
     /\ pl_tracks = pl_last

LoadInv == ~pl_overlap => LoadTyped /\ Stage
-----------------------------------------------------------------------------
LEMMA LoadInitInv == LoadInit => LoadInv
<1> SUFFICES ASSUME LoadInit PROVE LoadTyped /\ Stage
  BY DEF LoadInv
<1>1. LoadTyped
  BY DEF LoadInit, LoadTyped, NoLoad
<1>2. Nothing /\ Playing /\ pl_ui = "idle"
  BY DEF LoadInit, Nothing, InFlight, Playing, NoLoad
<1> QED BY <1>1, <1>2 DEF Stage

(* The queue of a stage holds one command or two. *)
LEMMA CommandsQueued ==
  ASSUME NEW a, NEW b
  PROVE  /\ Append(<<>>, a) = <<a>> /\ <<>> \o <<a, b>> = <<a, b>>
         /\ Head(<<a>>) = a /\ Tail(<<a>>) = <<>> /\ <<a>> # <<>>
         /\ Head(<<a, b>>) = a /\ Tail(<<a, b>>) = <<b>> /\ <<a, b>> # <<>>
OBVIOUS

LEMMA Commands ==
  /\ Append(<<>>, Command("loadfile", pl_last)) = Loadfile
  /\ <<>> \o SelectAndUnpause = SelectAndUnpause
  /\ Loadfile # <<>> /\ Tail(Loadfile) = <<>>
  /\ Head(Loadfile).op = "loadfile" /\ Head(Loadfile).of = pl_last
  /\ SelectAndUnpause # <<>> /\ Tail(SelectAndUnpause) = Unpause
  /\ Head(SelectAndUnpause).op = "select" /\ Head(SelectAndUnpause).of = pl_last
  /\ Unpause # <<>> /\ Tail(Unpause) = <<>> /\ Head(Unpause).op = "unpause"
BY CommandsQueued DEF Loadfile, Unpause, SelectAndUnpause, Command

LEMMA StageStep ==
  ASSUME LoadTyped, Stage, ~pl_overlap', [LoadNext]_plvars
  PROVE  Stage'
<1> USE DEF LoadTyped, Stage, InFlight, Nothing, Stashed, Waits, Playing, SelectedAndPlaying,
            NoLoad, pl_mpv, pl_worker
<1>1. CASE StashSelection
  <2>1. ~LoadUnderway
    BY <1>1 DEF StashSelection
  <2>2. pl_ui = "idle" /\ Nothing /\ Playing
    BY <2>1, <1>1, Commands DEF LoadUnderway, StashSelection
  <2>3. Nothing' /\ Playing'
    BY <1>1, <2>2 DEF StashSelection
  <2>4. Stashed' /\ pl_ui' = "stashed"
    BY <1>1 DEF StashSelection
  <2> QED BY <2>3, <2>4 DEF Stage
<1>2. CASE SendLoadfile
  BY <1>2, Commands DEF SendLoadfile, Loadfile, Command
<1>3. CASE ExecLoadfile
  BY <1>3, Commands DEF ExecLoadfile
<1>4. CASE ExecSelect
  BY <1>4, Commands DEF ExecSelect, Unpause, Command
<1>5. CASE ExecUnpause
  BY <1>5, Commands DEF ExecUnpause
<1>6. CASE FileOpened
  BY <1>6 DEF FileOpened
<1>7. CASE OpenFailed
  BY <1>7 DEF OpenFailed
<1>8. CASE TakeFileLoaded
  BY <1>8 DEF TakeFileLoaded
<1>9. CASE TakeSelection
  BY <1>9 DEF TakeSelection
<1>10. CASE WriteSelection
  BY <1>10, Commands DEF WriteSelection, SelectAndUnpause, Command
<1>11. CASE UNCHANGED plvars
  BY <1>11 DEF plvars, Loadfile, Unpause, SelectAndUnpause, Command
<1> QED BY <1>1, <1>2, <1>3, <1>4, <1>5, <1>6, <1>7, <1>8, <1>9, <1>10, <1>11 DEF LoadNext

(* The history variable is never taken back.                               *)
LEMMA OverlapStays ==
  ASSUME [LoadNext]_plvars, ~pl_overlap'
  PROVE  ~pl_overlap
BY DEF LoadNext, plvars, StashSelection, SendLoadfile, ExecLoadfile, ExecSelect,
       ExecUnpause, FileOpened, OpenFailed, TakeFileLoaded, TakeSelection, WriteSelection

LEMMA LoadTypedStep ==
  ASSUME LoadTyped, Stage, ~pl_overlap', [LoadNext]_plvars
  PROVE  LoadTyped'
<1> USE DEF LoadTyped, NoLoad, pl_mpv, pl_worker
<1>1. CASE StashSelection
  BY <1>1 DEF StashSelection
<1>2. CASE SendLoadfile
  BY <1>2 DEF SendLoadfile
<1>3. CASE ExecLoadfile
  <2>1. Head(pl_commands).of = pl_last
    BY <1>3, Commands DEF ExecLoadfile, Stage, InFlight, Nothing
  <2> QED BY <2>1, <1>3 DEF ExecLoadfile
<1>4. CASE ExecSelect
  <2>1. Head(pl_commands).of = pl_last
    BY <1>4, Commands DEF ExecSelect, Stage, InFlight, Nothing
  <2> QED BY <2>1, <1>4 DEF ExecSelect
<1>5. CASE ExecUnpause
  BY <1>5 DEF ExecUnpause
<1>6. CASE FileOpened
  BY <1>6 DEF FileOpened
<1>7. CASE OpenFailed
  BY <1>7 DEF OpenFailed
<1>8. CASE TakeFileLoaded
  BY <1>8 DEF TakeFileLoaded
<1>9. CASE TakeSelection
  <2>1. [pl_pending EXCEPT !.valid = FALSE] \in [of : Nat, valid : BOOLEAN]
    OBVIOUS
  <2>2. pl_pending' \in [of : Nat, valid : BOOLEAN] /\ pl_held' \in Nat
    BY <2>1, <1>9 DEF TakeSelection
  <2> QED BY <2>2, <1>9 DEF TakeSelection
<1>10. CASE WriteSelection
  BY <1>10 DEF WriteSelection
<1>11. CASE UNCHANGED plvars
  BY <1>11 DEF plvars
<1> QED BY <1>1, <1>2, <1>3, <1>4, <1>5, <1>6, <1>7, <1>8, <1>9, <1>10, <1>11 DEF LoadNext

LEMMA LoadInvPlays == LoadInv => PlaysWithItsTracks
<1> SUFFICES ASSUME LoadTyped, Stage, pl_file # NoLoad
             PROVE  /\ LoadSettled => SelectedAndPlaying
                    /\ ~pl_paused => pl_tracks = pl_file
  BY DEF LoadInv, PlaysWithItsTracks
<1> USE DEF LoadTyped, Stage, InFlight, Nothing, Waits, Playing, SelectedAndPlaying, NoLoad
<1>1. LoadSettled => SelectedAndPlaying
  BY Commands DEF LoadSettled, LoadUnderway
<1>2. ~pl_paused => pl_tracks = pl_file
  OBVIOUS
<1> QED BY <1>1, <1>2

(* handle_player_load, mpv and the worker: while loads do not overlap, the *)
(* file that was opened ends up playing with the tracks chosen for it, and *)
(* is never unpaused without them, however many loads there are.           *)
THEOREM LoadsPlay == LoadSpec => []PlaysWithItsTracks
<1>1. LoadInv /\ [LoadNext]_plvars => LoadInv'
  BY OverlapStays, LoadTypedStep, StageStep DEF LoadInv
<1> QED BY LoadInitInv, <1>1, LoadInvPlays, PTL DEF LoadSpec
-----------------------------------------------------------------------------
(* Where each thread can be. *)
Places ==
  /\ sk_pc \in [Threads -> {"recv", "sink", "builtin", "exited", "start", "register",
                            "add", "running", "stopped", "clone", "stop", "join", "done"}]
  /\ sk_pc["worker"] \in {"recv", "sink", "builtin", "exited"}
  /\ sk_pc["session"] \in {"start", "register", "add", "running", "stopped"}
  /\ sk_pc["poster"] \in {"start", "clone"}
  /\ sk_pc["main"] \in {"start", "stop", "join", "done"}

(* Who has a lock can be told from where it is.  The media lock is never   *)
(* kept over a step.                                                       *)
Owners ==
  /\ sk_owner \in [Locks -> Threads \union {Nobody}]
  /\ sk_owner["media"] = Nobody
  /\ sk_owner["sinks"] =
       IF sk_pc["worker"] \in {"sink", "builtin"} THEN "worker" ELSE Nobody
  /\ sk_owner["slot"] \in {"session", "poster", Nobody}
  /\ sk_owner["slot"] = "session" <=> sk_pc["session"] = "add"
  /\ sk_owner["slot"] = "poster" <=> sk_pc["poster"] = "clone"

LocksInv == Places /\ Owners
-----------------------------------------------------------------------------
LEMMA LocksInitInv == LocksInit => LocksInv
BY DEF LocksInit, LocksInv, Places, Owners, Threads, Locks, Nobody

LEMMA LocksInvStep == LocksInv /\ [LocksNext]_skvars => LocksInv'
<1> SUFFICES ASSUME LocksInv, [LocksNext]_skvars PROVE LocksInv'
  OBVIOUS
<1> USE DEF LocksInv, Places, Owners, Threads, Locks, Nobody, At, Goto, Free, Hold, Release
<1>1. CASE WorkerDispatch
  BY <1>1 DEF WorkerDispatch
<1>2. CASE WorkerCallsSink
  BY <1>2 DEF WorkerCallsSink
<1>3. CASE WorkerDone
  BY <1>3 DEF WorkerDone
<1>4. CASE WorkerExits
  BY <1>4 DEF WorkerExits
<1>5. CASE InstallProducer
  BY <1>5 DEF InstallProducer
<1>6. CASE RegisterLocksSlot
  BY <1>6 DEF RegisterLocksSlot
<1>7. CASE AddSink
  BY <1>7 DEF AddSink
<1>8. CASE StopSession
  BY <1>8 DEF StopSession
<1>9. CASE PostLocksSlot
  BY <1>9 DEF PostLocksSlot
<1>10. CASE PostReleasesSlot
  BY <1>10 DEF PostReleasesSlot
<1>11. CASE TakeCoordinator
  BY <1>11 DEF TakeCoordinator
<1>12. CASE CloseSender
  BY <1>12 DEF CloseSender
<1>13. CASE JoinWorker
  BY <1>13 DEF JoinWorker
<1>14. CASE UNCHANGED skvars
  BY <1>14 DEF skvars
<1> QED
  BY <1>1, <1>2, <1>3, <1>4, <1>5, <1>6, <1>7, <1>8, <1>9, <1>10, <1>11, <1>12,
     <1>13, <1>14 DEF LocksNext, LockWorkerStep, SessionStep, PosterStep, MainStep
-----------------------------------------------------------------------------
(* The worker waits for nobody. *)
LEMMA WorkerIsFree == LocksInv => WaitsFor("worker") = {}
<1> SUFFICES ASSUME LocksInv PROVE WaitsFor("worker") = {}
  OBVIOUS
<1>1. \A l \in Wants("worker") : sk_owner[l] = Nobody
  BY DEF LocksInv, Places, Owners, Wants, At, Locks, Nobody
<1> QED BY <1>1 DEF WaitsFor

(* Whoever has the slot waits for the worker at most. *)
LEMMA SlotOwnerIsNext ==
  ASSUME LocksInv, sk_owner["slot"] # Nobody
  PROVE  WaitsFor(sk_owner["slot"]) \subseteq {"worker"}
<1>1. CASE sk_owner["slot"] = "session"
  <2>1. Wants("session") \subseteq {"sinks"}
    BY <1>1 DEF LocksInv, Places, Owners, Wants, At, Locks
  <2> QED BY <1>1, <2>1 DEF LocksInv, Owners, WaitsFor, Nobody
<1>2. CASE sk_owner["slot"] = "poster"
  <2>1. Wants("poster") = {}
    BY <1>2 DEF LocksInv, Places, Owners, Wants, At, Locks
  <2> QED BY <1>2, <2>1 DEF WaitsFor
<1> QED BY <1>1, <1>2 DEF LocksInv, Owners

(* Everybody waits for one of these two. *)
LEMMA WaitsForThese ==
  ASSUME LocksInv, NEW t \in Threads
  PROVE  WaitsFor(t) \subseteq {"worker", sk_owner["slot"]} \ {Nobody}
BY DEF LocksInv, Owners, WaitsFor, Wants, Locks, Nobody

(* No thread is stuck in a circle of locks and joins between playback's    *)
(* worker, the media session, a poster and the shutdown.                   *)
THEOREM LocksAreOrdered == LocksSpec => []NoCircularWait
<1>1. LocksInv => NoCircularWait
  <2> SUFFICES ASSUME LocksInv, NEW T \in SUBSET Threads, T # {}
               PROVE  \E t \in T : WaitsFor(t) \intersect T = {}
    BY DEF NoCircularWait, Waiting
  <2>1. CASE "worker" \in T
    BY <2>1, WorkerIsFree
  <2>2. CASE "worker" \notin T /\ sk_owner["slot"] \in T
    <3>1. sk_owner["slot"] # Nobody
      BY <2>2 DEF Threads, Nobody
    <3> QED BY <2>2, <3>1, SlotOwnerIsNext
  <2>3. CASE "worker" \notin T /\ sk_owner["slot"] \notin T
    BY <2>3, WaitsForThese
  <2> QED BY <2>1, <2>2, <2>3
<1>2. LocksSpec => []LocksInv
  BY LocksInitInv, LocksInvStep, PTL DEF LocksSpec
<1> QED BY <1>1, <1>2, PTL
-----------------------------------------------------------------------------
(* The statistics: what is where. *)
StatsTyped ==
  /\ st_active \in BOOLEAN /\ st_dirty \in BOOLEAN /\ st_elapsed \in BOOLEAN
  /\ st_observed \in BOOLEAN /\ st_pending \in BOOLEAN /\ st_raced \in BOOLEAN
  /\ st_value \in Nat \ {0}

(* mpv observes what the record says it does, but for the call that is due.*)
ObservedAsAsked ==
  /\ st_ui = "idle" => (st_observed <=> st_active)
  /\ st_ui = "observe" => st_active /\ ~st_observed
  /\ st_ui = "unobserve" => ~st_active
  /\ st_ui \in {"idle", "observe", "unobserve"}
  /\ st_pending => st_observed

(* A value is reported, in the ingest thread's hands, or in the record.    *)
ValueOnItsWay ==
  st_active /\ st_observed /\ ~st_pending =>
    IF st_hand = Cleared THEN st_data = st_value ELSE st_hand = st_value

(* A clean record is what the page shows, or is about to be shown.         *)
CleanIsShown ==
  /\ st_push # NoPush => st_hand = Cleared
  /\ st_active /\ ~st_raced /\ ~st_dirty /\ st_data # Cleared =>
       IF st_push = NoPush THEN st_page = st_data ELSE st_push = st_data
  /\ ~st_active /\ ~st_raced =>
       st_push = NoPush /\ (st_ui = "idle" => st_page = Cleared)

StatsInv == StatsTyped /\ ObservedAsAsked /\ ValueOnItsWay /\ CleanIsShown

LEMMA StatsInitInv == StatsInit => StatsInv
<1> SUFFICES ASSUME StatsInit PROVE StatsInv
  OBVIOUS
<1> USE DEF StatsInit, Cleared, NoPush
<1>1. StatsTyped
  <2>1. st_value \in Nat \ {0}
    OBVIOUS
  <2> QED BY <2>1, Zenon DEF StatsTyped
<1>2. ObservedAsAsked
  BY DEF ObservedAsAsked
<1>3. ValueOnItsWay
  BY DEF ValueOnItsWay
<1>4. CleanIsShown
  BY DEF CleanIsShown
<1> QED BY <1>1, <1>2, <1>3, <1>4 DEF StatsInv

(* One case per operation; each moves a value one place on. *)
LEMMA StatsStep == StatsInv /\ [StatsNext]_stvars => StatsInv'
<1> SUFFICES ASSUME StatsInv, [StatsNext]_stvars PROVE StatsInv'
  OBVIOUS
<1> USE DEF StatsInv, StatsTyped, ObservedAsAsked, ValueOnItsWay, CleanIsShown,
            Cleared, NoPush, strecord, stmpv, stpage, stingest
<1>1. CASE SetActive
  BY <1>1 DEF SetActive
<1>2. CASE Observe
  BY <1>2 DEF Observe
<1>9. CASE Unobserve
  BY <1>9 DEF Unobserve
<1>3. CASE ValueChanges
  BY <1>3 DEF ValueChanges
<1>4. CASE WaitEvent
  BY <1>4 DEF WaitEvent
<1>5. CASE IntervalOver
  BY <1>5 DEF IntervalOver
<1>6. CASE OnStat
  BY <1>6 DEF OnStat, FoldIn
<1>7. CASE PushToPage
  BY <1>7 DEF PushToPage
<1>8. CASE UNCHANGED stvars
  BY <1>8 DEF stvars
<1> QED BY <1>1, <1>2, <1>3, <1>4, <1>5, <1>6, <1>7, <1>8, <1>9 DEF StatsNext

(* When nothing is under way the page shows the value mpv has, or nothing   *)
(* once it has stopped watching (playback/src/stats.rs), however values,    *)
(* pushes and the switch overlap; the one exception is the history variable *)
(* for a push that was taken before the switch.                             *)
THEOREM PageFollowsStats == StatsSpec => []StatsReachPage
<1>1. StatsInv => StatsReachPage
  BY DEF StatsInv, StatsTyped, ObservedAsAsked, ValueOnItsWay, CleanIsShown,
         StatsReachPage, StatsSettled
<1> QED BY StatsInitInv, StatsStep, <1>1, PTL DEF StatsSpec
-----------------------------------------------------------------------------
ThemeInput == {"load", "loaded", "end", "error"}

(* The theme colour. *)
ThemeTyped ==
  /\ tc_video \in BOOLEAN /\ tc_want \in BOOLEAN /\ tc_raced \in BOOLEAN
  /\ tc_unlocked \in BOOLEAN /\ tc_pending \in BOOLEAN /\ tc_active \in BOOLEAN
  /\ tc_file \in {"none", "opening", "open"}
  /\ tc_inputs \in Seq(ThemeInput)
  /\ tc_stage \in {"recv", "browser", "theme"}
  /\ tc_phase \in {"boot", "running", "gone"}

(* The tracker never owes its listeners a colour.                          *)
AppliedIsResolved ==
  tc_applied = IF tc_unlocked THEN Resolved(tc_current, tc_video) ELSE DefaultColor

(* What the worker has still to take, after the first k inputs.            *)
Left0(k) == Len(tc_inputs) = k
Left1(k, a) == Len(tc_inputs) = k + 1 /\ tc_inputs[k + 1] = a
Left2(k, a, b) ==
  Len(tc_inputs) = k + 2 /\ tc_inputs[k + 1] = a /\ tc_inputs[k + 2] = b
Left3(k, a, b, c) ==
  /\ Len(tc_inputs) = k + 3 /\ tc_inputs[k + 1] = a /\ tc_inputs[k + 2] = b
  /\ tc_inputs[k + 3] = c

(* After the last load: the end of the file it replaced, which is eaten,   *)
(* what mpv has made of the load, and the end of that.                     *)
ThemeLoading(k) ==
  \/ tc_file = "opening" /\ (Left0(k) \/ Left1(k, "end"))
  \/ tc_file = "open" /\ (Left1(k, "loaded") \/ Left2(k, "end", "loaded"))
  \/ /\ tc_file = "none"
     /\ \/ Left1(k, "error") \/ Left2(k, "end", "error")
        \/ Left2(k, "loaded", "end") \/ Left3(k, "end", "loaded", "end")

(* ... once the replaced file's end is eaten or the load is known to be    *)
(* open.                                                                   *)
ThemeLoaded ==
  \/ tc_file = "opening" /\ Left0(0)
  \/ tc_file = "open" /\ (Left1(0, "loaded") \/ Left0(0))
  \/ tc_file = "none" /\ (Left1(0, "error") \/ Left2(0, "loaded", "end") \/ Left1(0, "end"))

LoadQueued ==
  \E k \in 1..Len(tc_inputs) :
    /\ \A j \in 1..k : tc_inputs[j] \in {"load", "loaded"}
    /\ tc_inputs[k] = "load"
    /\ ThemeLoading(k)

ThemeOver ==
  /\ tc_inputs = <<>> /\ ~tc_active /\ ~tc_pending /\ tc_file = "none"
  /\ tc_stage = "recv" => ~tc_video

ThemeUnderway ==
  /\ tc_stage = "recv" /\ (tc_video <=> tc_want)
  /\ \/ LoadQueued
     \/ tc_active /\ tc_pending /\ ThemeLoading(0)
     \/ tc_active /\ ~tc_pending /\ ThemeLoaded

(* What the property excepts: the tracker is gone, or a race was lost.     *)
Told == ~tc_raced /\ tc_phase # "gone"

ThemeInv == ThemeTyped /\ AppliedIsResolved /\ (Told => ThemeUnderway \/ ThemeOver)

LEMMA ThemeInitInv == ThemeInit => ThemeInv
<1> SUFFICES ASSUME ThemeInit PROVE ThemeInv
  OBVIOUS
<1> USE DEF ThemeInit
<1>1. ThemeTyped
  <2>1. tc_inputs \in Seq(ThemeInput)
    OBVIOUS
  <2> QED BY <2>1, Zenon DEF ThemeTyped
<1>2. AppliedIsResolved
  BY DEF AppliedIsResolved
<1>3. ThemeOver
  BY Zenon DEF ThemeOver
<1> QED BY <1>1, <1>2, <1>3 DEF ThemeInv

(* The tracker keeps its promise whoever calls it. *)
LEMMA TrackerStep ==
  ASSUME ThemeInv, [ThemeNext]_tcvars
  PROVE  AppliedIsResolved'
<1> USE DEF ThemeInv, ThemeTyped, AppliedIsResolved, Resolved, ApplyIfUnlocked, IfHeld, tctracker
<1>1. CASE PageColor
  BY <1>1 DEF PageColor, OnColor
<1>2. CASE DismissOverlay
  BY <1>2 DEF DismissOverlay, OnOverlayDismissed
<1>3. CASE PageLoad
  BY <1>3 DEF PageLoad, SetVideoMode
<1>4. CASE NotifyMetadata
  BY <1>4 DEF NotifyMetadata, SetVideoMode
<1>5. CASE TellTheme
  BY <1>5 DEF TellTheme, SetVideoMode
<1>6. CASE MpvOpens \/ MpvFails \/ MpvEnds \/ WorkerTakes \/ TellPage \/ ThemeShutdown
           \/ UNCHANGED tcvars
  BY <1>6 DEF MpvOpens, MpvFails, MpvEnds, MpvReports, WorkerTakes, TellPage, ThemeShutdown, tcvars
<1>7. CASE InitMainBrowser
  BY <1>7 DEF InitMainBrowser, SetVideoBg
<1> QED BY <1>1, <1>2, <1>3, <1>4, <1>5, <1>6, <1>7 DEF ThemeNext

(* The tracker's operations leave its flags Boolean, and set video mode    *)
(* while there is a tracker.                                               *)
LEMMA TrackerTyped ==
  ASSUME ThemeTyped
  PROVE  /\ \A rgb : OnColor(rgb) \/ SetVideoBg(rgb) => UNCHANGED <<tc_unlocked, tc_video>>
         /\ OnOverlayDismissed => tc_unlocked' \in BOOLEAN /\ tc_video' = tc_video
         /\ \A video \in BOOLEAN :
              SetVideoMode(video) => /\ tc_video' \in BOOLEAN /\ tc_unlocked' = tc_unlocked
                                     /\ tc_phase # "gone" => tc_video' = video
BY DEF ThemeTyped, OnColor, SetVideoBg, OnOverlayDismissed, SetVideoMode, IfHeld, tctracker

LEMMA ThemeTypedStep ==
  ASSUME ThemeInv, [ThemeNext]_tcvars
  PROVE  ThemeTyped'
<1> USE DEF ThemeInv, ThemeTyped, tctracker, tcworker, tcpage, ThemeInput, HavePage
<1>1. CASE PageColor
  BY <1>1, TrackerTyped DEF PageColor
<1>2. CASE DismissOverlay
  BY <1>2, TrackerTyped DEF DismissOverlay
<1>3. CASE PageLoad
  <2>1. <<"load">> \in Seq(ThemeInput) /\ <<"load", "end">> \in Seq(ThemeInput)
    OBVIOUS
  <2>2. tc_inputs' \in Seq(ThemeInput)
    <3>1. PICK s \in Seq(ThemeInput) : tc_inputs' = tc_inputs \o s
      BY <1>3, <2>1, Zenon DEF PageLoad
    <3> QED BY <3>1
  <2> QED BY <1>3, <2>2, TrackerTyped DEF PageLoad, EndUnannounced, StillQueued
<1>4. CASE NotifyMetadata
  BY <1>4, TrackerTyped DEF NotifyMetadata
<1>5. CASE TellTheme
  BY <1>5, TrackerTyped DEF TellTheme
<1>6. CASE MpvOpens
  BY <1>6 DEF MpvOpens, MpvReports
<1>7. CASE MpvFails
  BY <1>7 DEF MpvFails, MpvReports
<1>8. CASE MpvEnds
  BY <1>8 DEF MpvEnds, MpvReports
<1>9. CASE WorkerTakes
  BY <1>9 DEF WorkerTakes
<1>10. CASE TellPage
  BY <1>10 DEF TellPage
<1>11. CASE InitMainBrowser \/ ThemeShutdown \/ UNCHANGED tcvars
  BY <1>11, TrackerTyped DEF InitMainBrowser, ThemeShutdown, tcvars
<1> QED BY <1>1, <1>2, <1>3, <1>4, <1>5, <1>6, <1>7, <1>8, <1>9, <1>10, <1>11 DEF ThemeNext

LEMMA ThemeLoadStep ==
  ASSUME ThemeInv, PageLoad, Told'
  PROVE  ThemeUnderway'
<1>0. ~EndUnannounced
  BY Zenon DEF PageLoad, Told
<1>1. tc_stage = "recv" /\ \A n \in 1..Len(tc_inputs) : tc_inputs[n] \in {"load", "loaded"}
  BY <1>0 DEF ThemeInv, ThemeTyped, EndUnannounced, StillQueued, ThemeInput
<1>. PICK k \in Nat : k = Len(tc_inputs) + 1
  BY DEF ThemeInv, ThemeTyped
<1>2. /\ \A n \in 1..Len(tc_inputs) : tc_inputs'[n] = tc_inputs[n]
      /\ tc_inputs'[k] = "load"
      /\ IF tc_file = "none" THEN Len(tc_inputs') = k
         ELSE Len(tc_inputs') = k + 1 /\ tc_inputs'[k + 1] = "end"
  BY DEF ThemeInv, ThemeTyped, PageLoad, ThemeInput
<1>3. ThemeLoading(k)'
  BY <1>2 DEF PageLoad, ThemeLoading, Left0, Left1
<1>4. k \in 1..Len(tc_inputs') /\ \A j \in 1..k : tc_inputs'[j] \in {"load", "loaded"}
  BY <1>1, <1>2 DEF ThemeInv, ThemeTyped
<1>5. LoadQueued'
  BY <1>2, <1>3, <1>4 DEF LoadQueued
<1>6. tc_video' <=> tc_want'
  BY TrackerTyped DEF PageLoad, ThemeInv, Told, HavePage
<1> QED BY <1>1, <1>5, <1>6 DEF ThemeUnderway, PageLoad

LEMMA MpvStep ==
  ASSUME ThemeInv, Told, MpvOpens \/ MpvFails \/ MpvEnds
  PROVE  ThemeUnderway'
<1> DEFINE a == IF MpvOpens THEN "loaded" ELSE IF MpvFails THEN "error" ELSE "end"
<1>0. PICK b \in {"loaded", "error", "end"} :
        /\ tc_inputs' = Append(tc_inputs, b)
        /\ \/ b = "loaded" /\ tc_file = "opening" /\ tc_file' = "open"
           \/ b = "error" /\ tc_file = "opening" /\ tc_file' = "none"
           \/ b = "end" /\ tc_file = "open" /\ tc_file' = "none"
        /\ UNCHANGED <<tctracker, tcpage, tc_pending, tc_active, tc_stage>>
  BY DEF MpvOpens, MpvFails, MpvEnds, MpvReports
<1>1. /\ Len(tc_inputs') = Len(tc_inputs) + 1 /\ Len(tc_inputs) \in Nat
      /\ tc_inputs'[Len(tc_inputs) + 1] = b
      /\ \A j \in 1..Len(tc_inputs) : tc_inputs'[j] = tc_inputs[j]
  BY <1>0 DEF ThemeInv, ThemeTyped, ThemeInput
<1>2. ~ThemeOver /\ ThemeUnderway
  BY <1>0 DEF ThemeInv, ThemeOver
<1>3. ASSUME NEW k \in Nat, ThemeLoading(k) PROVE ThemeLoading(k)'
  BY <1>0, <1>1, <1>3 DEF ThemeLoading, Left0, Left1, Left2, Left3
<1>4. CASE LoadQueued
  <2>1. PICK k \in 1..Len(tc_inputs) :
          /\ \A j \in 1..k : tc_inputs[j] \in {"load", "loaded"}
          /\ tc_inputs[k] = "load" /\ ThemeLoading(k)
    BY <1>4 DEF LoadQueued
  <2>2. k \in Nat /\ k \in 1..Len(tc_inputs') /\ \A j \in 1..k : tc_inputs'[j] \in {"load", "loaded"}
    BY <1>1, <2>1
  <2>3. tc_inputs'[k] = "load" /\ ThemeLoading(k)'
    BY <1>1, <1>3, <2>1, <2>2
  <2>4. LoadQueued'
    BY <2>2, <2>3 DEF LoadQueued
  <2> QED BY <1>0, <1>2, <2>4 DEF ThemeUnderway, tctracker, tcpage
<1>5. CASE tc_active /\ tc_pending /\ ThemeLoading(0)
  <2>1. ThemeLoading(0)'
    BY <1>3, <1>5
  <2> QED BY <1>0, <1>2, <1>5, <2>1 DEF ThemeUnderway, tctracker, tcpage
<1>6. CASE tc_active /\ ~tc_pending /\ ThemeLoaded
  <2>1. ThemeLoaded'
    BY <1>0, <1>1, <1>6 DEF ThemeLoaded, Left0, Left1, Left2
  <2> QED BY <1>0, <1>2, <1>6, <2>1 DEF ThemeUnderway, tctracker, tcpage
<1> QED BY <1>2, <1>4, <1>5, <1>6 DEF ThemeUnderway

(* The worker takes an input: a playback goes from place to place. *)
LEMMA TakeStep ==
  ASSUME ThemeInv, Told, WorkerTakes
  PROVE  (ThemeUnderway \/ ThemeOver)'
<1> DEFINE input == tc_inputs[1]
<1>1. /\ Len(tc_inputs) \in Nat \ {0} /\ Len(tc_inputs') = Len(tc_inputs) - 1
      /\ \A j \in 1..Len(tc_inputs') : tc_inputs'[j] = tc_inputs[j + 1]
      /\ tc_inputs' \in Seq(ThemeInput) /\ Head(tc_inputs) = input
  BY DEF ThemeInv, ThemeTyped, WorkerTakes, ThemeInput
<1>2. /\ tc_pending' <=> (input = "load")
      /\ tc_active' <=> ~(input = "error" \/ (input = "end" /\ ~tc_pending))
      /\ tc_stage' = IF tc_active' THEN "recv" ELSE "browser"
      /\ UNCHANGED <<tctracker, tcpage, tc_file>>
  <2> DEFINE over == input \in {"end", "error"} /\ ~(input = "end" /\ tc_pending)
  <2>1. /\ tc_pending' = (input = "load") /\ tc_active' = ~over
        /\ tc_stage' = IF over THEN "browser" ELSE "recv"
        /\ UNCHANGED <<tctracker, tcpage, tc_file>>
    BY <1>1, Zenon DEF WorkerTakes
  <2>2. over <=> (input = "error" \/ (input = "end" /\ ~tc_pending))
    OBVIOUS
  <2> HIDE DEF over, input
  <2>3. tc_active' <=> ~over
    BY <2>1, Zenon
  <2> QED BY <2>1, <2>2, <2>3
<1>3. ThemeUnderway
  BY DEF ThemeInv, WorkerTakes, ThemeOver
<1> HIDE DEF input
<1>4. CASE LoadQueued
  <2>1. PICK k \in 1..Len(tc_inputs) :
          /\ \A j \in 1..k : tc_inputs[j] \in {"load", "loaded"}
          /\ tc_inputs[k] = "load" /\ ThemeLoading(k)
    BY <1>4 DEF LoadQueued
  <2>2. ThemeLoading(k - 1)'
    BY <1>1, <1>2, <2>1 DEF ThemeLoading, Left0, Left1, Left2, Left3
  <2>3. tc_active' /\ tc_stage' = "recv"
    BY <1>1, <1>2, <2>1 DEF input
  <2>4. CASE k = 1
    BY <1>2, <1>3, <2>1, <2>2, <2>3, <2>4 DEF ThemeUnderway, input, tctracker, tcpage
  <2>5. CASE k > 1
    <3>1. k - 1 \in 1..Len(tc_inputs') /\ tc_inputs'[k - 1] = "load"
      BY <1>1, <2>1, <2>5
    <3>2. \A j \in 1..(k - 1) : tc_inputs'[j] \in {"load", "loaded"}
      BY <1>1, <2>1, <3>1
    <3>3. LoadQueued'
      BY <2>2, <3>1, <3>2 DEF LoadQueued
    <3> QED BY <1>2, <1>3, <2>3, <3>3 DEF ThemeUnderway, tctracker, tcpage
  <2> QED BY <2>1, <2>4, <2>5
<1>5. CASE tc_active /\ tc_pending /\ ThemeLoading(0)
  <2>1. CASE input \in {"end", "loaded"}
    <3>1. ThemeLoaded'
      BY <1>1, <1>2, <1>5, <2>1 DEF ThemeLoading, ThemeLoaded, Left0, Left1, Left2, Left3, input
    <3> QED BY <1>2, <1>3, <1>5, <2>1, <3>1 DEF ThemeUnderway, tctracker, tcpage
  <2>2. CASE input = "error"
    <3>1. tc_file' = "none" /\ Len(tc_inputs') = 0
      BY <1>1, <1>2, <1>5, <2>2 DEF ThemeLoading, Left0, Left1, Left2, Left3, input
    <3>2. tc_inputs' = <<>>
      BY <1>1, <3>1
    <3> QED BY <1>2, <2>2, <3>1, <3>2 DEF ThemeOver
  <2>3. input \in {"end", "loaded", "error"}
    BY <1>1, <1>5 DEF ThemeLoading, Left0, Left1, Left2, Left3, input
  <2> QED BY <2>1, <2>2, <2>3
<1>6. CASE tc_active /\ ~tc_pending /\ ThemeLoaded
  <2>1. CASE input = "loaded"
    <3>1. ThemeLoaded'
      BY <1>1, <1>2, <1>6, <2>1 DEF ThemeLoaded, Left0, Left1, Left2, input
    <3> QED BY <1>2, <1>3, <1>6, <2>1, <3>1 DEF ThemeUnderway, tctracker, tcpage
  <2>2. CASE input \in {"error", "end"}
    <3>1. tc_file' = "none" /\ Len(tc_inputs') = 0
      BY <1>1, <1>2, <1>6, <2>2 DEF ThemeLoaded, Left0, Left1, Left2, input
    <3>2. tc_inputs' = <<>>
      BY <1>1, <3>1
    <3> QED BY <1>2, <1>6, <2>2, <3>1, <3>2 DEF ThemeOver
  <2>3. input \in {"end", "loaded", "error"}
    BY <1>1, <1>6 DEF ThemeLoaded, Left0, Left1, Left2, input
  <2> QED BY <2>1, <2>2, <2>3
<1> QED BY <1>3, <1>4, <1>5, <1>6 DEF ThemeUnderway

(* The other steps leave the queue, the file and the worker's state. *)
LEMMA SameInputs ==
  ASSUME UNCHANGED <<tcworker, tc_file>>, ThemeInv, Told,
         \/ UNCHANGED <<tc_video, tc_want>>
         \/ /\ tc_video' = tc_want' /\ tc_want' \in BOOLEAN
            /\ tc_want' => ~NothingPlays
  PROVE  (ThemeUnderway \/ ThemeOver)'
<1> USE DEF tcworker
<1>1. CASE ThemeUnderway
  <2>1. tc_video' <=> tc_want'
    BY <1>1 DEF ThemeUnderway, ThemeInv, ThemeTyped
  <2> QED BY <1>1, <2>1 DEF ThemeUnderway, LoadQueued, ThemeLoading, ThemeLoaded, Left0, Left1, Left2, Left3
<1>2. CASE ThemeOver
  <2>1. tc_stage = "recv" => NothingPlays
    BY <1>2 DEF ThemeOver, NothingPlays, StillQueued
  <2> QED BY <1>2, <2>1 DEF ThemeOver
<1> QED BY <1>1, <1>2 DEF ThemeInv

LEMMA PlaybackStep ==
  ASSUME ThemeInv, [ThemeNext]_tcvars, Told'
  PROVE  (ThemeUnderway \/ ThemeOver)'
<1> USE DEF Told
<1>0. ThemeTyped
  BY DEF ThemeInv
<1>1. CASE PageColor
  BY <1>0, <1>1, SameInputs, TrackerTyped DEF PageColor, HavePage, tcpage
<1>2. CASE DismissOverlay
  BY <1>0, <1>2, SameInputs, TrackerTyped DEF DismissOverlay, HavePage, tcpage
<1>3. CASE PageLoad
  BY <1>3, ThemeLoadStep
<1>4. CASE NotifyMetadata
  <2>1. PICK video \in BOOLEAN :
          /\ SetVideoMode(video) /\ tc_want' = video
          /\ tc_raced' = (tc_raced \/ (video /\ NothingPlays))
    BY <1>4 DEF NotifyMetadata
  <2>2. tc_phase # "gone" /\ UNCHANGED <<tcworker, tc_file>>
    BY <1>4 DEF NotifyMetadata, HavePage
  <2>3. tc_video' = video
    BY <1>0, <2>1, <2>2, TrackerTyped
  <2>4. ~tc_raced /\ (video => ~NothingPlays)
    BY <1>0, <2>1 DEF ThemeTyped
  <2> QED BY <2>1, <2>2, <2>3, <2>4, SameInputs
<1>5. CASE TellTheme
  <2>1. tc_video' = FALSE
    BY <1>0, <1>5, TrackerTyped DEF TellTheme
  <2> QED BY <1>5, <2>1 DEF ThemeInv, TellTheme, ThemeUnderway, ThemeOver, tcpage
<1>6. CASE MpvOpens \/ MpvFails \/ MpvEnds
  BY <1>6, MpvStep DEF MpvOpens, MpvFails, MpvEnds, MpvReports, tcpage
<1>7. CASE WorkerTakes
  BY <1>7, TakeStep DEF WorkerTakes, tcpage
<1>8. CASE TellPage
  BY <1>8 DEF ThemeInv, TellPage, ThemeUnderway, ThemeOver, tcpage, tctracker
<1>9. CASE UNCHANGED tcvars
  BY <1>9, SameInputs DEF tcvars, tcpage, tctracker
<1>10. CASE InitMainBrowser
  BY <1>0, <1>10, SameInputs, TrackerTyped DEF InitMainBrowser, tcpage
<1>11. CASE ThemeShutdown
  BY <1>11 DEF ThemeShutdown
<1> QED BY <1>1, <1>2, <1>3, <1>4, <1>5, <1>6, <1>7, <1>8, <1>9, <1>10, <1>11 DEF ThemeNext

(* The colour behind the window is that of what is on the screen            *)
(* (color/src/theme.rs, theme_color_sink.rs), whatever the page says of the *)
(* item and whatever overlaps, until the tracker is gone: but for a load    *)
(* begun before the last end was announced, and a video told of after it.   *)
THEOREM ThemeFollows == ThemeSpec => []ThemeFollowsPlayback
<1>1. ThemeInv /\ [ThemeNext]_tcvars => ThemeInv'
  BY TrackerStep, ThemeTypedStep, PlaybackStep DEF ThemeInv
<1>2. ThemeInv => ThemeFollowsPlayback
  <2> SUFFICES ASSUME ThemeInv, tc_inputs = <<>>, tc_stage = "recv", Told
               PROVE  tc_video <=> (tc_active /\ tc_want)
    BY DEF ThemeInv, AppliedIsResolved, ThemeFollowsPlayback, Resolved, Told
  <2>1. ~LoadQueued
    BY DEF LoadQueued
  <2> QED BY <2>1 DEF ThemeInv, ThemeUnderway, ThemeOver
<1> QED BY ThemeInitInv, <1>1, <1>2, PTL DEF ThemeSpec
-----------------------------------------------------------------------------
(* Sequences *)

LEMMA ShortSeqs ==
  ASSUME NEW S, NEW a \in S, NEW b \in S, NEW c \in S
  PROVE  /\ <<>> \in Seq(S) /\ <<a>> \in Seq(S) /\ <<a, b>> \in Seq(S)
         /\ <<a, b, c>> \in Seq(S)
         /\ <<a, b>> \o <<>> = <<a, b>> /\ <<a, b>> \o <<c>> = <<a, b, c>>
<1>1. <<>> \in Seq(S) /\ <<a>> \in Seq(S) /\ <<a, b>> \in Seq(S)
  OBVIOUS
<1>2. <<a, b, c>> \in Seq(S)
  OBVIOUS
<1>3. <<a, b>> \o <<>> = <<a, b>>
  BY <1>1, ConcatEmptySeq
<1>4. <<a, b>> \o <<c>> = <<a, b, c>>
  <2> DEFINE s == <<a, b>> \o <<c>>
             t == <<a, b, c>>
  <2>1. /\ Len(<<a, b>>) = 2 /\ Len(<<c>>) = 1 /\ <<c>> \in Seq(S)
        /\ <<a, b>>[1] = a /\ <<a, b>>[2] = b /\ <<c>>[1] = c
    OBVIOUS
  <2>2. s \in Seq(S) /\ Len(s) = 3 /\ s[1] = a /\ s[2] = b /\ s[3] = c
    BY <1>1, <2>1, ConcatProperties
  <2>3. Len(t) = 3 /\ t[1] = a /\ t[2] = b /\ t[3] = c
    OBVIOUS
  <2>4. \A i \in 1 .. Len(s) : s[i] = t[i]
    BY <2>2, <2>3
  <2> HIDE DEF s, t
  <2>5. s = t
    BY <1>2, <2>2, <2>3, <2>4, SeqEqual DEF t
  <2> QED BY <2>5 DEF s, t
<1> QED BY <1>1, <1>2, <1>3, <1>4

LEMMA AppendedOne ==
  ASSUME NEW S, NEW s \in Seq(S), NEW x \in S, NEW q, q = Append(s, x)
  PROVE  /\ q \in Seq(S) /\ Len(s) \in Nat /\ Len(q) = Len(s) + 1 /\ q # <<>>
         /\ DOMAIN s = 1..Len(s) /\ DOMAIN q = 1..(Len(s) + 1)
         /\ q[Len(s) + 1] = x /\ \A n \in DOMAIN s : q[n] = s[n]
OBVIOUS

LEMMA Queued ==
  ASSUME NEW S, NEW s \in Seq(S), NEW t \in Seq(S)
  PROVE  /\ s \o t \in Seq(S) /\ Len(s) \in Nat /\ Len(t) \in Nat
         /\ DOMAIN s = 1..Len(s) /\ DOMAIN t = 1..Len(t)
         /\ Len(s \o t) = Len(s) + Len(t) /\ DOMAIN (s \o t) = 1..(Len(s) + Len(t))
         /\ \A n \in DOMAIN s : (s \o t)[n] = s[n]
         /\ \A n \in DOMAIN t : (s \o t)[Len(s) + n] = t[n]
         /\ \A n \in DOMAIN (s \o t) : n \in DOMAIN s \/ n - Len(s) \in DOMAIN t
OBVIOUS

LEMMA Served ==
  ASSUME NEW S, NEW s \in Seq(S), s # <<>>
  PROVE  /\ Tail(s) \in Seq(S) /\ Head(s) = s[1] /\ 1 \in DOMAIN s /\ DOMAIN s \subseteq Nat
         /\ DOMAIN Tail(s) \subseteq Nat
         /\ \A n \in DOMAIN Tail(s) : n + 1 \in DOMAIN s /\ Tail(s)[n] = s[n + 1] /\ n # 0
         /\ \A n \in DOMAIN s : n = 1 \/ n - 1 \in DOMAIN Tail(s)
OBVIOUS
-----------------------------------------------------------------------------
(* The loop is of this file: AbLoop.LoopIsOfThisFile *)

(* As much of the type invariant as the argument needs. *)
LoopTyped ==
  /\ ipc \in Seq(Messages)
  /\ cmds \in Seq(CmdType)
  /\ loop = [e \in Ends |-> loop[e]]

Unsets(n, e) == cmds[n].op = "unset" /\ cmds[n].asked = e

(* When a queued load comes to be executed both points will be unset: what *)
(* has still to unset them is right before it, a before b.                 *)
ClearedBy(n) ==
  /\ n = 1 => loop["a"] = No /\ loop["b"] = No
  /\ n = 2 => loop["a"] = No /\ Unsets(1, "b")
  /\ n > 2 => Unsets(n - 2, "a") /\ Unsets(n - 1, "b")
LoadsCleared == \A n \in DOMAIN cmds : cmds[n].op = "loadfile" => ClearedBy(n)

LoopInv == LoopTyped /\ LoadsCleared /\ LoopIsOfThisFile
-----------------------------------------------------------------------------
LEMMA LoopInit == ABInit => LoopInv
BY DEF ABInit, LoopInv, LoopTyped, LoadsCleared, LoopIsOfThisFile, Unset, Ends

(* Commands that load nothing may be queued at any time. *)
LEMMA QueueStep ==
  ASSUME LoopInv, NEW new \in Seq(CmdType), cmds' = cmds \o new, UNCHANGED loop,
         \A n \in DOMAIN new : new[n].op = "loadfile" =>
           /\ n = 3
           /\ new[1].op = "unset" /\ new[1].asked = "a"
           /\ new[2].op = "unset" /\ new[2].asked = "b"
  PROVE  LoadsCleared'
<1> SUFFICES ASSUME NEW n \in DOMAIN cmds', cmds'[n].op = "loadfile"
             PROVE  ClearedBy(n)'
  BY DEF LoadsCleared
<1>1. cmds \in Seq(CmdType)
  BY DEF LoopInv, LoopTyped
<1>2. CASE n \in DOMAIN cmds
  <2>1. cmds'[n] = cmds[n]
    BY <1>1, <1>2, Queued
  <2>2. ClearedBy(n)
    BY <2>1, <1>2 DEF LoopInv, LoadsCleared
  <2>3. n > 1 => cmds'[n - 1] = cmds[n - 1]
    BY <1>1, <1>2, Queued
  <2>4. n > 2 => cmds'[n - 2] = cmds[n - 2]
    BY <1>1, <1>2, Queued
  <2>5. n \in Nat
    BY <1>1, <1>2
  <2> QED BY <2>2, <2>3, <2>4, <2>5, SMTT(60) DEF ClearedBy, Unsets
<1>3. CASE n \notin DOMAIN cmds
  <2>1. /\ n \in Nat /\ n > Len(cmds) /\ Len(cmds) \in Nat
        /\ n - Len(cmds) \in DOMAIN new
    BY <1>1, <1>3, Queued
  <2>2. cmds'[n] = new[n - Len(cmds)]
    BY <1>1, <2>1, Queued
  <2>3. n = Len(cmds) + 3
    BY <2>1, <2>2
  <2>4. 1 \in DOMAIN new /\ 2 \in DOMAIN new
    BY <2>1, <2>3
  <2>5. cmds'[n - 2] = new[1] /\ cmds'[n - 1] = new[2]
    BY <1>1, <2>1, <2>3, <2>4, Queued
  <2>6. new[1].op = "unset" /\ new[1].asked = "a"
        /\ new[2].op = "unset" /\ new[2].asked = "b"
    BY <2>1, <2>2
  <2> QED BY <2>1, <2>3, <2>5, <2>6 DEF ClearedBy, Unsets
<1> QED BY <1>2, <1>3

LEMMA HandleStep ==
  ASSUME LoopInv, HandleMessage
  PROVE  LoopInv'
<1> DEFINE Clear == ClearPair
           Load == LoadCommands(TRUE)
           Cycle(e) == <<Cmd("cycle", e)>>
<1>1. ipc' \in Seq(Messages) /\ Head(ipc) \in Messages /\ UNCHANGED <<loop, file>>
  BY DEF HandleMessage, LoopInv, LoopTyped, core
<1>2. /\ Cmd("unset", "a") \in CmdType
      /\ Cmd("unset", "b") \in CmdType
      /\ Cmd("loadfile", "a") \in CmdType
      /\ \A e \in Ends : Cmd("cycle", e) \in CmdType
  BY DEF Cmd, CmdType, Ends
<1>3. ClearPair \in Seq(CmdType)
  BY <1>2, ShortSeqs DEF ClearPair
<1>4. PICK new \in Seq(CmdType) :
        /\ cmds' = cmds \o new
        /\ \/ new = ClearPair \/ new = <<>>
           \/ \E e \in Ends : new = <<Cmd("cycle", e)>>
           \/ new = LoadCommands(TRUE)
  <2>1. CASE Head(ipc) \in {"set-a", "set-b", "clear"}
    <3>1. Run(Head(ipc))
      BY <2>1 DEF HandleMessage
    <3>2. Asked(Head(ipc)) \in Ends
      BY DEF Asked, Ends
    <3>3. CommandFor(Head(ipc)) \in {"Cycle", "ClearBoth", "Ignore"}
      BY DEF CommandFor
    <3>4. CASE CommandFor(Head(ipc)) = "Cycle"
      <4>1. cmds' = cmds \o <<Cmd("cycle", Asked(Head(ipc)))>>
        BY <3>1, <3>4 DEF Run
      <4>2. <<Cmd("cycle", Asked(Head(ipc)))>> \in Seq(CmdType)
        BY <1>2, <3>2
      <4> QED BY <4>1, <4>2, <3>2
    <3>5. CASE CommandFor(Head(ipc)) = "ClearBoth"
      BY <3>1, <3>5, <1>3 DEF Run
    <3>6. CASE CommandFor(Head(ipc)) = "Ignore"
      BY <3>1, <3>6, EmptySeq DEF Run
    <3> QED BY <3>3, <3>4, <3>5, <3>6
  <2>2. CASE Head(ipc) = "load"
    <3>1. LoadCommands(TRUE) \in Seq(CmdType)
      BY <1>2, ShortSeqs DEF LoadCommands, ClearPair
    <3> QED BY <2>2, <3>1 DEF HandleMessage
  <2>3. CASE Head(ipc) = "refused-load"
    <3>1. LoadCommands(FALSE) = ClearPair
      BY <1>3 DEF LoadCommands
    <3> QED BY <2>3, <3>1, <1>3 DEF HandleMessage
  <2>4. CASE Head(ipc) = "stop"
    BY <2>4, <1>3 DEF HandleMessage
  <2> QED BY <1>1, <2>1, <2>2, <2>3, <2>4 DEF Messages
<1>5. \A n \in DOMAIN new : new[n].op = "loadfile" =>
        /\ n = 3
        /\ new[1].op = "unset" /\ new[1].asked = "a"
        /\ new[2].op = "unset" /\ new[2].asked = "b"
  <2>1. CASE new = ClearPair \/ new = <<>>
    BY <2>1 DEF ClearPair, Cmd
  <2>2. CASE \E e \in Ends : new = <<Cmd("cycle", e)>>
    BY <2>2 DEF Cmd
  <2>3. CASE new = LoadCommands(TRUE)
    <3>1. new = <<Cmd("unset", "a"), Cmd("unset", "b"),
                  Cmd("loadfile", "a")>>
      BY <2>3, <1>2, ShortSeqs DEF LoadCommands, ClearPair
    <3> QED BY <3>1 DEF Cmd
  <2> QED BY <1>4, <2>1, <2>2, <2>3
<1>6. LoadsCleared'
  BY <1>1, <1>4, <1>5, QueueStep
<1>7. cmds' \in Seq(CmdType)
  BY <1>4, Queued DEF LoopInv, LoopTyped
<1> QED BY <1>1, <1>6, <1>7 DEF LoopInv, LoopTyped, LoopIsOfThisFile

LEMMA ExecuteStep ==
  ASSUME LoopInv, Execute
  PROVE  LoopInv'
<1>1. /\ cmds \in Seq(CmdType) /\ cmds # <<>> /\ cmds' = Tail(cmds)
      /\ UNCHANGED ipc
  BY DEF Execute, LoopInv, LoopTyped
<1>2. /\ Head(cmds) = cmds[1] /\ 1 \in DOMAIN cmds /\ cmds' \in Seq(CmdType)
      /\ \A n \in DOMAIN cmds' : /\ cmds'[n] = cmds[n + 1] /\ n \in Nat \ {0}
                                 /\ n + 1 \in DOMAIN cmds
  BY <1>1, Served
<1>3. loop = [e \in Ends |-> loop[e]] /\ LoopIsOfThisFile
  BY DEF LoopInv, LoopTyped
<1>4. LoadsCleared
  BY DEF LoopInv
<1>5. cmds[1].op \in {"cycle", "unset", "loadfile"} /\ cmds[1].asked \in Ends
  <2>1. cmds[1] \in CmdType
    BY <1>1, <1>2
  <2> QED BY <2>1 DEF CmdType
<1>6. CASE cmds[1].op = "loadfile"
  <2>1. loop["a"] = No /\ loop["b"] = No /\ UNCHANGED loop
    BY <1>2, <1>4, <1>6 DEF LoadsCleared, ClearedBy, Execute
  <2>2. LoopIsOfThisFile'
    BY <2>1 DEF LoopIsOfThisFile, Ends
  <2>3. ASSUME NEW n \in DOMAIN cmds', cmds'[n].op = "loadfile"
        PROVE  ClearedBy(n)'
    <3>1. ClearedBy(n + 1)
      BY <1>2, <1>4, <2>3 DEF LoadsCleared
    <3>2. n > 2
      BY <3>1, <1>2, <1>6 DEF ClearedBy, Unsets
    <3>3. n - 1 \in DOMAIN cmds' /\ n - 2 \in DOMAIN cmds'
      BY <3>2, <1>1, <1>2
    <3>4. Unsets(n - 2, "a")' /\ Unsets(n - 1, "b")'
      BY <3>1, <3>2, <3>3, <1>2, SMTT(60) DEF ClearedBy, Unsets
    <3> QED BY <3>2, <3>4 DEF ClearedBy
  <2> QED BY <2>1, <2>2, <2>3, <1>1, <1>2, <1>3
          DEF LoopInv, LoopTyped, LoadsCleared
<1>7. CASE cmds[1].op # "loadfile"
  <2>1. /\ UNCHANGED file
        /\ \/ cmds[1].op = "cycle" /\ loop' = Cycled
           \/ cmds[1].op = "unset" /\ loop' = [loop EXCEPT ![cmds[1].asked] = No]
    BY <1>2, <1>5, <1>7 DEF Execute
  <2>2. loop' = [e \in Ends |-> loop'[e]]
    BY <2>1, <1>3 DEF Cycled, Unset
  <2>3. LoopIsOfThisFile'
    BY <2>1, <1>3, <1>5 DEF Cycled, Unset, LoopIsOfThisFile, Ends
  <2>4. ASSUME NEW n \in DOMAIN cmds', cmds'[n].op = "loadfile"
        PROVE  ClearedBy(n)'
    <3>1. ClearedBy(n + 1)
      BY <1>2, <1>4, <2>4 DEF LoadsCleared
    <3>2. n = 1 => loop'["a"] = No /\ loop'["b"] = No
      BY <3>1, <2>1, <1>3 DEF ClearedBy, Unsets, Ends
    <3>3. n = 2 => loop'["a"] = No /\ Unsets(1, "b")'
      <4> SUFFICES ASSUME n = 2 PROVE loop'["a"] = No /\ Unsets(1, "b")'
        OBVIOUS
      <4>1. Unsets(1, "a") /\ Unsets(2, "b")
        BY <3>1 DEF ClearedBy
      <4>2. 1 \in DOMAIN cmds'
        BY <1>1, <1>2
      <4> QED BY <4>1, <4>2, <2>1, <1>2, <1>3 DEF Unsets, Ends
    <3>4. n > 2 => Unsets(n - 2, "a")' /\ Unsets(n - 1, "b")'
      <4> SUFFICES ASSUME n > 2 PROVE Unsets(n - 2, "a")' /\ Unsets(n - 1, "b")'
        OBVIOUS
      <4>1. n - 1 \in DOMAIN cmds' /\ n - 2 \in DOMAIN cmds'
        BY <1>1, <1>2
      <4> QED BY <3>1, <4>1, <1>2, SMTT(60) DEF ClearedBy, Unsets
    <3> QED BY <3>2, <3>3, <3>4 DEF ClearedBy
  <2> QED BY <2>2, <2>3, <2>4, <1>1, <1>2 DEF LoopInv, LoopTyped, LoadsCleared
<1> QED BY <1>6, <1>7

LEMMA LoopStep == LoopInv /\ [ABNext]_abvars => LoopInv'
<1> SUFFICES ASSUME LoopInv, [ABNext]_abvars PROVE LoopInv'
  OBVIOUS
<1> USE DEF LoopInv, LoopTyped, LoadsCleared, ClearedBy, Unsets, LoopIsOfThisFile
<1>1. ASSUME NEW msg \in Messages, PageAsks(msg) PROVE LoopInv'
  BY <1>1 DEF PageAsks, core
<1>2. CASE PageStops \/ PageDraws \/ OnProperty \/ UNCHANGED abvars
  BY <1>2 DEF PageStops, PageDraws, OnProperty, abvars, core
<1>3. ASSUME NEW e \in Ends, Notify(e) PROVE LoopInv'
  BY <1>3 DEF Notify
<1> QED BY <1>1, <1>2, <1>3, HandleStep, ExecuteStep DEF ABNext
-----------------------------------------------------------------------------
(* A loop set on one file never applies to the next (business_web.rs,      *)
(* handle_player_load), whatever is queued in front of mpv.                *)
THEOREM LoopStaysWithFile == ABSpec => []LoopIsOfThisFile
<1>1. LoopInv => LoopIsOfThisFile
  BY DEF LoopInv
<1> QED BY <1>1, LoopInit, LoopStep, PTL DEF ABSpec
-----------------------------------------------------------------------------
(* The page draws the loop: AbLoop.UiAgreesWhenSettled *)

AnyPoint == Nat \union {No}
AnyPair == [Ends -> AnyPoint]
Report == [end : Ends, point : AnyPoint]

UiTyped ==
  /\ ipc \in Seq(Messages) /\ cmds \in Seq(CmdType)
  /\ file \in Nat /\ loop \in AnyPair /\ told \in AnyPair
  /\ reports \in Seq(Report) /\ observed \in AnyPair /\ pushed = observed
  /\ pushes \in Seq(AnyPair) /\ ui \in AnyPair

(* What is observed, or will be once the reports are in, is what mpv last  *)
(* notified.                                                               *)
Tells(n, e) == reports[n].end = e
IsTold(e) ==
  \/ (\A n \in DOMAIN reports : ~Tells(n, e)) /\ observed[e] = told[e]
  \/ \E n \in DOMAIN reports :
       /\ Tells(n, e) /\ reports[n].point = told[e]
       /\ \A m \in DOMAIN reports : Tells(m, e) => m <= n
ReportsFollow == \A e \in Ends : IsTold(e)

(* The page draws, or will once the pushes are in, the pair pushed last... *)
PageFollows ==
  \/ pushes = <<>> /\ ui = pushed
  \/ pushes # <<>> /\ pushes[Len(pushes)] = pushed

(* A load that no press for B follows is on its way to the CEF thread. *)
LoadAhead ==
  \E n \in DOMAIN ipc : ipc[n] = "load" /\ \A m \in DOMAIN ipc : ipc[m] = "set-b" => m < n

(* An end is unset, or about to be, and nothing queued sets one again.     *)
EndCleared(e) ==
  \/ loop[e] = No /\ \A n \in DOMAIN cmds : cmds[n].op # "cycle"
  \/ \E n \in DOMAIN cmds :
       Unsets(n, e) /\ \A m \in DOMAIN cmds : cmds[m].op = "cycle" => m < n

(* ...unless it forgot its pair at playbackstop: then it plays nothing, or *)
(* the load that makes it play again unsets both ends, and no press of its *)
(* button gets past the pair observed.                                     *)
Forgiven ==
  \/ ~viewing
  \/ LoadAhead
  \/ /\ \A n \in DOMAIN ipc : ipc[n] # "set-b"
     /\ \A e \in Ends : EndCleared(e)
PageForgot == pushes = <<>> /\ ui = Unset /\ pushed # Unset /\ Forgiven

UiInv == UiTyped /\ ReportsFollow /\ (PageFollows \/ PageForgot)
-----------------------------------------------------------------------------
LEMMA UiInit == ABInit => UiInv
<1> SUFFICES ASSUME ABInit PROVE UiInv
  OBVIOUS
<1> USE DEF ABInit
<1>1. \A S : <<>> \in Seq(S)
  OBVIOUS
<1>2. Unset \in AnyPair
  BY DEF Unset, AnyPair, AnyPoint
<1>3. UiTyped
  BY <1>1, <1>2 DEF UiTyped
<1>4. DOMAIN reports = {}
  OBVIOUS
<1>5. ReportsFollow
  BY <1>4 DEF ReportsFollow, IsTold
<1> QED BY <1>3, <1>5 DEF UiInv, PageFollows

(* What a message makes libmpv queue. *)
LEMMA Handled ==
  ASSUME ipc \in Seq(Messages), HandleMessage
  PROVE  \E new \in Seq(CmdType) :
           /\ cmds' = cmds \o new
           /\ \/ new = ClearPair /\ Head(ipc) # "load"
              \/ new = <<>> /\ Head(ipc) # "load"
              \/ \E e \in Ends : /\ new = <<Cmd("cycle", e)>>
                                 /\ Head(ipc) # "load"
                                 /\ Head(ipc) = "set-b" \/ observed = Unset
              \/ new = LoadCommands(TRUE)
<1>1. Head(ipc) \in Messages
  BY DEF HandleMessage
<1>2. /\ Cmd("unset", "a") \in CmdType
      /\ Cmd("unset", "b") \in CmdType
      /\ Cmd("loadfile", "a") \in CmdType
      /\ \A e \in Ends : Cmd("cycle", e) \in CmdType
  BY DEF Cmd, CmdType, Ends
<1>3. ClearPair \in Seq(CmdType)
  BY <1>2, ShortSeqs DEF ClearPair
<1>4. CASE Head(ipc) \in {"set-a", "set-b", "clear"}
  <2>1. Run(Head(ipc))
    BY <1>4 DEF HandleMessage
  <2>2. Asked(Head(ipc)) \in Ends
    BY DEF Asked, Ends
  <2>3. CommandFor(Head(ipc)) \in {"Cycle", "ClearBoth", "Ignore"}
    BY DEF CommandFor
  <2>4. CASE CommandFor(Head(ipc)) = "Cycle"
    <3>1. cmds' = cmds \o <<Cmd("cycle", Asked(Head(ipc)))>>
      BY <2>1, <2>4 DEF Run
    <3>2. <<Cmd("cycle", Asked(Head(ipc)))>> \in Seq(CmdType)
      BY <1>2, <2>2
    <3>3. Head(ipc) = "set-b" \/ observed = Unset
      BY <2>4, <1>4 DEF CommandFor
    <3> QED BY <3>1, <3>2, <3>3, <2>2, <1>4
  <2>5. CASE CommandFor(Head(ipc)) = "ClearBoth"
    BY <2>1, <2>5, <1>3, <1>4 DEF Run
  <2>6. CASE CommandFor(Head(ipc)) = "Ignore"
    BY <2>1, <2>6, <1>4, EmptySeq DEF Run
  <2> QED BY <2>3, <2>4, <2>5, <2>6
<1>5. CASE Head(ipc) = "load"
  <2>1. LoadCommands(TRUE) \in Seq(CmdType)
    BY <1>2, ShortSeqs DEF LoadCommands, ClearPair
  <2> QED BY <1>5, <2>1 DEF HandleMessage
<1>6. CASE Head(ipc) = "refused-load"
  <2>1. LoadCommands(FALSE) = ClearPair
    BY <1>3 DEF LoadCommands
  <2> QED BY <1>6, <2>1, <1>3 DEF HandleMessage
<1>7. CASE Head(ipc) = "stop"
  BY <1>7, <1>3 DEF HandleMessage
<1> QED BY <1>1, <1>4, <1>5, <1>6, <1>7 DEF Messages

LEMMA UiTypedStep ==
  ASSUME UiTyped, [ABNext]_abvars
  PROVE  UiTyped'
<1> USE DEF UiTyped, core, native
<1>1. ASSUME NEW msg \in Messages, PageAsks(msg) PROVE UiTyped'
  BY <1>1 DEF PageAsks
<1>2. CASE PageStops
  <2>1. Unset \in AnyPair
    BY DEF Unset, AnyPair, AnyPoint
  <2> QED BY <1>2, <2>1 DEF PageStops
<1>3. CASE PageDraws
  <2>1. Head(pushes) \in AnyPair /\ Tail(pushes) \in Seq(AnyPair)
    BY <1>3 DEF PageDraws
  <2> QED BY <1>3, <2>1 DEF PageDraws
<1>4. CASE HandleMessage
  <2>1. PICK new \in Seq(CmdType) : cmds' = cmds \o new
    BY <1>4, Handled
  <2>2. cmds' \in Seq(CmdType) /\ ipc' \in Seq(Messages)
    BY <1>4, <2>1, Queued DEF HandleMessage
  <2> QED BY <1>4, <2>2 DEF HandleMessage
<1>5. CASE Execute
  <2>1. Head(cmds) \in CmdType /\ cmds' \in Seq(CmdType)
    BY <1>5 DEF Execute
  <2>2. loop' \in AnyPair /\ file' \in Nat
    <3>1. Cycled \in AnyPair
      BY DEF Cycled, Unset, AnyPair, AnyPoint, NextEnd, Ends
    <3>2. \A e \in Ends : [loop EXCEPT ![e] = No] \in AnyPair
      BY DEF AnyPair, AnyPoint
    <3>3. Head(cmds).op \in {"cycle", "unset", "loadfile"} /\ Head(cmds).asked \in Ends
      BY <2>1 DEF CmdType
    <3>4. \/ loop' = Cycled /\ file' = file
          \/ loop' = [loop EXCEPT ![Head(cmds).asked] = No] /\ file' = file
          \/ loop' = loop /\ file' = file + 1
      BY <1>5, <3>3 DEF Execute
    <3>5. file' \in Nat
      BY <3>4
    <3>6. loop' \in AnyPair
      BY <3>1, <3>2, <3>3, <3>4
    <3> QED BY <3>5, <3>6
  <2> QED BY <1>5, <2>1, <2>2 DEF Execute
<1>6. ASSUME NEW e \in Ends, Notify(e) PROVE UiTyped'
  <2>1. [end |-> e, point |-> loop[e]] \in Report /\ loop[e] \in AnyPoint
    BY DEF Report, AnyPair
  <2>2. told' \in AnyPair
    BY <1>6, <2>1 DEF Notify, AnyPair
  <2>3. reports' \in Seq(Report)
    BY <1>6, <2>1 DEF Notify
  <2> QED BY <1>6, <2>2, <2>3 DEF Notify
<1>7. CASE OnProperty
  <2>1. Head(reports) \in Report /\ reports' \in Seq(Report)
    BY <1>7 DEF OnProperty
  <2>2. Fold(Head(reports)) \in AnyPair
    BY <2>1 DEF Fold, Report, AnyPair
  <2>3. observed' = Fold(Head(reports)) /\ pushed' = observed'
        /\ (pushes' = pushes \/ pushes' = Append(pushes, Fold(Head(reports))))
    BY <1>7 DEF OnProperty
  <2> HIDE DEF Fold
  <2> PICK p \in AnyPair : p = Fold(Head(reports))
    BY <2>2
  <2>4. pushes' \in Seq(AnyPair)
    BY <2>3, SMTT(60)
  <2> QED BY <1>7, <2>1, <2>2, <2>3, <2>4 DEF OnProperty
<1>8. CASE UNCHANGED abvars
  BY <1>8 DEF abvars
<1> QED BY <1>1, <1>2, <1>3, <1>4, <1>5, <1>6, <1>7, <1>8 DEF ABNext

LEMMA NotifyStep ==
  ASSUME UiTyped, ReportsFollow, NEW e \in Ends, Notify(e)
  PROVE  ReportsFollow'
<1> DEFINE r == [end |-> e, point |-> loop[e]]
<1>1. /\ told' = [told EXCEPT ![e] = loop[e]] /\ reports' = Append(reports, r)
      /\ UNCHANGED observed
  BY DEF Notify, native
<1>2. r \in Report /\ told \in AnyPair /\ reports \in Seq(Report)
  BY DEF UiTyped, Report, AnyPair
<1>3. r.end = e /\ r.point = loop[e] /\ told'[e] = loop[e]
      /\ \A o \in Ends : o # e => told'[o] = told[o]
  BY <1>1, <1>2 DEF AnyPair
<1> HIDE DEF r
<1>4. /\ Len(reports) \in Nat
      /\ DOMAIN reports = 1..Len(reports) /\ DOMAIN reports' = 1..(Len(reports) + 1)
      /\ reports'[Len(reports) + 1] = r /\ \A n \in DOMAIN reports : reports'[n] = reports[n]
  BY <1>1, <1>2, AppendedOne
<1> SUFFICES ASSUME NEW o \in Ends PROVE IsTold(o)'
  BY DEF ReportsFollow
<1>5. IsTold(o)
  BY DEF ReportsFollow
<1>6. CASE o = e
  <2> PICK k : k = Len(reports) + 1
    OBVIOUS
  <2>1. k \in DOMAIN reports' /\ reports'[k].end = o /\ reports'[k].point = told'[o]
        /\ \A m \in DOMAIN reports' : m <= k
    BY <1>3, <1>4, <1>6
  <2> QED BY <2>1 DEF IsTold, Tells
<1>7. CASE o # e
  <2>1. \A m \in DOMAIN reports' : Tells(m, o)' <=> m \in DOMAIN reports /\ Tells(m, o)
    BY <1>3, <1>4, <1>7 DEF Tells
  <2>2. told'[o] = told[o] /\ observed'[o] = observed[o]
    BY <1>1, <1>3, <1>7
  <2>3. DOMAIN reports \subseteq DOMAIN reports'
    BY <1>4
  <2>4. CASE \A n \in DOMAIN reports : ~Tells(n, o)
    BY <1>5, <2>1, <2>2, <2>4 DEF IsTold
  <2>5. ASSUME NEW n \in DOMAIN reports, Tells(n, o), reports[n].point = told[o],
               \A m \in DOMAIN reports : Tells(m, o) => m <= n
        PROVE  IsTold(o)'
    <3>1. n \in DOMAIN reports' /\ Tells(n, o)' /\ reports'[n].point = told'[o]
      BY <1>4, <2>1, <2>2, <2>3, <2>5
    <3>2. \A m \in DOMAIN reports' : Tells(m, o)' => m <= n
      BY <2>1, <2>5
    <3> QED BY <3>1, <3>2 DEF IsTold
  <2> QED BY <1>5, <2>4, <2>5 DEF IsTold
<1> QED BY <1>6, <1>7

LEMMA ObservedStep ==
  ASSUME UiTyped, ReportsFollow, OnProperty
  PROVE  ReportsFollow'
<1>1. /\ reports # <<>> /\ reports' = Tail(reports) /\ Head(reports) = reports[1]
      /\ reports[1] \in Report /\ 1 \in DOMAIN reports
      /\ observed' = [observed EXCEPT ![reports[1].end] = reports[1].point]
      /\ UNCHANGED told
  <2>1. reports # <<>> /\ reports' = Tail(reports) /\ UNCHANGED told
        /\ observed' = Fold(Head(reports))
    BY DEF OnProperty, core
  <2>2. reports \in Seq(Report)
    BY DEF UiTyped
  <2>3. Head(reports) = reports[1] /\ reports[1] \in Report /\ 1 \in DOMAIN reports
    BY <2>1, <2>2
  <2> QED BY Zenon, <2>1, <2>3 DEF Fold
<1>2. /\ reports[1].end \in Ends /\ observed \in AnyPair
  BY <1>1 DEF Report, UiTyped
<1>3. /\ DOMAIN reports \subseteq Nat /\ DOMAIN reports' \subseteq Nat
      /\ \A n \in DOMAIN reports' : n + 1 \in DOMAIN reports /\ reports'[n] = reports[n + 1]
      /\ \A n \in DOMAIN reports : n = 1 \/ n - 1 \in DOMAIN reports'
      /\ \A n \in DOMAIN reports' : n # 0
  BY <1>1 DEF UiTyped
<1> SUFFICES ASSUME NEW o \in Ends PROVE IsTold(o)'
  BY DEF ReportsFollow
<1>4. IsTold(o)
  BY DEF ReportsFollow
<1>5. CASE \A n \in DOMAIN reports : ~Tells(n, o)
  <2>1. observed[o] = told[o] /\ reports[1].end # o
    BY <1>1, <1>4, <1>5 DEF IsTold, Tells
  <2>2. observed'[o] = told'[o]
    BY <1>1, <1>2, <2>1 DEF AnyPair
  <2>3. \A n \in DOMAIN reports' : ~Tells(n, o)'
    BY <1>3, <1>5 DEF Tells
  <2> QED BY <2>2, <2>3 DEF IsTold
<1>6. ASSUME NEW n \in DOMAIN reports, Tells(n, o), reports[n].point = told[o],
             \A m \in DOMAIN reports : Tells(m, o) => m <= n
      PROVE  IsTold(o)'
  <2>1. CASE n = 1
    <3>1. \A m \in DOMAIN reports' : ~Tells(m, o)'
      <4> SUFFICES ASSUME NEW m \in DOMAIN reports', Tells(m, o)' PROVE FALSE
        OBVIOUS
      <4>1. m + 1 \in DOMAIN reports /\ Tells(m + 1, o) /\ m \in Nat /\ m # 0
        BY <1>3 DEF Tells
      <4> QED BY <1>6, <2>1, <4>1
    <3>2. observed'[o] = told'[o]
      BY <1>1, <1>2, <1>6, <2>1 DEF AnyPair, Tells
    <3> QED BY <3>1, <3>2 DEF IsTold
  <2>2. CASE n # 1
    <3> PICK k : k = n - 1
      OBVIOUS
    <3>1. k \in DOMAIN reports' /\ k + 1 = n
      BY <1>3, <1>6, <2>2
    <3>2. Tells(k, o)' /\ reports'[k].point = told'[o]
      BY <1>1, <1>3, <1>6, <3>1 DEF Tells
    <3>3. \A m \in DOMAIN reports' : Tells(m, o)' => m <= k
      <4> SUFFICES ASSUME NEW m \in DOMAIN reports', Tells(m, o)' PROVE m <= k
        OBVIOUS
      <4>1. m + 1 \in DOMAIN reports /\ Tells(m + 1, o) /\ m \in Nat /\ k \in Nat
        BY <1>3, <3>1 DEF Tells
      <4> QED BY <1>6, <3>1, <4>1
    <3> QED BY <3>1, <3>2, <3>3 DEF IsTold
  <2> QED BY <2>1, <2>2
<1> QED BY <1>4, <1>5, <1>6 DEF IsTold

(* Where every report goes: nothing else moves what is observed or told.   *)
LEMMA ReportsStep ==
  ASSUME UiTyped, ReportsFollow, [ABNext]_abvars
  PROVE  ReportsFollow'
<1>1. ASSUME UNCHANGED <<reports, observed, told>> PROVE ReportsFollow'
  BY <1>1 DEF ReportsFollow, IsTold, Tells
<1>2. CASE UNCHANGED <<reports, native, core>>
  BY <1>1, <1>2 DEF native, core
<1>3. ASSUME NEW msg \in Messages, PageAsks(msg) PROVE ReportsFollow'
  BY <1>1, <1>3 DEF PageAsks, native, core
<1>4. CASE PageStops \/ PageDraws \/ HandleMessage
  BY <1>2, <1>4 DEF PageStops, PageDraws, HandleMessage
<1>5. CASE Execute
  BY <1>1, <1>5 DEF Execute, native
<1>6. CASE UNCHANGED abvars
  BY <1>2, <1>6 DEF abvars
<1> QED BY <1>3, <1>4, <1>5, <1>6, NotifyStep, ObservedStep DEF ABNext
-----------------------------------------------------------------------------
(* What keeps an end cleared while the queue moves. *)
LEMMA ClearedBehind ==
  ASSUME cmds \in Seq(CmdType), NEW new \in Seq(CmdType), cmds' = cmds \o new,
         UNCHANGED loop, \A n \in DOMAIN new : new[n].op # "cycle",
         NEW e \in Ends,
         EndCleared(e) \/ \E k \in DOMAIN new : new[k].op = "unset" /\ new[k].asked = e
  PROVE  EndCleared(e)'
<1>1. /\ Len(cmds) \in Nat /\ DOMAIN cmds = 1..Len(cmds)
      /\ \A n \in DOMAIN cmds : n \in DOMAIN cmds' /\ cmds'[n] = cmds[n]
      /\ \A n \in DOMAIN new : Len(cmds) + n \in DOMAIN cmds' /\ cmds'[Len(cmds) + n] = new[n]
      /\ \A n \in DOMAIN cmds' : n \in DOMAIN cmds \/ cmds'[n].op # "cycle"
  <2>1. /\ Len(cmds) \in Nat /\ DOMAIN cmds = 1..Len(cmds) /\ DOMAIN new = 1..Len(new)
        /\ Len(new) \in Nat /\ DOMAIN cmds' = 1..(Len(cmds) + Len(new))
    OBVIOUS
  <2>2. /\ \A n \in DOMAIN cmds : cmds'[n] = cmds[n]
        /\ \A n \in DOMAIN new : cmds'[Len(cmds) + n] = new[n]
    BY Queued
  <2>3. \A n \in DOMAIN cmds : n \in DOMAIN cmds'
    BY <2>1
  <2>4. \A n \in DOMAIN new : Len(cmds) + n \in DOMAIN cmds'
    BY <2>1
  <2>5. ASSUME NEW n \in DOMAIN cmds', n \notin DOMAIN cmds PROVE cmds'[n].op # "cycle"
    <3> PICK k : k = n - Len(cmds)
      OBVIOUS
    <3>1. k \in DOMAIN new /\ n = Len(cmds) + k
      BY <2>1, <2>5
    <3>2. cmds'[n] = new[k]
      BY Zenon, <2>2, <3>1
    <3> QED BY Zenon, <3>1, <3>2
  <2> QED BY Zenon, <2>1, <2>2, <2>3, <2>4, <2>5
<1>2. CASE EndCleared(e)
  <2>1. CASE loop[e] = No /\ \A n \in DOMAIN cmds : cmds[n].op # "cycle"
    <3>1. \A n \in DOMAIN cmds' : cmds'[n].op # "cycle"
      BY Zenon, <1>1, <2>1
    <3>2. loop'[e] = No
      BY Zenon, <2>1
    <3> QED BY Zenon, <3>1, <3>2 DEF EndCleared
  <2>2. ASSUME NEW n \in DOMAIN cmds, Unsets(n, e),
               \A m \in DOMAIN cmds : cmds[m].op = "cycle" => m < n
        PROVE  EndCleared(e)'
    <3>1. n \in DOMAIN cmds' /\ Unsets(n, e)'
      BY Zenon, <1>1, <2>2 DEF Unsets
    <3>2. \A m \in DOMAIN cmds' : cmds'[m].op = "cycle" => m < n
      BY Zenon, <1>1, <2>2
    <3> QED BY Zenon, <3>1, <3>2 DEF EndCleared
  <2> QED BY Zenon, <1>2, <2>1, <2>2 DEF EndCleared
<1>3. ASSUME NEW k \in DOMAIN new, new[k].op = "unset", new[k].asked = e
      PROVE  EndCleared(e)'
  <2> PICK n : n = Len(cmds) + k
    OBVIOUS
  <2>1. n \in DOMAIN cmds' /\ Unsets(n, e)'
    BY Zenon, <1>1, <1>3 DEF Unsets
  <2>2. k \in Nat /\ k > 0
    OBVIOUS
  <2>3. \A m \in DOMAIN cmds : m < n
    BY <1>1, <2>2
  <2>4. \A m \in DOMAIN cmds' : cmds'[m].op = "cycle" => m < n
    BY Zenon, <1>1, <2>3
  <2> QED BY Zenon, <2>1, <2>4 DEF EndCleared
<1> QED BY Zenon, <1>2, <1>3

LEMMA ClearedExecuted ==
  ASSUME UiTyped, Execute, NEW e \in Ends, EndCleared(e)
  PROVE  EndCleared(e)'
<1>1. cmds \in Seq(CmdType) /\ cmds # <<>> /\ cmds' = Tail(cmds)
  BY DEF Execute, UiTyped
<1>2. /\ Head(cmds) = cmds[1] /\ 1 \in DOMAIN cmds /\ cmds[1] \in CmdType
      /\ DOMAIN cmds \subseteq Nat /\ DOMAIN cmds' \subseteq Nat
      /\ \A n \in DOMAIN cmds' : n + 1 \in DOMAIN cmds /\ cmds'[n] = cmds[n + 1] /\ n # 0
      /\ \A n \in DOMAIN cmds : n = 1 \/ n - 1 \in DOMAIN cmds'
  BY <1>1
<1>3. /\ cmds[1].op = "unset" => loop' = [loop EXCEPT ![cmds[1].asked] = No]
      /\ cmds[1].op = "loadfile" => loop' = loop
  BY <1>2 DEF Execute
<1>4. cmds[1].op \in {"cycle", "unset", "loadfile"} /\ loop \in AnyPair
  BY <1>2 DEF CmdType, UiTyped
<1>5. CASE loop[e] = No /\ \A n \in DOMAIN cmds : cmds[n].op # "cycle"
  <2>1. loop'[e] = No
    BY <1>2, <1>3, <1>4, <1>5 DEF AnyPair
  <2>2. \A n \in DOMAIN cmds' : cmds'[n].op # "cycle"
    BY <1>2, <1>5
  <2> QED BY <2>1, <2>2 DEF EndCleared
<1>6. ASSUME NEW n \in DOMAIN cmds, Unsets(n, e),
             \A m \in DOMAIN cmds : cmds[m].op = "cycle" => m < n
      PROVE  EndCleared(e)'
  <2>1. CASE n = 1
    <3>1. loop'[e] = No
      BY <1>3, <1>4, <1>6, <2>1 DEF AnyPair, Unsets
    <3>2. ASSUME NEW m \in DOMAIN cmds', cmds'[m].op = "cycle" PROVE FALSE
      <4>1. m + 1 \in DOMAIN cmds /\ cmds[m + 1].op = "cycle" /\ m \in Nat
        BY <1>2, <3>2
      <4> QED BY <1>6, <2>1, <4>1
    <3> QED BY <3>1, <3>2 DEF EndCleared
  <2>2. CASE n # 1
    <3> PICK k : k = n - 1
      OBVIOUS
    <3>1. k \in DOMAIN cmds' /\ k + 1 = n /\ k \in Nat
      BY <1>2, <1>6, <2>2
    <3>2. Unsets(k, e)'
      BY <1>2, <1>6, <3>1 DEF Unsets
    <3>3. ASSUME NEW m \in DOMAIN cmds', cmds'[m].op = "cycle" PROVE m < k
      <4>1. m + 1 \in DOMAIN cmds /\ cmds[m + 1].op = "cycle" /\ m \in Nat
        BY <1>2, <3>3
      <4> QED BY <1>6, <3>1, <4>1
    <3> QED BY <3>1, <3>2, <3>3 DEF EndCleared
  <2> QED BY <2>1, <2>2
<1> QED BY <1>5, <1>6 DEF EndCleared

(* What a load queues unsets both ends, and neither it nor a clear sets one. *)
LEMMA Unsetting ==
  /\ \A n \in DOMAIN ClearPair : ClearPair[n].op # "cycle"
  /\ \A n \in DOMAIN LoadCommands(TRUE) : LoadCommands(TRUE)[n].op # "cycle"
  /\ \A e \in Ends : \E n \in DOMAIN LoadCommands(TRUE) :
       LoadCommands(TRUE)[n].op = "unset" /\ LoadCommands(TRUE)[n].asked = e
<1>1. \A n \in DOMAIN ClearPair : ClearPair[n].op # "cycle"
  BY DEF ClearPair, Cmd
<1>2. PICK s : s = LoadCommands(TRUE)
  OBVIOUS
<1>3. s = <<Cmd("unset", "a"), Cmd("unset", "b"), Cmd("loadfile", "a")>>
  <2>1. Cmd("unset", "a") \in CmdType /\ Cmd("unset", "b") \in CmdType
        /\ Cmd("loadfile", "a") \in CmdType
    BY DEF Cmd, CmdType, Ends
  <2> QED BY <1>2, <2>1, ShortSeqs DEF LoadCommands, ClearPair
<1>4. \A n \in DOMAIN s : s[n].op # "cycle"
  BY <1>3 DEF Cmd
<1>5. 1 \in DOMAIN s /\ s[1].op = "unset" /\ s[1].asked = "a"
      /\ 2 \in DOMAIN s /\ s[2].op = "unset" /\ s[2].asked = "b"
  BY <1>3 DEF Cmd
<1>6. \A e \in Ends : \E n \in DOMAIN s : s[n].op = "unset" /\ s[n].asked = e
  BY <1>5 DEF Ends
<1> QED BY Zenon, <1>1, <1>2, <1>4, <1>6

LEMMA ForgivenHandled ==
  ASSUME UiTyped, PageForgot, HandleMessage
  PROVE  Forgiven'
<1>1. /\ ipc \in Seq(Messages) /\ ipc # <<>> /\ ipc' = Tail(ipc) /\ Head(ipc) = ipc[1]
      /\ cmds \in Seq(CmdType) /\ observed # Unset /\ UNCHANGED <<loop, viewing>>
  BY DEF HandleMessage, UiTyped, PageForgot, core
<1>2. /\ 1 \in DOMAIN ipc /\ DOMAIN ipc \subseteq Nat /\ DOMAIN ipc' \subseteq Nat
      /\ \A n \in DOMAIN ipc' : n + 1 \in DOMAIN ipc /\ ipc'[n] = ipc[n + 1] /\ n # 0
      /\ \A n \in DOMAIN ipc : n = 1 \/ n - 1 \in DOMAIN ipc'
  BY <1>1
<1>3. PICK new \in Seq(CmdType) :
           /\ cmds' = cmds \o new
           /\ \/ new = ClearPair /\ Head(ipc) # "load"
              \/ new = <<>> /\ Head(ipc) # "load"
              \/ \E e \in Ends : /\ new = <<Cmd("cycle", e)>>
                                 /\ Head(ipc) # "load"
                                 /\ Head(ipc) = "set-b" \/ observed = Unset
              \/ new = LoadCommands(TRUE)
  BY <1>1, Handled
<1>4. ipc[1] # "set-b" => \A n \in DOMAIN new : new[n].op # "cycle"
  <2>1. CASE new = <<>>
    BY <2>1
  <2>2. CASE new = ClearPair \/ new = LoadCommands(TRUE)
    BY Zenon, <2>2, Unsetting
  <2>3. CASE Head(ipc) = "set-b" \/ observed = Unset
    BY Zenon, <1>1, <2>3
  <2> QED BY Zenon, <1>3, <2>1, <2>2, <2>3
<1>5. ASSUME ipc[1] = "load", NEW e \in Ends PROVE EndCleared(e)'
  <2>1. new = LoadCommands(TRUE)
    BY Zenon, <1>1, <1>3, <1>5
  <2>2. /\ \A n \in DOMAIN new : new[n].op # "cycle"
        /\ \E n \in DOMAIN new : new[n].op = "unset" /\ new[n].asked = e
    BY Zenon, <2>1, Unsetting
  <2> QED BY Zenon, <1>1, <1>3, <2>2, ClearedBehind
<1>6. CASE ~viewing
  BY <1>1, <1>6 DEF Forgiven
<1>7. ASSUME NEW n \in DOMAIN ipc, ipc[n] = "load",
             \A m \in DOMAIN ipc : ipc[m] = "set-b" => m < n
      PROVE  Forgiven'
  <2>1. CASE n = 1
    <3>1. ASSUME NEW m \in DOMAIN ipc', ipc'[m] = "set-b" PROVE FALSE
      <4>1. m + 1 \in DOMAIN ipc /\ ipc[m + 1] = "set-b" /\ m \in Nat
        BY <1>2, <3>1
      <4> QED BY <1>7, <2>1, <4>1
    <3> QED BY Zenon, <1>5, <1>7, <2>1, <3>1 DEF Forgiven
  <2>2. CASE n # 1
    <3> PICK k : k = n - 1
      OBVIOUS
    <3>1. k \in DOMAIN ipc' /\ k + 1 = n /\ k \in Nat
      BY <1>2, <1>7, <2>2
    <3>2. ipc'[k] = "load"
      BY <1>2, <1>7, <3>1
    <3>3. ASSUME NEW m \in DOMAIN ipc', ipc'[m] = "set-b" PROVE m < k
      <4>1. m + 1 \in DOMAIN ipc /\ ipc[m + 1] = "set-b" /\ m \in Nat
        BY <1>2, <3>3
      <4> QED BY <1>7, <3>1, <4>1
    <3> QED BY <3>1, <3>2, <3>3 DEF Forgiven, LoadAhead
  <2> QED BY <2>1, <2>2
<1>8. ASSUME \A n \in DOMAIN ipc : ipc[n] # "set-b", \A e \in Ends : EndCleared(e)
      PROVE  Forgiven'
  <2>1. \A n \in DOMAIN ipc' : ipc'[n] # "set-b"
    BY <1>2, <1>8
  <2>2. \A n \in DOMAIN new : new[n].op # "cycle"
    BY Zenon, <1>2, <1>4, <1>8
  <2>3. ASSUME NEW e \in Ends PROVE EndCleared(e)'
    BY Zenon, <1>1, <1>3, <1>8, <2>2, ClearedBehind
  <2> QED BY Zenon, <2>1, <2>3 DEF Forgiven
<1> QED BY Zenon, <1>6, <1>7, <1>8 DEF PageForgot, Forgiven, LoadAhead

LEMMA ForgivenAsks ==
  ASSUME UiTyped, PageForgot, NEW msg \in Messages, PageAsks(msg)
  PROVE  Forgiven'
<1>1. ipc \in Seq(Messages) /\ ipc' = Append(ipc, msg) /\ UNCHANGED <<cmds, loop>>
      /\ (viewing' => viewing \/ msg = "load")
  BY DEF PageAsks, UiTyped, core
<1>2. msg # "set-b"
  BY DEF PageAsks, MayAsk, PageForgot, Unset, Ends
<1>3. /\ Len(ipc) \in Nat
      /\ DOMAIN ipc = 1..Len(ipc) /\ DOMAIN ipc' = 1..(Len(ipc) + 1)
      /\ ipc'[Len(ipc) + 1] = msg /\ \A n \in DOMAIN ipc : ipc'[n] = ipc[n]
  BY <1>1, AppendedOne
<1>4. \A m \in DOMAIN ipc' : ipc'[m] = "set-b" => m \in DOMAIN ipc /\ ipc[m] = "set-b"
  BY <1>2, <1>3
<1>5. CASE msg = "load"
  <2> PICK k : k = Len(ipc) + 1
    OBVIOUS
  <2>1. k \in DOMAIN ipc' /\ ipc'[k] = "load" /\ \A m \in DOMAIN ipc : m < k
    BY <1>3, <1>5
  <2> QED BY <1>4, <2>1 DEF Forgiven, LoadAhead
<1>6. CASE msg # "load" /\ ~viewing
  BY <1>1, <1>6 DEF Forgiven
<1>7. CASE LoadAhead
  <2>1. DOMAIN ipc \subseteq DOMAIN ipc'
    BY <1>3
  <2> QED BY <1>3, <1>4, <1>7, <2>1 DEF Forgiven, LoadAhead
<1>8. ASSUME \A n \in DOMAIN ipc : ipc[n] # "set-b", \A e \in Ends : EndCleared(e)
      PROVE  Forgiven'
  <2>1. \A e \in Ends : EndCleared(e)'
    BY <1>1, <1>8 DEF EndCleared, Unsets
  <2>2. \A n \in DOMAIN ipc' : ipc'[n] # "set-b"
    BY <1>4, <1>8
  <2> QED BY Zenon, <2>1, <2>2 DEF Forgiven
<1> QED BY Zenon, <1>5, <1>6, <1>7, <1>8 DEF PageForgot, Forgiven

LEMMA ForgotStep ==
  ASSUME UiTyped, PageForgot, [ABNext]_abvars
  PROVE  (PageFollows \/ PageForgot)'
<1> USE DEF core, native
<1>0. pushes = <<>> /\ ui = Unset /\ pushed # Unset /\ Forgiven
  BY DEF PageForgot
<1>1. ASSUME UNCHANGED <<ui, pushed, pushes>>, Forgiven' PROVE PageForgot'
  BY <1>0, <1>1 DEF PageForgot, Unset
<1>2. ASSUME UNCHANGED <<viewing, ipc, cmds, loop>> PROVE Forgiven'
  BY <1>0, <1>2 DEF Forgiven, LoadAhead, EndCleared, Unsets
<1>3. ASSUME NEW msg \in Messages, PageAsks(msg) PROVE PageForgot'
  BY <1>1, <1>3, ForgivenAsks DEF PageAsks
<1>4. CASE PageStops
  BY <1>0, <1>4 DEF PageStops, PageForgot, Forgiven, Unset
<1>5. CASE PageDraws
  BY <1>0, <1>5 DEF PageDraws
<1>6. CASE HandleMessage
  BY <1>1, <1>6, ForgivenHandled DEF HandleMessage
<1>7. CASE Execute
  <2>1. UNCHANGED <<ui, pushed, pushes, viewing, ipc>>
    BY <1>7 DEF Execute
  <2>2. \A e \in Ends : EndCleared(e) => EndCleared(e)'
    BY <1>7, ClearedExecuted
  <2>3. Forgiven'
    BY <1>0, <2>1, <2>2 DEF Forgiven, LoadAhead
  <2> QED BY <1>1, <2>1, <2>3
<1>8. CASE \E e \in Ends : Notify(e)
  BY <1>1, <1>2, <1>8 DEF Notify
<1>9. CASE OnProperty
  <2>1. UNCHANGED <<ui, viewing, ipc, cmds, loop>>
    BY <1>9 DEF OnProperty
  <2>2. CASE UNCHANGED <<pushed, pushes>>
    BY <1>1, <1>2, <2>1, <2>2
  <2>3. CASE pushes' = Append(pushes, pushed')
    <3>1. pushes' = <<pushed'>>
      BY <1>0, <2>3
    <3> QED BY <3>1 DEF PageFollows
  <2> QED BY <1>9, <2>2, <2>3 DEF OnProperty
<1>10. CASE UNCHANGED abvars
  BY <1>1, <1>2, <1>10 DEF abvars
<1> QED BY <1>3, <1>4, <1>5, <1>6, <1>7, <1>8, <1>9, <1>10 DEF ABNext

LEMMA FollowsStep ==
  ASSUME UiTyped, PageFollows, [ABNext]_abvars
  PROVE  (PageFollows \/ PageForgot)'
<1> USE DEF core, native
<1>1. ASSUME UNCHANGED <<ui, pushed, pushes>> PROVE PageFollows'
  BY <1>1 DEF PageFollows
<1>2. CASE PageStops
  <2>1. CASE pushes = <<>>
    BY <1>2, <2>1 DEF PageStops, PageFollows, PageForgot, Forgiven, Unset
  <2>2. CASE pushes # <<>>
    BY <1>2, <2>2 DEF PageStops, PageFollows
  <2> QED BY <2>1, <2>2
<1>3. CASE PageDraws
  <2>1. /\ pushes # <<>> /\ pushes \in Seq(AnyPair) /\ pushes' = Tail(pushes)
        /\ ui' = Head(pushes) /\ UNCHANGED pushed
    BY <1>3 DEF PageDraws, UiTyped
  <2>2. pushes[Len(pushes)] = pushed
    BY <2>1 DEF PageFollows
  <2>3. CASE pushes' = <<>>
    <3>1. Len(pushes) = 1 /\ Head(pushes) = pushes[1]
      <4>1. Len(Tail(pushes)) = Len(pushes) - 1 /\ Len(pushes) \in Nat
            /\ Head(pushes) = pushes[1]
        BY <2>1
      <4>2. Len(Tail(pushes)) = 0
        <5>1. Len(<<>>) = 0
          OBVIOUS
        <5>2. Tail(pushes) = <<>>
          BY Zenon, <2>1, <2>3
        <5> QED BY Zenon, <5>1, <5>2
      <4> QED BY <4>1, <4>2
    <3> QED BY <2>1, <2>2, <2>3, <3>1 DEF PageFollows
  <2>4. CASE pushes' # <<>>
    <3>1. pushes'[Len(pushes')] = pushes[Len(pushes)]
      BY <2>1, <2>4
    <3> QED BY <2>1, <2>2, <2>4, <3>1 DEF PageFollows
  <2> QED BY <2>3, <2>4
<1>4. CASE OnProperty
  <2>1. CASE UNCHANGED <<pushed, pushes>>
    BY <1>1, <1>4, <2>1 DEF OnProperty
  <2>2. CASE pushes' = Append(pushes, pushed')
    <3>1. pushes \in Seq(AnyPair) /\ pushed' \in AnyPair
      BY UiTypedStep DEF UiTyped
    <3> PICK p \in AnyPair : p = pushed'
      BY <3>1
    <3>2. pushes' # <<>> /\ Len(pushes') = Len(pushes) + 1 /\ pushes'[Len(pushes) + 1] = p
      BY <2>2, <3>1, AppendedOne
    <3> QED BY <3>2 DEF PageFollows
  <2> QED BY <1>4, <2>1, <2>2 DEF OnProperty
<1>5. CASE \E msg \in Messages : PageAsks(msg)
  BY <1>1, <1>5 DEF PageAsks
<1>6. CASE HandleMessage \/ Execute \/ \E e \in Ends : Notify(e)
  BY <1>1, <1>6 DEF HandleMessage, Execute, Notify
<1>7. CASE UNCHANGED abvars
  BY <1>1, <1>7 DEF abvars
<1> QED BY <1>2, <1>3, <1>4, <1>5, <1>6, <1>7 DEF ABNext

(* When nothing is in flight the page of a playing item draws the pair mpv *)
(* loops over (ab_loop.rs on_property, ab-loop.js applyPush and            *)
(* handleStop), whatever was dropped, coalesced or forgotten before.       *)
THEOREM PageDrawsTheLoop == ABSpec => []UiAgreesWhenSettled
<1>1. UiInv /\ [ABNext]_abvars => UiInv'
  BY UiTypedStep, ReportsStep, ForgotStep, FollowsStep DEF UiInv
<1>2. UiInv => UiAgreesWhenSettled
  <2> SUFFICES ASSUME UiInv, Settled, viewing PROVE ui = loop
    BY DEF UiAgreesWhenSettled
  <2>1. /\ ipc = <<>> /\ cmds = <<>> /\ told = loop /\ reports = <<>> /\ pushes = <<>>
        /\ DOMAIN ipc = {} /\ DOMAIN cmds = {} /\ DOMAIN reports = {}
    BY DEF Settled
  <2>2. loop \in AnyPair /\ observed \in AnyPair /\ pushed = observed
    BY DEF UiInv, UiTyped
  <2>3. CASE PageFollows
    <3>1. \A e \in Ends : observed[e] = told[e]
      BY <2>1 DEF UiInv, ReportsFollow, IsTold
    <3>2. observed = loop
      BY <2>1, <2>2, <3>1 DEF AnyPair
    <3> QED BY <2>1, <2>2, <2>3, <3>2 DEF PageFollows
  <2>4. CASE PageForgot
    <3>1. ~LoadAhead
      BY <2>1 DEF LoadAhead
    <3>2. \A e \in Ends : loop[e] = No
      BY <2>1, <2>4, <3>1 DEF PageForgot, Forgiven, EndCleared
    <3> QED BY <2>2, <2>4, <3>2 DEF PageForgot, Unset, AnyPair
  <2> QED BY <2>3, <2>4 DEF UiInv
<1> QED BY UiInit, <1>1, <1>2, PTL DEF ABSpec
-----------------------------------------------------------------------------
(* The upscaling presets: VideoMode *)

Request == [op : {"read", "write"}, prop : Props, value : Values]

VideoTyped ==
  /\ selected \in Modes /\ mode \in Modes
  /\ memo \in Applied /\ next \in Applied /\ vm_refused \in Applied
  /\ vm_queue \in Seq(Request) /\ running \in [Props -> Values]

(* The reads are ahead of every write, and see what the config file had.   *)
ReadsFirst ==
  \A n \in DOMAIN vm_queue : vm_queue[n].op = "read" =>
    running = Conf /\ \A m \in DOMAIN vm_queue : m <= n => vm_queue[m].op = "read"

Reply == [op : {"read"}, prop : Props, value : {"conf", NoString}]
BaselineValues == {Unread, "conf", ""}
RepliesAreConf ==
  /\ replies \in Seq(Reply)
  /\ baseline \in [Props -> BaselineValues]

(* What is blank in a reply, or in the baseline, mpv had no string for.    *)
BlanksAreMpvs ==
  /\ \A n \in DOMAIN replies : replies[n].value = NoString => replies[n].prop \in vm_blank
  /\ \A p \in Props : baseline[p] = "" => p \in vm_blank

(* Nothing was asked of mpv before the boot. *)
Booting == pc = "boot" => vm_queue = <<>> /\ running = Conf /\ memo = NoMemo

(* What the applier has assembled fits the mode it has taken.              *)
Assembled ==
  /\ selected # "auto" => mode = selected
  /\ pc # "boot" => next["glsl-shaders"] = ChainOf(mode)
  /\ pc \in {"dscale", "write", "idle"} => next["scale"] \in ScalersOf(mode)
  /\ pc \in {"write", "idle"} => next["dscale"] \in ScalersOf(mode)

VideoInv == VideoTyped /\ ReadsFirst /\ RepliesAreConf /\ Booting /\ Assembled

(* Unless a write was refused since the last apply that was taken whole,   *)
(* the memo tells what mpv will run, and after an apply it is its record;  *)
(* what was refused is not what the memo holds.                            *)
MemoIsRun ==
  /\ vm_refused = NoMemo /\ memo # NoMemo => \A p \in Props : WillRun(p, memo[p])
  /\ vm_refused = NoMemo /\ pc = "idle" => memo = next
  /\ vm_refused # NoMemo => memo # vm_refused

MemoInv == VideoInv /\ MemoIsRun

LEMMA Requests ==
  ASSUME NEW S, NEW a \in Seq(S), NEW b \in Seq(S), NEW c \in Seq(S)
  PROVE  a \o b \o c \in Seq(S) /\ <<>> \in Seq(S) /\ \A s \in S : <<s>> \in Seq(S)
<1>1. <<>> \in Seq(S) /\ \A s \in S : <<s>> \in Seq(S)
  OBVIOUS
<1>2. a \o b \in Seq(S)
  OBVIOUS
<1> QED BY <1>1, <1>2

(* What a queue is with three requests behind it.                          *)
Behind(s, t, q) ==
  /\ Len(s) \in Nat /\ DOMAIN s = 1..Len(s) /\ DOMAIN q = 1..(Len(s) + Len(t))
  /\ \A n \in DOMAIN t : q[Len(s) + n] = t[n]

LEMMA QueuedBehind ==
  ASSUME NEW S, NEW s \in Seq(S), NEW t \in Seq(S), NEW q, q = s \o t
  PROVE  DOMAIN t = 1..Len(t) /\ Behind(s, t, q)
BY Queued DEF Behind

LEMMA ThreeWrites ==
  ASSUME NEW S, NEW a \in S, NEW b \in S, NEW c \in S
  PROVE  /\ <<a>> \o <<b>> \o <<c>> \in Seq(S) /\ Len(<<a>> \o <<b>> \o <<c>>) = 3
         /\ (<<a>> \o <<b>> \o <<c>>)[1] = a /\ (<<a>> \o <<b>> \o <<c>>)[2] = b
         /\ (<<a>> \o <<b>> \o <<c>>)[3] = c
<1>1. \A x \in S : <<x>> \in Seq(S) /\ Len(<<x>>) = 1 /\ DOMAIN <<x>> = {1} /\ <<x>>[1] = x
  OBVIOUS
<1> DEFINE s == <<a>> \o <<b>>
<1>2. s \in Seq(S) /\ Len(s) = 2 /\ s[1] = a /\ s[2] = b
  BY <1>1, Queued
<1> HIDE DEF s
<1>3. DOMAIN s = 1..2
  BY <1>2
<1>4. /\ s \o <<c>> \in Seq(S) /\ Len(s \o <<c>>) = 3
      /\ (s \o <<c>>)[1] = s[1] /\ (s \o <<c>>)[2] = s[2] /\ (s \o <<c>>)[3] = c
  <2>1. <<c>> \in Seq(S) /\ Len(<<c>>) = 1 /\ 1 \in DOMAIN <<c>> /\ <<c>>[1] = c
    BY <1>1
  <2>2. 1 \in DOMAIN s /\ 2 \in DOMAIN s /\ 3 = Len(s) + 1
    BY <1>2, <1>3
  <2> QED BY <1>2, <2>1, <2>2, Queued
<1> QED BY <1>2, <1>4 DEF s

LEMMA VideoInitInv == VMInit => MemoInv
<1> SUFFICES ASSUME VMInit PROVE MemoInv
  OBVIOUS
<1> USE DEF VMInit
<1>1. \A S : <<>> \in Seq(S)
  OBVIOUS
<1>2. VideoTyped
  BY <1>1 DEF VideoTyped, Modes, NoMemo, Applied, Conf, Values
<1>3. RepliesAreConf
  BY <1>1 DEF RepliesAreConf, NoMemo, BaselineValues
<1>4. DOMAIN vm_queue = {}
  OBVIOUS
<1> QED BY <1>2, <1>3, <1>4 DEF MemoInv, VideoInv, ReadsFirst, Booting, Assembled, MemoIsRun

(* Whatever libmpv refuses, what is left of a batch of requests is reads   *)
(* or writes.                                                              *)
LEMMA RequestBatches ==
  ASSUME NEW refused
  PROVE  /\ BaselineReads(refused) \in Seq({r \in Request : r.op = "read"})
         /\ \A a \in [Props -> Values] :
              Writes(a, refused) \in Seq({r \in Request : r.op = "write"})
<1> DEFINE R == {r \in Request : r.op = "read"}
           W == {r \in Request : r.op = "write"}
<1>1. \A p \in Props : Read(p) \in R
  BY DEF Read, Request, Values
<1>2. \A p \in Props, v \in Values : Write(p, v) \in W
  BY DEF Write, Request
<1> HIDE DEF R, W
<1>3. \A p \in Props : Offered(Read(p), refused) \in Seq(R)
  BY <1>1, Requests DEF Offered
<1>4. \A p \in Props, v \in Values : Offered(Write(p, v), refused) \in Seq(W)
  BY <1>2, Requests DEF Offered
<1>5. "glsl-shaders" \in Props /\ "scale" \in Props /\ "dscale" \in Props
  BY DEF Props
<1>6. BaselineReads(refused) \in Seq(R)
  BY <1>3, <1>5, Requests DEF BaselineReads
<1>7. ASSUME NEW a \in [Props -> Values] PROVE Writes(a, refused) \in Seq(W)
  <2>1. a["glsl-shaders"] \in Values /\ a["scale"] \in Values /\ a["dscale"] \in Values
    BY <1>5
  <2> QED BY <1>4, <1>5, <2>1, Requests DEF Writes
<1> QED BY <1>6, <1>7 DEF R, W

LEMMA Assembles ==
  ASSUME VideoInv
  PROVE  /\ \A m \in Modes : ChainOf(m) \in Values /\ ScalersOf(m) \in SUBSET Values
         /\ \A p \in Props : Scaler(mode, p) \in ScalersOf(mode)
         /\ pc \in {"write", "idle"} => next \in [Props -> Values]
<1>1. ASSUME NEW m \in Modes PROVE ChainOf(m) \in Values /\ ScalersOf(m) \in SUBSET Values
  BY DEF ChainOf, ScalersOf, Values
<1>2. ASSUME NEW p \in Props PROVE Scaler(mode, p) \in ScalersOf(mode)
  <2>1. baseline[p] \in {Unread, "conf", ""}
    BY DEF VideoInv, RepliesAreConf, BaselineValues
  <2>2. CASE Effective(mode) = "animation"
    BY <2>1, <2>2 DEF Scaler, ScalersOf
  <2>3. CASE Effective(mode) = "off"
    BY <2>3 DEF Scaler, ScalersOf
  <2>4. CASE Effective(mode) \notin {"animation", "off"}
    BY <2>4 DEF Scaler, ScalersOf
  <2> QED BY <2>2, <2>3, <2>4
<1>3. ASSUME pc \in {"write", "idle"} PROVE next \in [Props -> Values]
  <2>1. next \in Applied /\ mode \in Modes
    BY DEF VideoInv, VideoTyped
  <2>2. /\ next["glsl-shaders"] = ChainOf(mode) /\ next["scale"] \in ScalersOf(mode)
        /\ next["dscale"] \in ScalersOf(mode)
    BY <1>3 DEF VideoInv, Assembled
  <2>3. \A p \in Props : next[p] \in Values
    BY <1>1, <2>1, <2>2 DEF Props
  <2> QED BY <2>1, <2>3 DEF Applied
<1> QED BY <1>1, <1>2, <1>3

(* Taking up a mode, with the queue as it is or with the reads of the boot. *)
LEMMA BeginStep ==
  ASSUME VideoInv, NEW m \in Modes, Begin(m), selected' \in Modes,
         selected' # "auto" => selected' = m,
         vm_queue' = vm_queue \/ \E refused : vm_queue' = BaselineReads(refused) /\ pc = "boot"
  PROVE  VideoInv'
<1> USE DEF VideoInv, VideoTyped, ReadsFirst, RepliesAreConf, Booting, Assembled, Begin
<1>1. next' \in Applied /\ next'["glsl-shaders"] = ChainOf(m) /\ mode' = m /\ pc' = "scale"
  <2>1. ChainOf(m) \in Values
    BY Assembles
  <2>2. NoMemo \in Applied /\ "glsl-shaders" \in Props
    BY DEF NoMemo, Applied, Props
  <2> QED BY <2>1, <2>2 DEF Applied
<1>2. CASE vm_queue' = vm_queue
  BY <1>1, <1>2
<1>3. ASSUME NEW refused, vm_queue' = BaselineReads(refused), pc = "boot" PROVE VideoInv'
  <2>1. vm_queue' \in Seq({r \in Request : r.op = "read"})
    BY <1>3, RequestBatches
  <2>2. vm_queue' \in Seq(Request) /\ \A n \in DOMAIN vm_queue' : vm_queue'[n].op = "read"
    BY <2>1
  <2>3. running' = Conf
    BY <1>3
  <2> QED BY <1>1, <2>2, <2>3
<1> QED BY <1>2, <1>3

LEMMA WriteStep ==
  ASSUME VideoInv, WriteAll
  PROVE  VideoInv'
<1> USE DEF VideoInv, VideoTyped, RepliesAreConf, Booting, Assembled
<1>1. PICK refused : /\ vm_queue' = vm_queue \o Writes(next, refused)
                     /\ memo' = IF refused = {} THEN next ELSE memo
                     /\ vm_refused' = IF refused = {} THEN NoMemo ELSE next
  BY DEF WriteAll, Latch
<1>2. pc = "write" /\ pc' = "idle"
      /\ UNCHANGED <<selected, mode, baseline, running, replies, next, vm_blank>>
  BY DEF WriteAll
<1>3. PICK t : t = Writes(next, refused)
  OBVIOUS
<1>4. t \in Seq({r \in Request : r.op = "write"})
  BY <1>2, <1>3, Assembles, RequestBatches
<1>5. t \in Seq(Request) /\ \A n \in DOMAIN t : t[n].op = "write"
  BY <1>4
<1>6. /\ vm_queue' \in Seq(Request) /\ DOMAIN vm_queue \subseteq DOMAIN vm_queue'
      /\ \A n \in DOMAIN vm_queue : vm_queue'[n] = vm_queue[n]
      /\ \A n \in DOMAIN vm_queue' : n \in DOMAIN vm_queue \/ vm_queue'[n].op = "write"
      /\ \A n \in DOMAIN vm_queue, m \in DOMAIN vm_queue' : m <= n => m \in DOMAIN vm_queue
  <2> PICK r : r = vm_queue \o t
    OBVIOUS
  <2>1. /\ r \in Seq(Request) /\ Len(vm_queue) \in Nat /\ Len(t) \in Nat
        /\ DOMAIN vm_queue = 1..Len(vm_queue) /\ DOMAIN r = 1..(Len(vm_queue) + Len(t))
        /\ \A n \in DOMAIN vm_queue : r[n] = vm_queue[n]
        /\ \A n \in DOMAIN t : r[Len(vm_queue) + n] = t[n]
        /\ \A n \in DOMAIN r : n \in DOMAIN vm_queue \/ n - Len(vm_queue) \in DOMAIN t
    BY <1>5, Queued
  <2>2. \A n \in DOMAIN r : n \in DOMAIN vm_queue \/ r[n].op = "write"
    <3> SUFFICES ASSUME NEW n \in DOMAIN r, n \notin DOMAIN vm_queue PROVE r[n].op = "write"
      OBVIOUS
    <3>1. n - Len(vm_queue) \in DOMAIN t /\ n = Len(vm_queue) + (n - Len(vm_queue))
      BY <2>1
    <3>2. r[n] = t[n - Len(vm_queue)]
      BY <2>1, <3>1
    <3> QED BY <1>5, <3>1, <3>2
  <2>3. vm_queue' = r
    BY <1>1, <1>3
  <2> QED BY <2>1, <2>2, <2>3
<1>7. ReadsFirst'
  BY <1>2, <1>6 DEF ReadsFirst
<1>8. memo' \in Applied /\ vm_refused' \in Applied
  BY <1>1 DEF NoMemo, Applied
<1> QED BY <1>2, <1>6, <1>7, <1>8

LEMMA ServeStep ==
  ASSUME VideoInv, Serve
  PROVE  VideoInv'
<1> USE DEF VideoInv, VideoTyped, RepliesAreConf, Booting, Assembled, state
<1>1. /\ vm_queue # <<>> /\ vm_queue' = Tail(vm_queue) /\ Head(vm_queue) = vm_queue[1]
      /\ UNCHANGED <<selected, mode, baseline, memo, pc, booted, next, vm_refused>>
  BY Served DEF Serve
<1>2. /\ Tail(vm_queue) \in Seq(Request) /\ 1 \in DOMAIN vm_queue
      /\ DOMAIN vm_queue \subseteq Nat /\ DOMAIN vm_queue' \subseteq Nat
      /\ \A n \in DOMAIN vm_queue' : n + 1 \in DOMAIN vm_queue /\ vm_queue'[n] = vm_queue[n + 1]
  BY <1>1, Served
<1>0. vm_queue[1] \in Request
  <2>1. vm_queue \in Seq(Request)
    OBVIOUS
  <2> QED BY <1>2, <2>1
<1>3. PICK r \in Request : r = vm_queue[1] /\ r.op \in {"read", "write"} /\ r.prop \in Props
                          /\ r.value \in Values
  <2>1. \A q \in Request : q.op \in {"read", "write"} /\ q.prop \in Props /\ q.value \in Values
    BY DEF Request
  <2> QED BY <1>0, <2>1
<1>4. CASE r.op = "read"
  <2>1. PICK answer \in {running[r.prop], NoString} :
          /\ replies' = Append(replies, [r EXCEPT !.value = answer])
          /\ UNCHANGED running
    BY <1>1, <1>3, <1>4 DEF Serve
  <2>2. running = Conf
    BY <1>2, <1>3, <1>4 DEF ReadsFirst
  <2> PICK reply : reply = [r EXCEPT !.value = answer]
    OBVIOUS
  <2>3. reply \in Reply
    BY <1>3, <1>4, <2>2 DEF Conf, Request, Reply
  <2>4. RepliesAreConf'
    BY <1>1, <2>1, <2>3
  <2>5. ReadsFirst'
    BY <1>2, <2>1, <2>2 DEF ReadsFirst
  <2> QED BY <1>1, <1>2, <2>1, <2>4, <2>5
<1>5. CASE r.op = "write"
  <2>1. /\ running' = [running EXCEPT ![r.prop] = r.value]
        /\ UNCHANGED replies
    BY <1>1, <1>3, <1>5 DEF Serve
  <2>2. running' \in [Props -> Values]
    BY <1>3, <2>1
  <2>3. ASSUME NEW n \in DOMAIN vm_queue', vm_queue'[n].op = "read" PROVE FALSE
    <3>1. n + 1 \in DOMAIN vm_queue /\ vm_queue[n + 1].op = "read" /\ 1 <= n + 1
      BY <1>2, <2>3
    <3> QED BY <1>2, <1>3, <1>5, <3>1 DEF ReadsFirst
  <2>4. ReadsFirst'
    BY <2>3 DEF ReadsFirst
  <2> QED BY <1>1, <1>2, <2>1, <2>2, <2>4
<1> QED BY <1>3, <1>4, <1>5

LEMMA VideoStep ==
  ASSUME VideoInv, [VMNext]_vmvars
  PROVE  VideoInv'
<1>1. ASSUME NEW m \in Modes, Boot(m) PROVE VideoInv'
  <2>1. \E refused : vm_queue' = BaselineReads(refused)
    BY <1>1 DEF Boot
  <2> QED BY <1>1, <2>1, BeginStep DEF Boot
<1>2. ASSUME NEW m \in Modes, ApplyCurrent(m) PROVE VideoInv'
  BY <1>2, BeginStep DEF ApplyCurrent
<1>3. ASSUME NEW m \in Modes, ApplyResolved(m) PROVE VideoInv'
  BY <1>3, BeginStep DEF ApplyResolved, VideoInv, VideoTyped
<1> USE DEF VideoInv, VideoTyped, ReadsFirst, RepliesAreConf, Booting, Assembled, state, mpv,
            vmhistory
<1>4. ASSUME NEW p \in {"scale", "dscale"}, PickScaler(p, IF p = "scale" THEN "dscale" ELSE "write")
      PROVE  VideoInv'
  <2>1. Scaler(mode, p) \in ScalersOf(mode) /\ ScalersOf(mode) \in SUBSET Values /\ p \in Props
    BY Assembles DEF Props
  <2>2. next' \in Applied /\ next' = [next EXCEPT ![p] = Scaler(mode, p)]
    BY <1>4, <2>1 DEF PickScaler, Applied
  <2>3. {"glsl-shaders", "scale", "dscale"} = Props /\ DOMAIN next = Props
    BY DEF Props, Applied
  <2> QED BY <1>4, <2>1, <2>2, <2>3 DEF PickScaler
<1>5. CASE Skip
  BY <1>5 DEF Skip
<1>6. CASE ConsumeReply
  <2>1. /\ baseline' = [baseline EXCEPT ![Head(replies).prop] = Text(Head(replies).value)]
        /\ replies' = Tail(replies) /\ replies # <<>>
        /\ UNCHANGED <<selected, mode, memo, vm_queue, running, pc, booted, next, vm_refused>>
    BY <1>6 DEF ConsumeReply
  <2>2. Text(Head(replies).value) \in BaselineValues /\ Tail(replies) \in Seq(Reply)
    <3>1. \A r \in Reply : r.prop \in Props /\ Text(r.value) \in BaselineValues
      BY DEF Reply, Text, BaselineValues
    <3>2. Head(replies) \in Reply /\ Tail(replies) \in Seq(Reply)
      BY <2>1
    <3> QED BY <3>1, <3>2
  <2>3. baseline' \in [Props -> BaselineValues]
    BY <2>1, <2>2
  <2> QED BY <2>1, <2>2, <2>3
<1>7. CASE UNCHANGED vmvars
  BY <1>7 DEF vmvars
<1> QED BY <1>1, <1>2, <1>3, <1>4, <1>5, <1>6, <1>7, WriteStep, ServeStep DEF VMNext

(* A value that will run keeps coming while mpv serves its queue.          *)
LEMMA ServedRuns ==
  ASSUME VideoInv, Serve, NEW p \in Props, NEW v, WillRun(p, v)
  PROVE  WillRun(p, v)'
<1>1. /\ vm_queue # <<>> /\ vm_queue' = Tail(vm_queue) /\ Head(vm_queue) = vm_queue[1]
      /\ vm_queue \in Seq(Request) /\ running \in [Props -> Values]
  BY Served DEF Serve, VideoInv, VideoTyped
<1>2. /\ 1 \in DOMAIN vm_queue
      /\ DOMAIN vm_queue \subseteq Nat /\ DOMAIN vm_queue' \subseteq Nat
      /\ \A n \in DOMAIN vm_queue' : n + 1 \in DOMAIN vm_queue /\ vm_queue'[n] = vm_queue[n + 1]
      /\ \A n \in DOMAIN vm_queue : n = 1 \/ n - 1 \in DOMAIN vm_queue'
  BY <1>1, Served
<1>3. vm_queue[1].op \in {"read", "write"}
  <2>1. vm_queue[1] \in Request
    BY <1>1, <1>2
  <2> QED BY <2>1 DEF Request
<1>4. /\ vm_queue[1].op = "read" => UNCHANGED running
      /\ vm_queue[1].op = "write" =>
           running' = [running EXCEPT ![vm_queue[1].prop] = vm_queue[1].value]
  BY <1>1 DEF Serve
<1>5. ASSUME NEW n \in DOMAIN vm_queue, WritesTo(n, p), vm_queue[n].value = v,
             \A m \in DOMAIN vm_queue : WritesTo(m, p) => m <= n
      PROVE  WillRun(p, v)'
  <2>1. CASE n = 1
    <3>1. \A m \in DOMAIN vm_queue' : ~WritesTo(m, p)'
      <4> SUFFICES ASSUME NEW m \in DOMAIN vm_queue', WritesTo(m, p)' PROVE FALSE
        OBVIOUS
      <4>1. m + 1 \in DOMAIN vm_queue /\ WritesTo(m + 1, p) /\ m \in Nat
        BY <1>2 DEF WritesTo
      <4>2. m + 1 <= 1 /\ m \in Nat /\ m # 0
        <5>1. m \in 1..Len(vm_queue')
          BY <1>1
        <5> QED BY <1>5, <2>1, <4>1, <5>1
      <4> QED BY <4>2
    <3>2. running'[p] = v
      BY <1>1, <1>4, <1>5, <2>1 DEF WritesTo
    <3> QED BY <3>1, <3>2 DEF WillRun
  <2>2. CASE n # 1
    <3> PICK k : k = n - 1
      OBVIOUS
    <3>1. k \in DOMAIN vm_queue' /\ k + 1 = n
      BY <1>2, <1>5, <2>2
    <3>2. WritesTo(k, p)' /\ vm_queue'[k].value = v
      BY <1>2, <1>5, <3>1 DEF WritesTo
    <3>3. \A m \in DOMAIN vm_queue' : WritesTo(m, p)' => m <= k
      <4> SUFFICES ASSUME NEW m \in DOMAIN vm_queue', WritesTo(m, p)' PROVE m <= k
        OBVIOUS
      <4>1. m + 1 \in DOMAIN vm_queue /\ WritesTo(m + 1, p) /\ m \in Nat /\ k \in Nat
        BY <1>2, <3>1 DEF WritesTo
      <4> QED BY <1>5, <3>1, <4>1
    <3> QED BY <3>1, <3>2, <3>3 DEF WillRun
  <2> QED BY <2>1, <2>2
<1>6. ASSUME \A n \in DOMAIN vm_queue : ~WritesTo(n, p), running[p] = v
      PROVE  WillRun(p, v)'
  <2>1. \A m \in DOMAIN vm_queue' : ~WritesTo(m, p)'
    BY <1>2, <1>6 DEF WritesTo
  <2>2. running'[p] = v
    BY <1>1, <1>2, <1>3, <1>4, <1>6 DEF WritesTo
  <2> QED BY <2>1, <2>2 DEF WillRun
<1> QED BY <1>5, <1>6 DEF WillRun

(* Three writes nothing refuses are what will run.                         *)
LEMMA NothingRefused ==
  ASSUME NEW a \in [Props -> Values]
  PROVE  /\ Writes(a, {}) \in Seq(Request) /\ Len(Writes(a, {})) = 3
         /\ Writes(a, {})[1] = Write("glsl-shaders", a["glsl-shaders"])
         /\ Writes(a, {})[2] = Write("scale", a["scale"])
         /\ Writes(a, {})[3] = Write("dscale", a["dscale"])
<1>1. /\ Write("glsl-shaders", a["glsl-shaders"]) \in Request
      /\ Write("scale", a["scale"]) \in Request /\ Write("dscale", a["dscale"]) \in Request
  BY DEF Write, Request, Props
<1>2. Writes(a, {}) = <<Write("glsl-shaders", a["glsl-shaders"])>> \o <<Write("scale", a["scale"])>>
            \o <<Write("dscale", a["dscale"])>>
  BY DEF Writes, Offered
<1> PICK x, y, z : /\ x = Write("glsl-shaders", a["glsl-shaders"])
                   /\ y = Write("scale", a["scale"]) /\ z = Write("dscale", a["dscale"])
  OBVIOUS
<1>3. x \in Request /\ y \in Request /\ z \in Request
  BY Zenon, <1>1
<1>4. /\ <<x>> \o <<y>> \o <<z>> \in Seq(Request) /\ Len(<<x>> \o <<y>> \o <<z>>) = 3
      /\ (<<x>> \o <<y>> \o <<z>>)[1] = x /\ (<<x>> \o <<y>> \o <<z>>)[2] = y
      /\ (<<x>> \o <<y>> \o <<z>>)[3] = z
  <2> HIDE DEF Request
  <2> QED BY <1>3, ThreeWrites
<1>5. Writes(a, {}) = <<x>> \o <<y>> \o <<z>>
  BY Zenon, <1>2
<1> QED BY Zenon, <1>4, <1>5

(* What is written last is what will run.                                  *)
LEMMA WrittenRuns ==
  ASSUME NEW s \in Seq(Request), NEW t \in Seq(Request), DOMAIN t = 1..3, Len(t) = 3,
         Behind(s, t, vm_queue'),
         NEW a \in [Props -> Values], t[1] = Write("glsl-shaders", a["glsl-shaders"]),
         t[2] = Write("scale", a["scale"]), t[3] = Write("dscale", a["dscale"]),
         NEW p \in Props
  PROVE  WillRun(p, a[p])'
<1> DEFINE W(q) == Write(q, a[q])
<1>2. \A q \in Props : W(q).op = "write" /\ W(q).prop = q /\ W(q).value = a[q]
  BY DEF Write
<1>3. "glsl-shaders" \in Props /\ "scale" \in Props /\ "dscale" \in Props
      /\ p \in {"glsl-shaders", "scale", "dscale"}
  BY DEF Props
<1>5. t[1] = W("glsl-shaders") /\ t[2] = W("scale") /\ t[3] = W("dscale")
  OBVIOUS
<1> HIDE DEF W
<1>6. /\ Len(s) \in Nat /\ DOMAIN s = 1..Len(s) /\ DOMAIN vm_queue' = 1..(Len(s) + 3)
      /\ \A n \in DOMAIN t : vm_queue'[Len(s) + n] = t[n]
  BY Zenon DEF Behind
<1> PICK k \in {1, 2, 3} : k = IF p = "glsl-shaders" THEN 1 ELSE IF p = "scale" THEN 2 ELSE 3
  OBVIOUS
<1>7. t[k] = W(p) /\ \A j \in 1..3 : t[j].prop = p => j = k
  BY <1>2, <1>3, <1>5
<1> PICK n : n = Len(s) + k
  OBVIOUS
<1>8. n \in DOMAIN vm_queue' /\ vm_queue'[n] = W(p)
  BY <1>6, <1>7
<1>9. ASSUME NEW m \in DOMAIN vm_queue', WritesTo(m, p)' PROVE m <= n
  <2>1. CASE m \in 1..Len(s)
    BY <1>6, <2>1
  <2>2. CASE m \notin 1..Len(s)
    <3> PICK j : j = m - Len(s)
      OBVIOUS
    <3>1. j \in 1..3 /\ m = Len(s) + j
      BY <1>6, <2>2
    <3>2. t[j].prop = p
      BY <1>6, <1>9, <3>1 DEF WritesTo
    <3>3. j = k
      BY <1>7, <3>1, <3>2
    <3>4. n = Len(s) + j
      BY <3>3
    <3> QED BY <1>6, <3>1, <3>4
  <2> QED BY <2>1, <2>2
<1>10. WritesTo(n, p)' /\ vm_queue'[n].value = a[p]
  BY <1>2, <1>8 DEF WritesTo
<1> HIDE DEF WritesTo
<1> QED BY Zenon, <1>8, <1>9, <1>10 DEF WillRun

(* What an applier has assembled is a record to write.                     *)
LEMMA AssembledIsRecord ==
  ASSUME VideoInv, pc \in {"write", "idle"}
  PROVE  next # NoMemo
<1>1. next["scale"] \in ScalersOf(mode)
  BY DEF VideoInv, Assembled
<1> QED BY <1>1 DEF NoMemo, Unread, ScalersOf, Props

LEMMA MemoStep ==
  ASSUME MemoInv, [VMNext]_vmvars
  PROVE  MemoIsRun'
<1>0. VideoInv /\ MemoIsRun
  BY DEF MemoInv
<1>k. ASSUME UNCHANGED <<memo, vm_queue, running, vm_refused>>, pc' # "idle" PROVE MemoIsRun'
  <2>1. \A p \in Props : WillRun(p, memo[p])' <=> WillRun(p, memo[p])
    BY <1>k DEF WillRun, WritesTo
  <2> QED BY <1>0, <1>k, <2>1 DEF MemoIsRun
<1>1. ASSUME NEW m \in Modes, Boot(m) PROVE MemoIsRun'
  BY <1>0, <1>1 DEF Boot, Begin, VideoInv, Booting, MemoIsRun
<1>2. ASSUME NEW m \in Modes, ApplyCurrent(m) \/ ApplyResolved(m) PROVE MemoIsRun'
  BY <1>2, <1>k DEF ApplyCurrent, ApplyResolved, Begin
<1>3. CASE PickScaler("scale", "dscale") \/ PickScaler("dscale", "write")
  BY <1>3, <1>k DEF PickScaler, state, mpv, vmhistory
<1>4. CASE Skip
  <2>1. memo = next /\ UNCHANGED <<memo, vm_queue, running, next, vm_refused>>
    BY <1>4 DEF Skip, ShouldApply, state, mpv, vmhistory
  <2>2. \A p \in Props : WillRun(p, memo[p])' <=> WillRun(p, memo[p])
    BY <2>1 DEF WillRun, WritesTo
  <2> QED BY <1>0, <2>1, <2>2 DEF MemoIsRun
<1>5. CASE WriteAll
  <2> PICK n, s, t, refused :
        /\ n = next /\ s = vm_queue /\ t = Writes(next, {})
        /\ vm_queue' = s \o Writes(next, refused) /\ Latch(refused)
    BY <1>5 DEF WriteAll
  <2>1. next' = n /\ pc = "write" /\ memo # n
    BY <1>5 DEF WriteAll, ShouldApply
  <2>8. CASE refused = {}
    <3>1. vm_queue' = vm_queue \o t /\ memo' = n /\ vm_refused' = NoMemo
      BY <2>8 DEF Latch
    <3>2. n \in [Props -> Values] /\ s \in Seq(Request)
      BY <1>0, <2>1, Assembles DEF VideoInv, VideoTyped
    <3>3. /\ t \in Seq(Request) /\ Len(t) = 3 /\ t[1] = Write("glsl-shaders", n["glsl-shaders"])
          /\ t[2] = Write("scale", n["scale"]) /\ t[3] = Write("dscale", n["dscale"])
      BY Zenon, <3>2, NothingRefused
    <3>4. vm_queue' = s \o t
      BY Zenon, <3>1
    <3>6. DOMAIN t = 1..Len(t) /\ Behind(s, t, vm_queue')
      BY Zenon, <3>2, <3>3, <3>4, QueuedBehind
    <3>7. DOMAIN t = 1..3
      BY Zenon, <3>3, <3>6
    <3>5. ASSUME NEW p \in Props PROVE WillRun(p, n[p])'
      BY Zenon, <3>2, <3>3, <3>6, <3>7, WrittenRuns
    <3> QED BY Zenon, <2>1, <3>1, <3>5 DEF MemoIsRun
  <2>9. CASE refused # {}
    <3>1. memo' = memo /\ vm_refused' = n
      BY <2>9 DEF Latch
    <3>2. n # NoMemo
      BY <1>0, <2>1, AssembledIsRecord
    <3> QED BY <2>1, <3>1, <3>2 DEF MemoIsRun
  <2> QED BY <2>8, <2>9
<1>6. CASE Serve
  <2>1. UNCHANGED <<memo, pc, next, vm_refused>>
    BY <1>6 DEF Serve, state
  <2> PICK n : n = memo
    OBVIOUS
  <2> DEFINE Whole == vm_refused = NoMemo /\ memo # NoMemo
  <2>2. Whole => \A p \in Props : WillRun(p, n[p])
    BY <1>0 DEF MemoIsRun
  <2>3. Whole => \A p \in Props : WillRun(p, n[p])'
    BY <1>0, <1>6, <2>2, ServedRuns
  <2>4. memo' = n
    BY <2>1
  <2> QED BY <1>0, <2>1, <2>3, <2>4 DEF MemoIsRun, WillRun
<1>7. CASE ConsumeReply \/ UNCHANGED vmvars
  <2>1. UNCHANGED <<memo, vm_queue, running, pc, next, vm_refused>>
    BY <1>7 DEF ConsumeReply, vmvars, state, mpv, vmhistory
  <2>2. \A p \in Props : WillRun(p, memo[p])' <=> WillRun(p, memo[p])
    BY <2>1 DEF WillRun, WritesTo
  <2> QED BY <1>0, <2>1, <2>2 DEF MemoIsRun
<1> QED BY <1>1, <1>2, <1>3, <1>4, <1>5, <1>6, <1>7 DEF VMNext

LEMMA VideoInvariance == VMSpec => []VideoInv
<1>1. VMInit => VideoInv
  BY VideoInitInv DEF MemoInv
<1> QED BY <1>1, VideoStep, PTL DEF VMSpec

LEMMA BlankStep ==
  ASSUME VideoInv, BlanksAreMpvs, [VMNext]_vmvars
  PROVE  BlanksAreMpvs'
<1>1. CASE UNCHANGED <<replies, baseline, vm_blank>>
  BY <1>1 DEF BlanksAreMpvs
<1>2. CASE Serve
  <2> PICK r : r = Head(vm_queue)
    OBVIOUS
  <2>1. CASE r.op = "read"
    <3>1. PICK answer :
            /\ replies' = Append(replies, [r EXCEPT !.value = answer])
            /\ vm_blank' = IF answer = NoString THEN vm_blank \union {r.prop} ELSE vm_blank
            /\ baseline' = baseline
      BY <1>2, <2>1 DEF Serve, state
    <3> PICK reply : reply = [r EXCEPT !.value = answer]
      OBVIOUS
    <3>2. r \in Request
      BY <1>2, Served DEF Serve, VideoInv, VideoTyped
    <3>3. reply.value = answer /\ reply.prop = r.prop
      BY <3>2 DEF Request
    <3>4. replies \in Seq(Reply) /\ replies' = Append(replies, reply)
      BY <3>1 DEF VideoInv, RepliesAreConf
    <3>5. \A n \in DOMAIN replies' :
            (n \in DOMAIN replies /\ replies'[n] = replies[n]) \/ replies'[n] = reply
      <4> HIDE DEF Reply
      <4> QED BY <3>4
    <3> QED BY <3>1, <3>3, <3>5 DEF BlanksAreMpvs
  <2>2. CASE r.op # "read"
    BY <1>1, <1>2, <2>2 DEF Serve, state
  <2> QED BY <2>1, <2>2
<1>3. CASE ConsumeReply
  <2> PICK r : r = Head(replies)
    OBVIOUS
  <2>1. /\ baseline' = [baseline EXCEPT ![r.prop] = Text(r.value)]
        /\ replies' = Tail(replies) /\ replies # <<>> /\ vm_blank' = vm_blank
    BY <1>3 DEF ConsumeReply, vmhistory
  <2>2. replies \in Seq(Reply) /\ baseline \in [Props -> BaselineValues]
    BY DEF VideoInv, RepliesAreConf
  <2>3. /\ r \in Reply /\ 1 \in DOMAIN replies /\ r = replies[1]
        /\ \A n \in DOMAIN replies' : n + 1 \in DOMAIN replies /\ replies'[n] = replies[n + 1]
    <3> HIDE DEF Reply
    <3>1. PICK s : s = replies
      OBVIOUS
    <3>2. s \in Seq(Reply) /\ s # <<>> /\ replies' = Tail(s) /\ r = Head(s)
      BY <2>1, <2>2, <3>1
    <3>3. r = s[1] /\ 1 \in DOMAIN s /\ s[1] \in Reply
      BY <3>2
    <3>4. \A n \in DOMAIN Tail(s) : n + 1 \in DOMAIN s /\ Tail(s)[n] = s[n + 1]
      BY <3>2, Served
    <3> QED BY <3>1, <3>2, <3>3, <3>4
  <2>4. r.prop \in Props /\ (Text(r.value) = "" => r.prop \in vm_blank)
    BY <2>3 DEF Reply, Text, BlanksAreMpvs
  <2>5. \A p \in Props : baseline'[p] = "" => p \in vm_blank'
    BY <2>1, <2>2, <2>4 DEF BlanksAreMpvs
  <2>6. \A n \in DOMAIN replies' : replies'[n].value = NoString => replies'[n].prop \in vm_blank'
    BY <2>1, <2>3 DEF BlanksAreMpvs
  <2> QED BY <2>5, <2>6 DEF BlanksAreMpvs
<1>4. CASE \/ \E m \in Modes : Boot(m) \/ ApplyCurrent(m) \/ ApplyResolved(m)
           \/ PickScaler("scale", "dscale") \/ PickScaler("dscale", "write")
           \/ Skip \/ WriteAll \/ UNCHANGED vmvars
  BY <1>1, <1>4 DEF Boot, ApplyCurrent, ApplyResolved, Begin, PickScaler, Skip, WriteAll,
     vmvars, state, mpv, vmhistory
<1> QED BY <1>2, <1>3, <1>4 DEF VMNext

(* video_mode.rs: the baseline is what the config file had, although the    *)
(* boot apply writes without waiting for the reads, whatever is refused,    *)
(* and empty only where mpv had no string to give.                          *)
THEOREM BaselineStaysConf == VMSpec => []BaselineIsConf
<1>1. VMInit => BlanksAreMpvs
  BY DEF VMInit, BlanksAreMpvs, NoMemo, Unread
<1>2. VideoInv /\ BlanksAreMpvs => BaselineIsConf
  BY DEF VideoInv, RepliesAreConf, BlanksAreMpvs, BaselineIsConf, BaselineValues
<1> QED BY VideoInvariance, BlankStep, <1>1, <1>2, PTL DEF VMSpec

LEMMA MemoInvariance == VMSpec => []MemoInv
<1>1. MemoInv /\ [VMNext]_vmvars => MemoInv'
  BY VideoStep, MemoStep DEF MemoInv
<1> QED BY VideoInitInv, <1>1, PTL DEF VMSpec

LEMMA IdleRuns == MemoInv => RunsTheMode
<1> SUFFICES ASSUME MemoInv, pc = "idle", vm_refused = NoMemo PROVE RunsTheMode
  BY DEF RunsTheMode
<1>1. VideoInv /\ memo = next /\ (memo # NoMemo => \A p \in Props : WillRun(p, memo[p]))
  BY DEF MemoInv, MemoIsRun
<1>2. next["glsl-shaders"] = ChainOf(mode) /\ next["scale"] \in ScalersOf(mode)
      /\ next["dscale"] \in ScalersOf(mode) /\ (selected # "auto" => mode = selected)
  BY <1>1 DEF VideoInv, Assembled
<1>3. next # NoMemo
  BY <1>1, AssembledIsRecord
<1>4. WillRun("glsl-shaders", ChainOf(mode)) /\ WillRun("scale", next["scale"])
      /\ WillRun("dscale", next["dscale"])
  BY <1>1, <1>2, <1>3 DEF Props
<1> QED BY <1>2, <1>4 DEF RunsTheMode

(* mpv ends up running the mode last applied (video_mode.rs, apply_inner),  *)
(* for any modes in any order and replies at any time, whatever libmpv      *)
(* refused before it last took an apply whole.                              *)
THEOREM ModeIsRun == VMSpec => []RunsTheMode
BY MemoInvariance, IdleRuns, PTL

(* video_mode.rs:310-311: an apply libmpv refused some or all of is written *)
(* when it is asked for again, however much was refused and whatever came   *)
(* in between; and an apply the memo lets pass is one that mpv runs or is   *)
(* about to, if nothing was refused since one was taken whole.              *)
THEOREM SkipIsSound == VMSpec => SkipsAreSound
<1>1. MemoInv /\ [VMNext]_vmvars =>
        [Skip => /\ next # vm_refused
                 /\ vm_refused = NoMemo => \A p \in Props : WillRun(p, next[p])]_vmvars
  <2> SUFFICES ASSUME MemoInv, Skip
               PROVE  /\ next # vm_refused
                      /\ vm_refused = NoMemo => \A p \in Props : WillRun(p, next[p])
    OBVIOUS
  <2>1. memo = next /\ pc = "write" /\ VideoInv
    BY DEF Skip, ShouldApply, MemoInv
  <2>2. next # NoMemo
    BY <2>1, AssembledIsRecord
  <2> QED BY <2>1, <2>2 DEF MemoInv, MemoIsRun
<1> QED BY MemoInvariance, <1>1, PTL DEF VMSpec, SkipsAreSound
-----------------------------------------------------------------------------
(* WebPlayer: the first frame is reported.                                  *)
Ops == {"load", "stop", "pause", "play", "playing", "paused", "canceled", "finished", "error"}
PageMessages == [op : Ops, of : 0 .. wp_current]
Players == [started : BOOLEAN, ended : BOOLEAN, src : {NoPlay} \union Plays,
            paused : BOOLEAN, connected : BOOLEAN, dialog : BOOLEAN]
WebTyped ==
  /\ wp_player \in Players
  /\ wp_current \in {NoPlay} \union Plays
  /\ wp_stage \in [Plays -> PlayStages]
  /\ wp_host \in [file : 0 .. wp_current, phase : {"Stopped", "Starting", "Playing", "Paused"}]
  /\ wp_heard \in 0 .. wp_current

(* Nothing on its way names a play that was not yet asked for.              *)
OfAskedFor ==
  /\ wp_calls \in Seq(PageMessages) /\ wp_signals \in Seq(PageMessages)

(* The player hears every signal first, and behind it the one load that     *)
(* has not ended.                                                           *)
Underway(n) == wp_stage[n] \in {"zooming", "resolving", "loading"}
Loading == wp_current \in Plays /\ wp_stage[wp_current] = "loading"
Connections ==
  CASE ~wp_player.connected -> <<>>
    [] wp_player.connected /\ Loading -> <<Handler, wp_current>>
    [] wp_player.connected /\ ~Loading -> <<Handler>>

WebInv ==
  /\ WebTyped /\ OfAskedFor
  /\ \A n \in Plays : Underway(n) => n = wp_current /\ wp_player.connected
  /\ wp_player.dialog => wp_player.connected
  /\ wp_playing = Connections /\ wp_error = Connections
  /\ wp_player.connected /\ wp_current # NoPlay /\ wp_heard = wp_current => wp_player.started
(* What is left of an array none or one of whose listeners stays.           *)
LEMMA WithoutAll ==
  ASSUME NEW s, NEW gone, \A k \in DOMAIN s : s[k] \in gone
  PROVE  Without(s, gone) = <<>>
<1>1. PICK kept : kept = {k \in DOMAIN s : s[k] \notin gone}
  OBVIOUS
<1>2. kept = {}
  BY <1>1
<1>3. Cardinality(kept) = 0
  BY <1>2, FS_EmptySet
<1>4. Without(s, gone) =
        [n \in 1 .. Cardinality(kept) |-> s[CHOOSE k \in kept : Cardinality({j \in kept : j <= k}) = n]]
  BY <1>1 DEF Without
<1>5. Without(s, gone) = [n \in {} |-> s[CHOOSE k \in kept : Cardinality({j \in kept : j <= k}) = n]]
  BY <1>3, <1>4
<1> QED BY <1>5

LEMMA WithoutButFirst ==
  ASSUME NEW s, NEW gone, 1 \in DOMAIN s, s[1] \notin gone,
         \A k \in DOMAIN s : k # 1 => s[k] \in gone
  PROVE  Without(s, gone) = <<s[1]>>
<1>1. PICK kept : kept = {k \in DOMAIN s : s[k] \notin gone}
  OBVIOUS
<1>2. kept = {1}
  BY <1>1
<1>3. Cardinality(kept) = 1
  BY <1>2, FS_Singleton
<1>4. Without(s, gone) =
        [n \in 1 .. Cardinality(kept) |-> s[CHOOSE k \in kept : Cardinality({j \in kept : j <= k}) = n]]
  BY <1>1 DEF Without
<1>5. {j \in kept : j <= 1} = kept
  BY <1>2
<1>6. (CHOOSE k \in kept : Cardinality({j \in kept : j <= k}) = 1) = 1
  BY <1>2, <1>3, <1>5
<1>7. Without(s, gone) =
        [n \in {1} |-> s[CHOOSE k \in kept : Cardinality({j \in kept : j <= k}) = n]]
  BY <1>3, <1>4
<1>8. PICK f : f = Without(s, gone)
  OBVIOUS
<1>9. f = [n \in {1} |-> s[1]]
  <2>1. \A n \in {1} : s[CHOOSE k \in kept : Cardinality({j \in kept : j <= k}) = n] = s[1]
    BY <1>6
  <2> QED BY <1>7, <1>8, <2>1
<1>10. <<s[1]>> = [n \in {1} |-> s[1]]
  OBVIOUS
<1> QED BY <1>8, <1>9, <1>10

LEMMA FireNobody == Fire(<<>>) = [called |-> {}, left |-> <<>>]
<1>1. CalledAt(<<>>) = {}
  BY DEF CalledAt
<1>2. {<<>>[k] : k \in CalledAt(<<>>)} = {}
  BY <1>1
<1>3. Without(<<>>, {} \ {Handler}) = <<>>
  BY WithoutAll
<1> QED BY <1>2, <1>3 DEF Fire

LEMMA FireHandler == Fire(<<Handler>>) = [called |-> {Handler}, left |-> <<Handler>>]
<1>1. PICK s : s = <<Handler>>
  OBVIOUS
<1>2. DOMAIN s = {1} /\ s[1] = Handler
  BY <1>1
<1>3. CalledAt(s) = {1}
  BY <1>2 DEF CalledAt
<1>4. {s[k] : k \in CalledAt(s)} = {Handler}
  BY <1>2, <1>3
<1>5. Without(s, {Handler} \ {Handler}) = <<Handler>>
  BY <1>2, WithoutButFirst
<1> QED BY <1>1, <1>4, <1>5 DEF Fire

LEMMA FireBoth ==
  ASSUME NEW n \in Plays
  PROVE  Fire(<<Handler, n>>) = [called |-> {Handler, n}, left |-> <<Handler>>]
<1>1. PICK s : s = <<Handler, n>>
  OBVIOUS
<1>2. DOMAIN s = {1, 2} /\ s[1] = Handler /\ s[2] = n
  BY <1>1
<1>3. CalledAt(s) = {1, 2}
  <2>1. 1 \in CalledAt(s)
    BY <1>2 DEF CalledAt
  <2>2. 2 \in CalledAt(s)
    <3>1. 1 \in 0 .. 2 - 1 /\ (2 - 1 - 1) % 2 = 0 /\ 1 + 1 .. 2 - 1 = {}
      OBVIOUS
    <3> QED BY <1>2, <3>1 DEF CalledAt
  <2> QED BY <1>2, <2>1, <2>2 DEF CalledAt
<1>4. {s[k] : k \in CalledAt(s)} = {Handler, n}
  BY <1>2, <1>3
<1>5. n # Handler
  BY WebPlayerAssumption DEF Plays, Handler
<1>6. Without(s, {Handler, n} \ {Handler}) = <<Handler>>
  BY <1>2, <1>5, WithoutButFirst
<1> QED BY <1>1, <1>4, <1>6 DEF Fire
LEMMA CurrentIs ==
  ASSUME WebTyped
  PROVE  wp_current \in Nat /\ wp_heard \in Nat /\ wp_heard <= wp_current
         /\ (wp_current = NoPlay \/ wp_current \in Plays) /\ NoPlay \notin Plays
         /\ NoPlay = 0 /\ MaxPlays \in Nat /\ Plays = 1 .. MaxPlays
BY WebPlayerAssumption DEF WebTyped, NoPlay, Plays

LEMMA ThreeConnections ==
  /\ ~wp_player.connected => Connections = <<>>
  /\ wp_player.connected /\ Loading => Connections = <<Handler, wp_current>>
  /\ wp_player.connected /\ ~Loading => Connections = <<Handler>>
BY DEF Connections

(* Nothing but what is on its way, the host or what was heard has changed.  *)
LEMMA SameListeners ==
  ASSUME WebInv, UNCHANGED <<wp_current, wp_stage, wp_playing, wp_error>>,
         wp_player' \in Players, wp_player'.connected = wp_player.connected,
         wp_player'.dialog => wp_player.dialog,
         wp_host' \in [file : 0 .. wp_current, phase : {"Stopped", "Starting", "Playing", "Paused"}],
         wp_calls' \in Seq(PageMessages), wp_signals' \in Seq(PageMessages), wp_heard' = wp_heard,
         wp_player'.started = wp_player.started
  PROVE  WebInv'
<1>1. PageMessages' = PageMessages
  BY DEF PageMessages
<1>2. WebTyped' /\ OfAskedFor'
  BY <1>1 DEF WebInv, WebTyped, OfAskedFor
<1>3. Loading' <=> Loading
  BY DEF Loading
<1>4. Connections' = Connections
  BY <1>3 DEF Connections
<1>5. (\A n \in Plays : Underway(n) => n = wp_current /\ wp_player.connected)'
  BY DEF WebInv, Underway
<1> QED BY <1>2, <1>4, <1>5 DEF WebInv

LEMMA Sends ==
  ASSUME WebInv, NEW s \in Seq(PageMessages)
  PROVE  /\ \A op \in Ops, n \in 0 .. wp_current :
              /\ Call(op, n) \in PageMessages /\ <<Call(op, n)>> \in Seq(PageMessages)
              /\ Append(s, Call(op, n)) \in Seq(PageMessages)
              /\ s \o <<Call(op, n)>> \in Seq(PageMessages)
         /\ s \o <<Call("stop", NoPlay), Call("stop", NoPlay)>> \in Seq(PageMessages)
         /\ s \o <<>> \in Seq(PageMessages)
         /\ s # <<>> => Head(s) \in PageMessages /\ Tail(s) \in Seq(PageMessages)
<1>1. \A op \in Ops, n \in 0 .. wp_current : Call(op, n) \in PageMessages
  BY DEF Call, PageMessages
<1>2. \A m \in PageMessages : /\ <<m>> \in Seq(PageMessages) /\ Append(s, m) \in Seq(PageMessages)
                          /\ s \o <<m>> \in Seq(PageMessages) /\ s \o <<m, m>> \in Seq(PageMessages)
  OBVIOUS
<1>3. Call("stop", NoPlay) \in PageMessages
  <2>1. NoPlay \in 0 .. wp_current /\ "stop" \in Ops
    BY CurrentIs DEF WebInv, Ops
  <2> QED BY <1>1, <2>1
<1>4. s \o <<>> \in Seq(PageMessages)
  OBVIOUS
<1>5. s # <<>> => Head(s) \in PageMessages /\ Tail(s) \in Seq(PageMessages)
  OBVIOUS
<1> QED BY <1>1, <1>2, <1>3, <1>4, <1>5

LEMMA WebInitInv == WebInit => WebInv
<1> SUFFICES ASSUME WebInit PROVE WebInv
  OBVIOUS
<1>1. WebTyped
  BY WebPlayerAssumption DEF WebInit, WebTyped, Players, PlayStages, NoPlay
<1>2. OfAskedFor
  BY DEF WebInit, OfAskedFor
<1>3. ~wp_player.connected /\ ~wp_player.dialog /\ \A n \in Plays : ~Underway(n)
  BY DEF WebInit, Underway
<1>4. Connections = <<>>
  BY <1>3 DEF Connections
<1> QED BY <1>1, <1>2, <1>3, <1>4 DEF WebInv, WebInit

LEMMA NobodyUnderway ==
  ASSUME WebInv, ~MayAbandon, PageMayAsk
  PROVE  (\A n \in Plays : ~Underway(n)) /\ ~Loading
BY DEF PageMayAsk, Underway, Loading

LEMMA PlayKeepsInv ==
  ASSUME WebInv, ~MayAbandon, NEW fullscreen \in BOOLEAN, Play(fullscreen)
  PROVE  WebInv'
<1>1. PICK n : n = wp_current + 1
  OBVIOUS
<1>2. /\ n \in Plays /\ PageMayAsk /\ wp_current' = n
      /\ wp_stage' = [wp_stage EXCEPT ![n] =
                        IF fullscreen /\ ~wp_player.dialog THEN "zooming" ELSE "resolving"]
      /\ UNCHANGED <<wp_calls, wp_signals, wp_host, wp_heard>>
  BY <1>1 DEF Play
<1>3. /\ wp_player' \in Players /\ wp_player'.dialog
      /\ wp_player'.connected = (wp_player.connected \/ ~wp_player.dialog)
  BY DEF Play, WebInv, WebTyped, Players
<1>4. wp_player'.connected
  BY <1>3 DEF WebInv
<1>5. (\A m \in Plays : ~Underway(m)) /\ ~Loading
  BY <1>2, NobodyUnderway
<1>6. Connections = IF wp_player.connected THEN <<Handler>> ELSE <<>>
  BY <1>5, ThreeConnections
<1>7. wp_playing' = <<Handler>> /\ wp_error' = <<Handler>>
  <2>1. CASE wp_player.dialog
    <3>1. wp_player.connected /\ UNCHANGED <<wp_playing, wp_error>>
      BY <2>1 DEF Play, WebInv
    <3> QED BY <1>6, <3>1 DEF WebInv
  <2>2. CASE ~wp_player.dialog
    <3>1. wp_playing' = Connected(wp_playing) /\ wp_error' = Connected(wp_error)
      BY <2>2 DEF Play
    <3>2. Append(<<>>, Handler) = <<Handler>>
      OBVIOUS
    <3> QED BY <1>6, <3>1, <3>2 DEF WebInv, Connected
  <2> QED BY <2>1, <2>2
<1>8. wp_stage \in [Plays -> PlayStages] /\ wp_stage' \in [Plays -> PlayStages]
      /\ wp_stage'[n] \in {"zooming", "resolving"} /\ \A m \in Plays : m # n => wp_stage'[m] = wp_stage[m]
  BY <1>2 DEF WebInv, WebTyped, PlayStages
<1>9. ~Loading'
  BY <1>2, <1>8 DEF Loading
<1>10. Connections' = <<Handler>>
  BY <1>4, <1>9 DEF Connections
<1>11. wp_heard < n /\ wp_heard \in Nat /\ n \in Nat
  BY <1>1, <1>2, CurrentIs DEF WebInv
<1>12. 0 .. wp_current \subseteq 0 .. wp_current'
  BY <1>1, <1>2, CurrentIs DEF WebInv
<1>13. OfAskedFor'
  <2>1. PageMessages \subseteq PageMessages'
    BY <1>12 DEF PageMessages
  <2>2. \A s \in Seq(PageMessages) : s \in Seq(PageMessages')
    BY <2>1
  <2> QED BY <1>2, <2>2 DEF WebInv, OfAskedFor
<1>14. WebTyped'
  BY <1>2, <1>3, <1>8, <1>12 DEF WebInv, WebTyped
<1>15. (\A m \in Plays : Underway(m) => m = wp_current /\ wp_player.connected)'
  BY <1>2, <1>4, <1>5, <1>8 DEF Underway
<1> QED BY <1>2, <1>3, <1>4, <1>7, <1>10, <1>11, <1>13, <1>14, <1>15 DEF WebInv

LEMMA ZoomedKeepsInv ==
  ASSUME WebInv, NEW n \in Plays, ZoomedIn(n)
  PROVE  WebInv'
<1>1. /\ Underway(n) /\ n = wp_current /\ wp_stage[n] = "zooming"
      /\ wp_stage' = [wp_stage EXCEPT ![n] = "resolving"]
      /\ UNCHANGED <<wp_player, wp_current, wp_playing, wp_error, wp_calls, wp_signals, wp_host, wp_heard>>
  BY DEF ZoomedIn, Underway, WebInv
<1>2. /\ wp_stage \in [Plays -> PlayStages] /\ wp_stage' \in [Plays -> PlayStages]
      /\ wp_stage'[n] = "resolving" /\ \A m \in Plays : m # n => wp_stage'[m] = wp_stage[m]
  BY <1>1 DEF WebInv, WebTyped, PlayStages
<1>3. ~Loading /\ ~Loading'
  BY <1>1, <1>2 DEF Loading
<1>4. Connections' = Connections
  BY <1>1, <1>3 DEF Connections
<1>5. (\A m \in Plays : Underway(m) => m = wp_current /\ wp_player.connected)'
  BY <1>1, <1>2 DEF Underway, WebInv
<1>6. PageMessages' = PageMessages
  BY <1>1 DEF PageMessages
<1>7. WebTyped' /\ OfAskedFor'
  BY <1>1, <1>2, <1>6 DEF WebInv, WebTyped, OfAskedFor
<1> QED BY <1>1, <1>4, <1>5, <1>7 DEF WebInv

LEMMA LoadKeepsInv ==
  ASSUME WebInv, NEW n \in Plays, SetCurrentSrc(n)
  PROVE  WebInv'
<1>1. /\ Underway(n) /\ n = wp_current /\ wp_player.connected /\ wp_stage[n] = "resolving"
      /\ wp_stage' = [wp_stage EXCEPT ![n] = "loading"]
      /\ UNCHANGED <<wp_current, wp_signals, wp_host, wp_heard>>
  BY DEF SetCurrentSrc, Underway, WebInv
<1>2. /\ wp_stage \in [Plays -> PlayStages] /\ wp_stage' \in [Plays -> PlayStages]
      /\ wp_stage'[n] = "loading" /\ \A m \in Plays : m # n => wp_stage'[m] = wp_stage[m]
  BY <1>1 DEF WebInv, WebTyped, PlayStages
<1>3. ~Loading /\ Loading'
  BY <1>1, <1>2 DEF Loading
<1>4. /\ wp_player' \in Players /\ wp_player'.connected = wp_player.connected
      /\ wp_player'.started = wp_player.started /\ wp_player'.dialog = wp_player.dialog
  BY DEF SetCurrentSrc, WebInv, WebTyped, Players
<1>5. Connections = <<Handler>> /\ Connections' = <<Handler, n>>
  BY <1>1, <1>3, <1>4 DEF Connections
<1>6. Append(<<Handler>>, n) = <<Handler, n>>
  <2>1. PICK s : s = Append(<<Handler>>, n)
    OBVIOUS
  <2>2. s = [k \in 1 .. 2 |-> IF k = 1 THEN Handler ELSE n]
    BY <2>1
  <2>3. <<Handler, n>> = [k \in 1 .. 2 |-> IF k = 1 THEN Handler ELSE n]
    OBVIOUS
  <2> QED BY <2>1, <2>2, <2>3
<1>7. wp_playing' = Connections' /\ wp_error' = Connections'
  BY <1>5, <1>6 DEF SetCurrentSrc, WebInv
<1>8. (\A m \in Plays : Underway(m) => m = wp_current /\ wp_player.connected)'
  BY <1>1, <1>2, <1>4 DEF Underway, WebInv
<1>9. PageMessages' = PageMessages
  BY <1>1 DEF PageMessages
<1>10. wp_calls' \in Seq(PageMessages)
  <2>1. n \in 0 .. wp_current /\ "load" \in Ops
    BY <1>1, CurrentIs DEF WebInv, Ops
  <2> QED BY <2>1, Sends DEF WebInv, OfAskedFor, SetCurrentSrc
<1>11. WebTyped' /\ OfAskedFor'
  BY <1>1, <1>2, <1>4, <1>9, <1>10 DEF WebInv, WebTyped, OfAskedFor
<1> QED BY <1>1, <1>4, <1>7, <1>8, <1>11 DEF WebInv

LEMMA ControlKeepsInv ==
  ASSUME WebInv, Stop \/ Pause \/ Resume
  PROVE  WebInv'
<1>1. /\ UNCHANGED <<wp_current, wp_stage, wp_playing, wp_error, wp_signals, wp_host, wp_heard>>
      /\ \E op \in Ops : wp_calls' = Append(wp_calls, Call(op, NoPlay))
  BY DEF Stop, Pause, Resume, Ops
<1>2. /\ wp_player' \in Players /\ wp_player'.connected = wp_player.connected
      /\ wp_player'.started = wp_player.started /\ wp_player'.dialog = wp_player.dialog
  BY DEF Stop, Pause, Resume, Ended, WebInv, WebTyped, Players
<1>3. NoPlay \in 0 .. wp_current
  BY CurrentIs DEF WebInv
<1>4. wp_calls' \in Seq(PageMessages)
  BY <1>1, <1>3, Sends DEF WebInv, OfAskedFor
<1> QED BY <1>1, <1>2, <1>4, SameListeners DEF WebInv, WebTyped, OfAskedFor

LEMMA DestroyKeepsInv ==
  ASSUME WebInv, ~MayAbandon, StopAndDestroy
  PROVE  WebInv'
<1>1. /\ UNCHANGED <<wp_current, wp_stage, wp_signals, wp_host, wp_heard>> /\ PageMayAsk
      /\ wp_calls' = wp_calls \o <<Call("stop", NoPlay), Call("stop", NoPlay)>>
      /\ wp_playing' = Without(wp_playing, {Handler}) /\ wp_error' = Without(wp_error, {Handler})
  BY DEF StopAndDestroy, Control
<1>2. wp_player' \in Players /\ ~wp_player'.connected /\ ~wp_player'.dialog
  BY DEF StopAndDestroy, DialogRemoved, Ended, WebInv, WebTyped, Players
<1>3. (\A n \in Plays : ~Underway(n)) /\ ~Loading
  BY <1>1, NobodyUnderway
<1>4. PICK s : s = Connections
  OBVIOUS
<1>5. s = <<>> \/ s = <<Handler>>
  BY <1>3, <1>4 DEF Connections
<1>6. \A k \in DOMAIN s : s[k] \in {Handler}
  BY <1>5
<1>7. Without(s, {Handler}) = <<>>
  BY <1>6, WithoutAll
<1>8. Connections' = <<>>
  BY <1>2 DEF Connections
<1>9. wp_playing' = Connections' /\ wp_error' = Connections'
  BY <1>1, <1>4, <1>7, <1>8 DEF WebInv
<1>10. PageMessages' = PageMessages
  BY <1>1 DEF PageMessages
<1>11. wp_calls' \in Seq(PageMessages)
  BY <1>1, Sends DEF WebInv, OfAskedFor
<1>12. WebTyped' /\ OfAskedFor'
  BY <1>1, <1>2, <1>10, <1>11 DEF WebInv, WebTyped, OfAskedFor
<1>13. (\A n \in Plays : Underway(n) => n = wp_current /\ wp_player.connected)'
  BY <1>1, <1>3 DEF Underway
<1> QED BY <1>2, <1>9, <1>12, <1>13 DEF WebInv
(* What a signal does to the listeners.                                     *)
LEMMA Fired ==
  ASSUME WebInv, NEW called, called = Fire(Connections).called
  PROVE  /\ Fire(Connections).left = IF wp_player.connected THEN <<Handler>> ELSE <<>>
         /\ Without(Connections, called \ {Handler}) = IF wp_player.connected THEN <<Handler>> ELSE <<>>
         /\ Handler \in called <=> wp_player.connected
         /\ \A n \in Plays : n \in called <=> wp_player.connected /\ Loading /\ n = wp_current
<1>1. Handler \notin Plays
  BY WebPlayerAssumption DEF Handler, Plays
<1>2. CASE ~wp_player.connected
  <2>1. Connections = <<>> /\ called = {} /\ Fire(Connections).left = <<>>
    BY <1>2, FireNobody DEF Connections
  <2>2. Without(<<>>, called \ {Handler}) = <<>>
    BY WithoutAll
  <2> QED BY <1>2, <2>1, <2>2
<1>3. CASE wp_player.connected /\ ~Loading
  <2>1. PICK s : s = <<Handler>>
    OBVIOUS
  <2>2. Connections = s /\ called = {Handler} /\ Fire(Connections).left = <<Handler>>
    BY <1>3, <2>1, FireHandler DEF Connections
  <2>3. DOMAIN s = {1} /\ s[1] = Handler
    BY <2>1
  <2>4. Without(s, called \ {Handler}) = <<Handler>>
    BY <2>3, WithoutButFirst
  <2> QED BY <1>1, <1>3, <2>2, <2>4
<1>4. CASE wp_player.connected /\ Loading
  <2>1. PICK s : s = <<Handler, wp_current>>
    OBVIOUS
  <2>2. wp_current \in Plays
    BY <1>4 DEF Loading
  <2>3. Connections = s /\ called = {Handler, wp_current} /\ Fire(Connections).left = <<Handler>>
    <3>1. Connections = <<Handler, wp_current>>
      BY <1>4, ThreeConnections
    <3>2. Fire(<<Handler, wp_current>>) = [called |-> {Handler, wp_current}, left |-> <<Handler>>]
      BY <2>2, FireBoth
    <3> QED BY <2>1, <3>1, <3>2
  <2>4. DOMAIN s = {1, 2} /\ s[1] = Handler /\ s[2] = wp_current
    BY <2>1
  <2>5. Without(s, called \ {Handler}) = <<Handler>>
    BY <1>1, <2>2, <2>3, <2>4, WithoutButFirst
  <2> QED BY <1>1, <1>4, <2>2, <2>3, <2>5
<1> QED BY <1>2, <1>3, <1>4

LEMMA FiredKeepsInv ==
  ASSUME WebInv, NEW called, called = Fire(Connections).called, Resolve(called),
         wp_current' = wp_current, wp_host' = wp_host,
         wp_calls' \in Seq(PageMessages), wp_signals' \in Seq(PageMessages), wp_heard' \in 0 .. wp_current,
         wp_player' \in Players, wp_player'.connected = wp_player.connected,
         wp_player'.dialog => wp_player.dialog,
         wp_heard' = wp_heard /\ wp_player.started => wp_player'.started,
         wp_heard' # wp_heard /\ wp_player.connected => wp_player'.started,
         wp_playing' = Fire(Connections).left \/ wp_playing' = Without(Connections, called \ {Handler}),
         wp_error' = Fire(Connections).left \/ wp_error' = Without(Connections, called \ {Handler})
  PROVE  WebInv'
<1>1. wp_playing' = (IF wp_player.connected THEN <<Handler>> ELSE <<>>)
      /\ wp_error' = (IF wp_player.connected THEN <<Handler>> ELSE <<>>)
  BY Fired
<1>2. /\ wp_stage \in [Plays -> PlayStages] /\ wp_stage' \in [Plays -> PlayStages]
      /\ \A n \in Plays : wp_stage'[n] = IF n \in called THEN "resolved" ELSE wp_stage[n]
  BY DEF WebInv, WebTyped, PlayStages, Resolve
<1>3. \A n \in Plays : n \in called <=> wp_player.connected /\ Loading /\ n = wp_current
  BY Fired
<1>4. Loading => wp_player.connected
  BY DEF Loading, WebInv, Underway
<1>5. ~Loading'
  <2>1. CASE Loading
    BY <1>2, <1>3, <1>4, <2>1 DEF Loading
  <2>2. CASE ~Loading
    BY <1>2, <1>3, <2>2 DEF Loading
  <2> QED BY <2>1, <2>2
<1>6. Connections' = IF wp_player.connected THEN <<Handler>> ELSE <<>>
  BY <1>5 DEF Connections
<1>7. (\A n \in Plays : Underway(n) => n = wp_current /\ wp_player.connected)'
  BY <1>2 DEF Underway, WebInv
<1>8. PageMessages' = PageMessages
  BY DEF PageMessages
<1>9. WebTyped' /\ OfAskedFor'
  BY <1>2, <1>8 DEF WebInv, WebTyped, OfAskedFor
<1> QED BY <1>1, <1>6, <1>7, <1>9 DEF WebInv

LEMMA TakeSignal ==
  ASSUME WebInv, NEW kind, Take(kind)
  PROVE  wp_signals' \in Seq(PageMessages) /\ Head(wp_signals).of \in 0 .. wp_current
<1>1. Head(wp_signals) \in PageMessages /\ Tail(wp_signals) \in Seq(PageMessages)
  BY Sends DEF WebInv, OfAskedFor, Take
<1> QED BY <1>1 DEF Take, PageMessages

LEMMA PlayingKeepsInv ==
  ASSUME WebInv, OnPlaying
  PROVE  WebInv'
<1>1. PICK called : called = Fire(Connections).called
  OBVIOUS
<1>2. wp_playing = Connections /\ wp_error = Connections
  BY DEF WebInv
<1>3. /\ Take("playing") /\ wp_playing' = Fire(Connections).left
      /\ wp_error' = Without(Connections, called \ {Handler}) /\ Resolve(called)
      /\ wp_player' = IF Handler \notin called THEN wp_player
                      ELSE [wp_player EXCEPT !.paused = FALSE, !.started = TRUE]
      /\ wp_heard' = Head(wp_signals).of /\ UNCHANGED <<wp_current, wp_calls, wp_host>>
  BY <1>1, <1>2 DEF OnPlaying
<1>4. Handler \in called <=> wp_player.connected
  BY <1>1, Fired
<1>5. /\ wp_player' \in Players /\ wp_player'.connected = wp_player.connected
      /\ wp_player'.dialog = wp_player.dialog /\ wp_player.started => wp_player'.started
      /\ wp_player.connected => wp_player'.started
  BY <1>3, <1>4 DEF WebInv, WebTyped, Players
<1>6. wp_signals' \in Seq(PageMessages) /\ wp_heard' \in 0 .. wp_current /\ wp_calls' \in Seq(PageMessages)
  BY <1>3, TakeSignal DEF WebInv, OfAskedFor
<1> QED BY <1>1, <1>3, <1>5, <1>6, FiredKeepsInv

LEMMA ErrorKeepsInv ==
  ASSUME WebInv, OnError
  PROVE  WebInv'
<1>1. PICK called : called = Fire(Connections).called
  OBVIOUS
<1>2. wp_playing = Connections /\ wp_error = Connections
  BY DEF WebInv
<1>3. /\ Take("error") /\ wp_error' = Fire(Connections).left
      /\ wp_playing' = Without(Connections, called \ {Handler}) /\ Resolve(called)
      /\ wp_player' = (IF Handler \in called THEN DialogRemoved(wp_player) ELSE wp_player)
      /\ wp_calls' = (IF Handler \in called THEN Append(wp_calls, Call("stop", NoPlay)) ELSE wp_calls)
      /\ UNCHANGED <<wp_current, wp_host, wp_heard>>
  BY <1>1, <1>2 DEF OnError
<1>4. /\ wp_player' \in Players /\ wp_player'.connected = wp_player.connected
      /\ wp_player'.dialog => wp_player.dialog
      /\ wp_player'.started = wp_player.started
  BY <1>3 DEF WebInv, WebTyped, Players, DialogRemoved
<1>5. wp_calls' \in Seq(PageMessages)
  <2>1. NoPlay \in 0 .. wp_current /\ "stop" \in Ops
    BY CurrentIs DEF WebInv, Ops
  <2>2. Append(wp_calls, Call("stop", NoPlay)) \in Seq(PageMessages) /\ wp_calls \in Seq(PageMessages)
    BY <2>1, Sends DEF WebInv, OfAskedFor
  <2> QED BY <1>3, <2>2
<1>6. wp_signals' \in Seq(PageMessages) /\ wp_heard' \in 0 .. wp_current
  BY <1>3, TakeSignal DEF WebInv, WebTyped
<1> QED BY <1>1, <1>3, <1>4, <1>5, <1>6, FiredKeepsInv

LEMMA OtherKeepsInv ==
  ASSUME WebInv, OnOther
  PROVE  WebInv'
<1>1. UNCHANGED <<wp_current, wp_stage, wp_playing, wp_error, wp_calls, wp_host, wp_heard>>
  BY DEF OnOther
<1>2. /\ wp_player' \in Players /\ wp_player'.connected = wp_player.connected
      /\ wp_player'.started = wp_player.started /\ wp_player'.dialog = wp_player.dialog
  BY DEF OnOther, Ended, WebInv, WebTyped, Players
<1>3. wp_signals' \in Seq(PageMessages)
  BY TakeSignal DEF OnOther
<1> QED BY <1>1, <1>2, <1>3, SameListeners DEF WebInv, WebTyped, OfAskedFor

LEMMA HostKeepsInv ==
  ASSUME WebInv, NEW f \in 0 .. wp_current, NEW phase \in {"Stopped", "Starting", "Playing", "Paused"},
         NEW signals, HostBecomes(f, phase, signals), wp_calls' \in Seq(PageMessages),
         signals = <<>> \/ \E op \in Ops, n \in 0 .. wp_current : signals = <<Call(op, n)>>
  PROVE  WebInv'
<1>1. wp_signals' \in Seq(PageMessages)
  BY Sends DEF HostBecomes, WebInv, OfAskedFor
<1> QED BY <1>1, SameListeners DEF HostBecomes, WebInv, WebTyped

LEMMA HostStepKeepsInv ==
  ASSUME WebInv, HostTakes \/ HostStarts \/ HostEnds
  PROVE  WebInv'
<1>1. wp_host.file \in 0 .. wp_current /\ wp_host.phase \in {"Stopped", "Starting", "Playing", "Paused"}
  BY DEF WebInv, WebTyped
<1>2. \A kind \in Ops : \E op \in Ops, n \in 0 .. wp_current : Announce(kind) = <<Call(op, n)>>
  BY <1>1 DEF Announce
<1>3. CASE HostTakes
  <2>1. PICK call : call = Head(wp_calls)
    OBVIOUS
  <2>2. call \in PageMessages /\ wp_calls' \in Seq(PageMessages)
    BY <1>3, <2>1, Sends DEF HostTakes, WebInv, OfAskedFor
  <2>3. call.of \in 0 .. wp_current
    BY <2>2 DEF PageMessages
  <2>4. \/ HostBecomes(call.of, "Starting", <<>>)
        \/ HostBecomes(call.of, "Starting", <<Call("paused", call.of)>>)
        \/ \E phase \in {"Stopped", "Paused", "Playing", wp_host.phase}, signals \in
                {<<>>, Announce("canceled"), Announce("paused"), Announce("playing")} :
              HostBecomes(wp_host.file, phase, signals)
    BY <1>3, <2>1 DEF HostTakes
  <2>5. "paused" \in Ops /\ "canceled" \in Ops /\ "playing" \in Ops
    BY DEF Ops
  <2>6. CASE HostBecomes(call.of, "Starting", <<>>)
    BY <2>2, <2>3, <2>6, HostKeepsInv
  <2>7. CASE HostBecomes(call.of, "Starting", <<Call("paused", call.of)>>)
    BY <2>2, <2>3, <2>5, <2>7, HostKeepsInv
  <2>8. ASSUME NEW phase \in {"Stopped", "Paused", "Playing", wp_host.phase},
               NEW signals \in {<<>>, Announce("canceled"), Announce("paused"), Announce("playing")},
               HostBecomes(wp_host.file, phase, signals)
        PROVE  WebInv'
    <3>1. signals = <<>> \/ \E op \in Ops, n \in 0 .. wp_current : signals = <<Call(op, n)>>
      BY <1>2, <2>5
    <3>2. phase \in {"Stopped", "Starting", "Playing", "Paused"}
      BY <1>1
    <3> QED BY <1>1, <2>2, <2>8, <3>1, <3>2, HostKeepsInv
  <2> QED BY <2>4, <2>6, <2>7, <2>8
<1>4. CASE HostStarts \/ HostEnds
  <2>1. wp_calls' \in Seq(PageMessages)
    BY <1>4 DEF HostStarts, HostEnds, WebInv, OfAskedFor
  <2>2. \E phase \in {"Playing", "Stopped"}, kind \in {"playing", "finished", "error"} :
          HostBecomes(wp_host.file, phase, Announce(kind))
    BY <1>4 DEF HostStarts, HostEnds
  <2> QED BY <1>1, <1>2, <2>1, <2>2, HostKeepsInv DEF Ops
<1> QED BY <1>3, <1>4

LEMMA WebNextKeepsInv ==
  ASSUME WebInv, ~MayAbandon, [WebNext]_wpvars
  PROVE  WebInv'
<1>1. CASE UNCHANGED wpvars
  BY <1>1, SameListeners DEF wpvars, WebInv, WebTyped, OfAskedFor
<1>2. CASE WebNext
  BY <1>2, PlayKeepsInv, ZoomedKeepsInv, LoadKeepsInv, ControlKeepsInv, DestroyKeepsInv,
     PlayingKeepsInv, ErrorKeepsInv, OtherKeepsInv, HostStepKeepsInv DEF WebNext
<1> QED BY <1>1, <1>2

(* As long as the page asks for nothing while a play has not begun, the     *)
(* player acts upon the first frame of the file it shows, whatever became   *)
(* of the loads before (web/mpv-video-player.js): no one-shot listener of   *)
(* an older load is left ahead of its own.                                  *)
THEOREM FirstFrameIsHeard == ~MayAbandon => (WebSpec => []FirstFrameReported)
<1> SUFFICES ASSUME ~MayAbandon PROVE WebSpec => []FirstFrameReported
  OBVIOUS
<1>1. WebInit => WebInv
  BY WebInitInv
<1>2. WebInv /\ [WebNext]_wpvars => WebInv'
  BY WebNextKeepsInv
<1>3. WebInv => FirstFrameReported
  BY DEF WebInv, FirstFrameReported
<1> QED BY <1>1, <1>2, <1>3, PTL DEF WebSpec
=============================================================================
