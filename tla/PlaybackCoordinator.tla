------------------------ MODULE PlaybackCoordinator ------------------------
(***************************************************************************)
(* The playback coordinator (src/src/playback/src/coordinator.rs) and its  *)
(* singleton slot (ffi.rs).  Producers on any thread clone a handle and    *)
(* send inputs into an unbounded channel; one worker thread takes them in  *)
(* batches, runs them through the state machine it owns, publishes the     *)
(* snapshot and hands the batch's events and actions to the sinks; the     *)
(* main thread shuts it down.                                              *)
(*                                                                         *)
(* The state machine's variables are the worker's own: nobody else reads   *)
(* them.  `worker` is the worker's program counter.  The stages in which   *)
(* it calls the sinks are steps of this module with no effect of their     *)
(* own; the modules that compose it with sinks give them one.              *)
(***************************************************************************)
EXTENDS PlaybackStateMachine, SequencesExt

CONSTANTS
  Producers,    \* threads that post
  Inputs,       \* the inputs they post: [op |-> ..., arg |-> ...]
  None,         \* no input in hand
  MaxBacklog    \* bound on inputs queued or in the batch being applied

ASSUME MaxBacklogAssumption == MaxBacklog \in Nat

(* The inputs a producer can build: the variants of `Input` with their     *)
(* payloads.                                                               *)
ValidInput(i) ==
  \/ i.op \in {"FileLoaded", "Artwork", "QueueCaps"}
  \/ i.op = "LoadStarting" /\ i.arg \in Items \union {NoItem}
  \/ i.op = "EndFile" /\ i.arg \in EndReasons
  \/ /\ i.op \in {"PauseChanged", "SeekingChanged", "PausedForCache", "CoreIdle",
                  "VideoFrameAvailable"}
     /\ i.arg \in BOOLEAN
  \/ i.op \in {"Position", "Seeked"} /\ i.arg \in Positions
  \/ i.op \in {"MediaType", "Metadata"} /\ i.arg \in MediaTypes
  \/ /\ i.op = "Scalar"
     /\ i.arg[1] \in ScalarFields /\ i.arg[2] \in ScalarValues
  \/ i.op = "Fullscreen" /\ i.arg[1] \in BOOLEAN /\ i.arg[2] \in BOOLEAN
ASSUME InputsAssumption == \A i \in Inputs : ValidInput(i)

(* Inputs that are not routed through the state machine at all, and those  *)
(* that add an event of their own behind the state machine's.              *)
Untracked == {"Artwork", "QueueCaps"}
Trailer(i) == CASE i.op = "Metadata"  -> <<Ev("MetadataChanged")>>
                [] i.op = "Seeked"    -> <<Ev("Seeked")>>
                [] i.op = "Artwork"   -> <<Ev("ArtworkChanged")>>
                [] i.op = "QueueCaps" -> <<Ev("QueueCapsChanged")>>
                [] OTHER              -> <<>>
BatchKinds == EventKinds \union
  {"MetadataChanged", "Seeked", "ArtworkChanged", "QueueCapsChanged"}

(* The sinks, in the order of one worker iteration: the registered event   *)
(* sinks (the OS media session), the three builtin event sinks, and the    *)
(* builtin action sink.                                                    *)
Stages == <<"media", "idle", "browser", "theme", "apply">>
Dispatching == {Stages[n] : n \in DOMAIN Stages}

VARIABLES
  slot,         \* coord_slot() holds the coordinator
  tx_open,      \* Shared.tx is Some
  queue,        \* the channel
  hand,         \* hand[p]: the input p is about to send through its handle
  worker,       \* the worker thread's program counter
  batch,        \* how many inputs the current iteration has taken
  events, actions,  \* the iteration's events and actions
  published,    \* Shared.snapshot
  shutdown      \* the main thread's progress through jfn_playback_shutdown

channel == <<slot, tx_open, queue, hand, shutdown>>
iteration == <<worker, batch, events, actions, published>>
cvars == <<channel, iteration>>
allvars == <<vars, cvars>>

Snapshot == [presence |-> presence, phase |-> phase, seeking |-> seeking,
             buffering |-> buffering, media_type |-> media_type,
             position_us |-> position_us, fullscreen |-> fullscreen,
             maximized |-> maximized_before_fullscreen, scalar |-> scalar,
             variant |-> variant_switch_pending]

CInit ==
  /\ Init
  /\ slot = TRUE /\ tx_open = TRUE
  /\ queue = <<>>
  /\ hand = [p \in Producers |-> None]
  /\ worker = "recv" /\ batch = 0
  /\ events = <<>> /\ actions = <<>>
  /\ published = Snapshot
  /\ shutdown = "no"
-----------------------------------------------------------------------------
(* Producers *)

Room == Len(queue) + batch < MaxBacklog

Enqueue_AfterStop(i) == queue' = Append(queue, i)

(* `CoordinatorHandle::enqueue`: dropped once `stop` took the sender. *)
Enqueue(i) ==
  queue' = IF tx_open THEN Append(queue, i) ELSE queue

(* `post`: the slot is locked only to clone the handle ... *)
PostClone(p, i) ==
  /\ hand[p] = None
  /\ slot
  /\ Room
  /\ hand' = [hand EXCEPT ![p] = i]
  /\ UNCHANGED <<slot, tx_open, queue, shutdown, iteration, vars>>

(* ... and the input is sent after the slot is released. *)
PostSend(p) ==
  /\ hand[p] # None
  /\ Room
  /\ Enqueue(hand[p])
  /\ hand' = [hand EXCEPT ![p] = None]
  /\ UNCHANGED <<slot, tx_open, shutdown, iteration, vars>>
-----------------------------------------------------------------------------
(* The worker *)

Apply(i) ==
  \/ i.op = "FileLoaded" /\ OnFileLoaded
  \/ i.op = "LoadStarting" /\ OnLoadStarting(i.arg)
  \/ i.op = "PauseChanged" /\ OnPauseChanged(i.arg)
  \/ i.op = "EndFile" /\ OnEndFile(i.arg)
  \/ i.op = "SeekingChanged" /\ OnSeekingChanged(i.arg)
  \/ i.op = "PausedForCache" /\ OnPausedForCache(i.arg)
  \/ i.op = "CoreIdle" /\ OnCoreIdle(i.arg)
  \/ i.op \in {"Position", "Seeked"} /\ OnPosition(i.arg)
  \/ i.op \in {"MediaType", "Metadata"} /\ OnMediaType(i.arg)
  \/ i.op = "VideoFrameAvailable" /\ OnVideoFrameAvailable(i.arg)
  \/ i.op = "Scalar" /\ OnScalar(i.arg[1], i.arg[2])
  \/ i.op = "Fullscreen" /\ OnFullscreen(i.arg[1], i.arg[2])
  \/ i.op \in Untracked /\ Ignored

(* `recv` returns the first input of a batch, `try_iter` the others. *)
TakeInput ==
  /\ worker \in {"recv", "drain"}
  /\ queue # <<>>
  /\ queue' = Tail(queue)
  /\ batch' = batch + 1
  /\ Apply(Head(queue))
  /\ events' = events \o emitted' \o Trailer(Head(queue))
  /\ worker' = "consume"
  /\ UNCHANGED <<slot, tx_open, hand, shutdown, actions, published>>

(* `out.append(&mut emitted)` has emptied the returned Vec. *)
TakeActions ==
  /\ worker = "consume"
  /\ actions' = actions \o pending_actions
  /\ pending_actions' = <<>>
  /\ emitted' = <<>>
  /\ worker' = "drain"
  /\ UNCHANGED <<channel, batch, events, published, transport, gates, window,
                 seeking, buffering, position_us, scalar, end_eaten>>

BatchComplete_Unpublished ==
  /\ worker = "drain" /\ queue = <<>>
  /\ worker' = Head(Stages)
  /\ UNCHANGED <<channel, batch, events, actions, published, vars>>

(* The channel is momentarily empty: the batch is complete.  Every event   *)
(* of it will carry the snapshot after the last input.                     *)
BatchComplete ==
  /\ worker = "drain"
  /\ queue = <<>>
  /\ worker' = "publish"
  /\ UNCHANGED <<channel, batch, events, actions, published, vars>>

Publish ==
  /\ worker = "publish"
  /\ published' = Snapshot
  /\ worker' = Head(Stages)
  /\ UNCHANGED <<channel, batch, events, actions, vars>>

(* The worker is done with the sinks of a stage. *)
Advance(stage) ==
  /\ worker = stage
  /\ IF stage = Last(Stages)
     THEN /\ worker' = "recv"
          /\ batch' = 0 /\ events' = <<>> /\ actions' = <<>>
     ELSE /\ worker' = LET n == CHOOSE n \in DOMAIN Stages : Stages[n] = stage
                       IN Stages[n + 1]
          /\ UNCHANGED <<batch, events, actions>>
  /\ UNCHANGED <<channel, published, vars>>

(* `recv` fails once the sender is gone and the channel is empty. *)
WorkerExit ==
  /\ worker = "recv"
  /\ queue = <<>> /\ ~tx_open
  /\ worker' = "exited"
  /\ UNCHANGED <<channel, batch, events, actions, published, vars>>
-----------------------------------------------------------------------------
(* jfn_playback_shutdown, on the main thread *)

(* The coordinator is taken out of the slot, which is not held any more    *)
(* while `stop` waits for a worker whose sinks may need it.                *)
ShutdownTake ==
  /\ shutdown = "no"
  /\ slot' = FALSE
  /\ shutdown' = "taken"
  /\ UNCHANGED <<tx_open, queue, hand, iteration, vars>>

StopSender_Kept ==
  /\ shutdown = "taken"
  /\ shutdown' = "joining"
  /\ UNCHANGED <<slot, tx_open, queue, hand, iteration, vars>>

StopSender ==
  /\ shutdown = "taken"
  /\ tx_open' = FALSE
  /\ shutdown' = "joining"
  /\ UNCHANGED <<slot, queue, hand, iteration, vars>>

StopJoin ==
  /\ shutdown = "joining"
  /\ worker = "exited"
  /\ shutdown' = "done"
  /\ UNCHANGED <<slot, tx_open, queue, hand, iteration, vars>>

Finished ==
  /\ shutdown = "done" /\ \A p \in Producers : hand[p] = None
  /\ UNCHANGED allvars

WorkerStep == \/ TakeInput \/ TakeActions \/ BatchComplete \/ Publish
              \/ WorkerExit
Shutdown == ShutdownTake \/ StopSender \/ StopJoin
Post == \/ \E p \in Producers, i \in Inputs : PostClone(p, i)
        \/ \E p \in Producers : PostSend(p)

CNext == \/ Post \/ WorkerStep \/ Shutdown \/ Finished
         \/ \E stage \in Dispatching : Advance(stage)

(* The threads the OS schedules: the worker, and a main thread that has    *)
(* begun to shut down.  Producers need not post.                           *)
CFairness ==
  /\ WF_allvars(WorkerStep \/ \E stage \in Dispatching : Advance(stage))
  /\ WF_allvars(StopSender) /\ WF_allvars(StopJoin)

CSpec == CInit /\ [][CNext]_allvars /\ CFairness
-----------------------------------------------------------------------------
CTypeOK ==
  /\ TypeOK
  /\ slot \in BOOLEAN /\ tx_open \in BOOLEAN
  /\ queue \in Seq(Inputs)
  /\ hand \in [Producers -> Inputs \union {None}]
  /\ worker \in Dispatching \union
       {"recv", "drain", "consume", "publish", "exited"}
  /\ batch \in 0 .. MaxBacklog
  /\ events \in Seq([kind : BatchKinds, flag : BOOLEAN])
  /\ actions \in Seq({ApplyTracks})
  /\ shutdown \in {"no", "taken", "joining", "done"}

(* What other threads read through jfn_playback_snapshot is never behind   *)
(* what a sink is being told: when the first sink hears of a batch the     *)
(* snapshot after the whole batch is already public, and stays the state   *)
(* machine's state until the worker takes the next input.                  *)
SinksSeePublished ==
  worker \in Dispatching \union {"recv", "exited"} => published = Snapshot

(* The worker leaves nothing behind: an input accepted before stop, even   *)
(* through a handle cloned earlier, has been applied and its events        *)
(* dispatched when stop returns, and nothing is queued behind its back.    *)
StopDrains ==
  shutdown = "done" =>
    queue = <<>> /\ events = <<>> /\ actions = <<>> /\ published = Snapshot

(* Once the main thread has begun to stop the coordinator, the join        *)
(* returns: the sender it drops is the last one, and it holds no lock that *)
(* the worker's sinks need to finish their batch.                          *)
StopReturns == shutdown = "taken" ~> shutdown = "done"
=============================================================================
