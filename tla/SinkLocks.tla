------------------------------ MODULE SinkLocks ------------------------------
(***************************************************************************)
(* The locks on the way from the coordinator's worker to the OS media      *)
(* session (playback/src/ffi.rs, coordinator.rs, mpris/src/sink.rs,        *)
(* sink_core.rs): the singleton slot, the list of event sinks, which the   *)
(* worker holds while it calls them, and the producer end of the session's *)
(* queue, which a sink locks for every event.                              *)
(*                                                                         *)
(* Four threads meet here: the worker, the one that starts and stops the   *)
(* session, one that posts inputs, and the one that shuts playback down    *)
(* and joins the worker.                                                   *)
(***************************************************************************)
EXTENDS Naturals

CONSTANT Batches   \* bound on the worker's batches
ASSUME BatchesAssumption == Batches \in Nat

Threads == {"worker", "session", "poster", "main"}
Locks == {"slot", "sinks", "media"}
Nobody == "nobody"

VARIABLES
  sk_pc,        \* where each thread is
  sk_owner,     \* who holds each lock
  sk_coord,     \* the slot holds the coordinator
  sk_tx,        \* the coordinator's sender is open
  sk_sinks,     \* the session's sink is registered
  sk_media,     \* the session is running
  sk_left       \* batches still to come

skvars == <<sk_pc, sk_owner, sk_coord, sk_tx, sk_sinks, sk_media, sk_left>>

LocksInit ==
  /\ sk_pc = [t \in Threads |-> IF t = "worker" THEN "recv" ELSE "start"]
  /\ sk_owner = [l \in Locks |-> Nobody]
  /\ sk_coord = TRUE /\ sk_tx = TRUE
  /\ sk_sinks = FALSE /\ sk_media = FALSE
  /\ sk_left = Batches

At(t, pc) == sk_pc[t] = pc
Goto(t, pc) == sk_pc' = [sk_pc EXCEPT ![t] = pc]
Free(l) == sk_owner[l] = Nobody
Hold(l, t) == sk_owner' = [sk_owner EXCEPT ![l] = t]
Release(l) == sk_owner' = [sk_owner EXCEPT ![l] = Nobody]
-----------------------------------------------------------------------------
(* The worker: a batch with at least one event; every sink is called under *)
(* the list's lock, and the session's sink locks the session's producer.   *)

WorkerDispatch ==
  /\ At("worker", "recv") /\ sk_left > 0 /\ sk_tx
  /\ Free("sinks") /\ Hold("sinks", "worker")
  /\ sk_left' = sk_left - 1
  /\ Goto("worker", IF sk_sinks THEN "sink" ELSE "builtin")
  /\ UNCHANGED <<sk_coord, sk_tx, sk_sinks, sk_media>>

(* deliver / on_event: the lock is taken and given back around a send that *)
(* never blocks.                                                           *)
WorkerCallsSink ==
  /\ At("worker", "sink") /\ Free("media")
  /\ Goto("worker", "builtin")
  /\ UNCHANGED <<sk_owner, sk_coord, sk_tx, sk_sinks, sk_media, sk_left>>

(* The builtin sinks run with the list still locked. *)
WorkerDone ==
  /\ At("worker", "builtin")
  /\ Release("sinks") /\ Goto("worker", "recv")
  /\ UNCHANGED <<sk_coord, sk_tx, sk_sinks, sk_media, sk_left>>

(* recv fails once the sender is gone. *)
WorkerExits ==
  /\ At("worker", "recv") /\ ~sk_tx
  /\ Goto("worker", "exited")
  /\ UNCHANGED <<sk_owner, sk_coord, sk_tx, sk_sinks, sk_media, sk_left>>
-----------------------------------------------------------------------------
(* The session: `start` installs the producer, gives the lock back and     *)
(* only then registers; `stop` takes it out again.                         *)

InstallProducer ==
  /\ At("session", "start") /\ Free("media")
  /\ sk_media' = TRUE
  /\ Goto("session", "register")
  /\ UNCHANGED <<sk_owner, sk_coord, sk_tx, sk_sinks, sk_left>>

(* register_event_sink -> with_coord: the slot stays locked ... *)
RegisterLocksSlot ==
  /\ At("session", "register") /\ Free("slot")
  /\ Hold("slot", "session") /\ Goto("session", "add")
  /\ UNCHANGED <<sk_coord, sk_tx, sk_sinks, sk_media, sk_left>>

(* ... while add_event_sink waits for the list.  Without a coordinator     *)
(* nothing is registered.                                                  *)
AddSink ==
  /\ At("session", "add")
  /\ sk_coord => Free("sinks")
  /\ sk_sinks' = (sk_sinks \/ sk_coord)
  /\ sk_owner' = [l \in Locks |->
                    IF sk_owner[l] = "session" THEN Nobody ELSE sk_owner[l]]
  /\ Goto("session", "running")
  /\ UNCHANGED <<sk_coord, sk_tx, sk_media, sk_left>>

StopSession ==
  /\ At("session", "running") /\ Free("media")
  /\ sk_media' = FALSE
  /\ Goto("session", "stopped")
  /\ UNCHANGED <<sk_owner, sk_coord, sk_tx, sk_sinks, sk_left>>
-----------------------------------------------------------------------------
(* post: the slot is locked only to clone a handle. *)
PostLocksSlot ==
  /\ At("poster", "start") /\ Free("slot")
  /\ Hold("slot", "poster") /\ Goto("poster", "clone")
  /\ UNCHANGED <<sk_coord, sk_tx, sk_sinks, sk_media, sk_left>>

PostReleasesSlot ==
  /\ At("poster", "clone")
  /\ Release("slot") /\ Goto("poster", "start")
  /\ UNCHANGED <<sk_coord, sk_tx, sk_sinks, sk_media, sk_left>>

(* jfn_playback_shutdown takes the coordinator out, gives the slot back,   *)
(* drops the sender and joins the worker.                                  *)
TakeCoordinator ==
  /\ At("main", "start") /\ Free("slot")
  /\ sk_coord' = FALSE
  /\ Goto("main", "stop")
  /\ UNCHANGED <<sk_owner, sk_tx, sk_sinks, sk_media, sk_left>>

CloseSender ==
  /\ At("main", "stop")
  /\ sk_tx' = FALSE /\ Goto("main", "join")
  /\ UNCHANGED <<sk_owner, sk_coord, sk_sinks, sk_media, sk_left>>

JoinWorker ==
  /\ At("main", "join") /\ At("worker", "exited")
  /\ Goto("main", "done")
  /\ UNCHANGED <<sk_owner, sk_coord, sk_tx, sk_sinks, sk_media, sk_left>>

LockWorkerStep == WorkerDispatch \/ WorkerCallsSink \/ WorkerDone \/ WorkerExits
SessionStep ==
  InstallProducer \/ RegisterLocksSlot \/ AddSink \/ StopSession
PosterStep == PostLocksSlot \/ PostReleasesSlot
MainStep == TakeCoordinator \/ CloseSender \/ JoinWorker

LocksNext == LockWorkerStep \/ SessionStep \/ PosterStep \/ MainStep

LocksSpec == LocksInit /\ [][LocksNext]_skvars
-----------------------------------------------------------------------------
(* The lock a thread is about to take.  No sink of today's takes the slot, *)
(* though a comment in jfn_playback_shutdown says that sinks post.         *)
Wants_SinksPost(t) ==
  {l \in Locks :
     \/ /\ l = "slot"
        /\ \/ t = "session" /\ At(t, "register")
           \/ t = "worker" /\ At(t, "builtin")
           \/ t \in {"poster", "main"} /\ At(t, "start")
     \/ /\ l = "sinks"
        /\ \/ At(t, "recv") /\ sk_left > 0 /\ sk_tx
           \/ At(t, "add") /\ sk_coord}

Wants(t) ==
  {l \in Locks :
     \/ /\ l = "slot"
        /\ \/ t = "session" /\ At(t, "register")
           \/ t \in {"poster", "main"} /\ At(t, "start")
     \/ /\ l = "sinks"
        /\ \/ At(t, "recv") /\ sk_left > 0 /\ sk_tx
           \/ At(t, "add") /\ sk_coord
     \/ /\ l = "media"
        /\ \/ At(t, "sink")
           \/ t = "session" /\ sk_pc[t] \in {"start", "running"}}

(* Whom a thread waits for: the holder of that lock, or the worker's end.  *)
WaitsFor(t) ==
  ({sk_owner[l] : l \in Wants(t)} \ {Nobody})
    \union (IF At("main", "join") /\ t = "main" /\ ~At("worker", "exited")
            THEN {"worker"} ELSE {})

Waiting == {t \in Threads : WaitsFor(t) # {}}

(* No circle of waiting threads: following whoever a thread waits for      *)
(* always ends at a thread that waits for nobody, however the registration *)
(* of the session, the worker's calls and the shutdown interleave.         *)
NoCircularWait ==
  \A T \in SUBSET Waiting :
    T # {} => \E t \in T : WaitsFor(t) \intersect T = {}
=============================================================================
