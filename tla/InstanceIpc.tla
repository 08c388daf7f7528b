---------------------------- MODULE InstanceIpc ----------------------------
(***************************************************************************)
(* One instance of the program per profile (instance_ipc/src/lib.rs,       *)
(* instance_ipc/src/policy.rs, and main of jfn_rust/src/app.rs): a launch  *)
(* binds the profile's name and runs, or finds somebody there and pings    *)
(* them instead.  A name may outlive the process that bound it, so a       *)
(* launch that finds it taken knocks first, and takes it over if nobody    *)
(* answers; other launches, exits and crashes happen in between.           *)
(*                                                                         *)
(* On Unix a bind that may overwrite replaces whatever file is there, and  *)
(* the end of a listener unlinks the file by its path; a Windows pipe      *)
(* belongs to its process, but may be refused for a while after it.        *)
(***************************************************************************)
EXTENDS Naturals, FiniteSets

CONSTANTS
  Launches,        \* processes, each of which is started at most once
  NoLaunch,        \* no process
  MaxConnections,  \* connections served at once
  RebindRetries    \* retries of a rebind

ASSUME InstanceAssumption ==
  /\ IsFiniteSet(Launches) /\ NoLaunch \notin Launches
  /\ MaxConnections \in Nat \ {0} /\ RebindRetries \in Nat

VARIABLES
  ii_unix,     \* the platform
  ii_pc,       \* where each launch is
  ii_name,     \* the launch that bound the name last, if it exists
  ii_retries,  \* rebind retries a launch has made
  ii_conns,    \* connections to a running instance
  ii_overlap   \* history: two launches were under way at once

iivars == <<ii_unix, ii_pc, ii_name, ii_retries, ii_conns, ii_overlap>>

Launching == {"make", "probe", "rebind"}
Where == Launching \cup {"off", "notify", "ping", "running", "ended"}

InstanceTypeOK ==
  /\ ii_unix \in BOOLEAN /\ ii_overlap \in BOOLEAN
  /\ ii_pc \in [Launches -> Where]
  /\ ii_name \in Launches \cup {NoLaunch}
  /\ ii_retries \in [Launches -> 0 .. RebindRetries]
  /\ ii_conns \subseteq [by : Launches, to : Launches,
                         at : {"queued", "served", "answered"}]

InstanceInit ==
  /\ ii_unix \in BOOLEAN
  /\ ii_pc = [l \in Launches |-> "off"]
  /\ ii_name = NoLaunch
  /\ ii_retries = [l \in Launches |-> 0]
  /\ ii_conns = {}
  /\ ii_overlap = FALSE

Goto(l, where) == ii_pc' = [ii_pc EXCEPT ![l] = where]

Listening == ii_name # NoLaunch /\ ii_pc[ii_name] = "running"

-----------------------------------------------------------------------------
(* A launch: Listener::create_with *)

StartUp(l) ==
  /\ ii_pc[l] = "off"
  /\ Goto(l, "make")
  /\ ii_overlap' = (ii_overlap \/ \E k \in Launches : ii_pc[k] \in Launching)
  /\ UNCHANGED <<ii_unix, ii_name, ii_retries, ii_conns>>

(* make(name, false)                                                       *)
Make(l) ==
  /\ ii_pc[l] = "make"
  /\ IF ii_name = NoLaunch
     THEN Goto(l, "running") /\ ii_name' = l
     ELSE Goto(l, "probe") /\ UNCHANGED ii_name
  /\ UNCHANGED <<ii_unix, ii_retries, ii_conns, ii_overlap>>

(* What connect reports, and whether that means the holder is gone.  A     *)
(* live holder may still be out of reach.                                  *)
ProbeOutcomes ==
  IF ii_name = NoLaunch THEN {"not_found"}
  ELSE IF Listening THEN {"connected", "other"}
  ELSE {"refused", "other"}

ProbeIsStale_AnyError(outcome) == outcome # "connected"

ProbeIsStale(outcome) == outcome \in {"refused", "not_found"}

(* The connection of a probe is dropped at once and not followed further.  *)
Probe(l) ==
  /\ ii_pc[l] = "probe"
  /\ \E outcome \in ProbeOutcomes :
       Goto(l, IF outcome = "connected" THEN "notify"
               ELSE IF ProbeIsStale(outcome) THEN "rebind" ELSE "ended")
  /\ UNCHANGED <<ii_unix, ii_name, ii_retries, ii_conns, ii_overlap>>

(* make(name, true), retried: Unix takes the name whoever has it.          *)
Rebind(l) ==
  /\ ii_pc[l] = "rebind"
  /\ \/ /\ ii_unix \/ ii_name = NoLaunch
        /\ Goto(l, "running") /\ ii_name' = l
        /\ UNCHANGED ii_retries
     \/ /\ ii_retries[l] < RebindRetries
        /\ ii_retries' = [ii_retries EXCEPT ![l] = @ + 1]
        /\ UNCHANGED <<ii_pc, ii_name>>
     \/ /\ ii_retries[l] = RebindRetries
        /\ Goto(l, "ended")
        /\ UNCHANGED <<ii_name, ii_retries>>
  /\ UNCHANGED <<ii_unix, ii_conns, ii_overlap>>

(* notify_running: the launch ends with or without an answer.              *)
Notify(l) ==
  /\ ii_pc[l] = "notify"
  /\ IF Listening
     THEN /\ Goto(l, "ping")
          /\ ii_conns' = ii_conns \cup {[by |-> l, to |-> ii_name, at |-> "queued"]}
     ELSE Goto(l, "ended") /\ UNCHANGED ii_conns
  /\ UNCHANGED <<ii_unix, ii_name, ii_retries, ii_overlap>>

Acked(l) ==
  /\ ii_pc[l] = "ping"
  /\ \A c \in ii_conns : c.by = l => c.at = "answered"
  /\ Goto(l, "ended")
  /\ ii_conns' = {c \in ii_conns : c.by # l}
  /\ UNCHANGED <<ii_unix, ii_name, ii_retries, ii_overlap>>
-----------------------------------------------------------------------------
(* A running instance: accept_loop, serve and the end of the process *)

Active(l) == {c \in ii_conns : c.to = l /\ c.at # "queued"}
HasCapacity(l) == Cardinality(Active(l)) < MaxConnections

Accept(l) ==
  /\ ii_pc[l] = "running"
  /\ \E c \in ii_conns :
       /\ c.to = l /\ c.at = "queued"
       /\ ii_conns' = (ii_conns \ {c}) \cup
            (IF HasCapacity(l) THEN {[c EXCEPT !.at = "served"]} ELSE {})
  /\ UNCHANGED <<ii_unix, ii_pc, ii_name, ii_retries, ii_overlap>>

(* A frame is answered, or the connection has been idle for too long.      *)
Serve(l) ==
  /\ ii_pc[l] = "running"
  /\ \E c \in ii_conns :
       /\ c.to = l /\ c.at = "served"
       /\ \/ ii_conns' = (ii_conns \ {c}) \cup {[c EXCEPT !.at = "answered"]}
          \/ ii_conns' = ii_conns \ {c}
  /\ UNCHANGED <<ii_unix, ii_pc, ii_name, ii_retries, ii_overlap>>

Hangup(l) == ii_conns' = {c \in ii_conns : c.to # l /\ c.by # l}

(* Drop for Listener; the file is unlinked by its path.                    *)
Quit(l) ==
  /\ ii_pc[l] = "running"
  /\ Goto(l, "ended") /\ Hangup(l)
  /\ ii_name' = IF ii_unix \/ ii_name = l THEN NoLaunch ELSE ii_name
  /\ UNCHANGED <<ii_unix, ii_retries, ii_overlap>>

(* A process dies and leaves the name behind.                              *)
Crash(l) ==
  /\ ii_pc[l] \notin {"off", "ended"}
  /\ Goto(l, "ended") /\ Hangup(l)
  /\ UNCHANGED <<ii_unix, ii_name, ii_retries, ii_overlap>>

(* A pipe is gone once the last handle to it is.                           *)
PipeGone ==
  /\ ~ii_unix /\ ii_name # NoLaunch /\ ~Listening
  /\ ii_name' = NoLaunch
  /\ UNCHANGED <<ii_unix, ii_pc, ii_retries, ii_conns, ii_overlap>>

InstanceNext ==
  \/ \E l \in Launches :
       \/ StartUp(l) \/ Make(l) \/ Probe(l) \/ Rebind(l) \/ Notify(l) \/ Acked(l)
       \/ Accept(l) \/ Serve(l) \/ Quit(l) \/ Crash(l)
  \/ PipeGone

InstanceSpec == InstanceInit /\ [][InstanceNext]_iivars
-----------------------------------------------------------------------------
Running == {l \in Launches : ii_pc[l] = "running"}

(* "A running instance holds the name, and is the only one": whatever      *)
(* exits and crashes happen while a launch looks at the name, it takes it  *)
(* from a live instance only if another launch was under way with it.      *)
OneInstance == ~ii_overlap => \A l \in Running : ii_name = l

(* Without that exception two launches that find the same dead name both   *)
(* take it, and both run.                                                  *)
AlwaysOneInstance == \A l \in Running : ii_name = l
=============================================================================
