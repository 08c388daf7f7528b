------------------------------ MODULE CefPump ------------------------------
(***************************************************************************)
(* The external message pump of CEF on macOS (macos/src/cef_pump.rs).  CEF *)
(* asks for work from any of its threads; a source of the main run loop    *)
(* serves what is due now, a timer what is due later, and both drain CEF.  *)
(*                                                                         *)
(* CEF is external.  Of its work deduplicator there is what the comments   *)
(* of the pump rely on: while work is requested or under way further       *)
(* requests are dropped, a run that is cut short leaves it in that state,  *)
(* and entering do_message_loop_work again is the way out.                 *)
(***************************************************************************)
EXTENDS Naturals

CONSTANTS
  CefThreads,   \* the threads that post work
  MaxPosts,     \* bound on the tasks posted
  MaxDelayed    \* bound on the tasks that leave a delayed one behind

ASSUME PumpAssumption == MaxPosts \in Nat /\ MaxDelayed \in Nat

VARIABLES
  cp_tasks,     \* CEF: tasks that can run now
  cp_later,     \* CEF: a task is waiting for its time
  cp_dedup,     \* CEF: idle, requested, in work
  cp_thread,    \* on_schedule(0): where each thread is in it
  cp_main,      \* the main thread: in its loop, in CEF, behind CEF
  cp_slow,      \* the drain took longer than CEF's time slice
  cp_pending,   \* WORK_SOURCE_PENDING
  cp_source,    \* the source: signalled, quiet, gone
  cp_timer,     \* the timer: armed, far (in the far future), gone
  cp_shutdown,  \* PUMP_SHUTDOWN
  cp_posts, cp_delays   \* how many tasks and delayed tasks there were

cp_cef == <<cp_tasks, cp_later, cp_dedup>>
cp_loop == <<cp_source, cp_timer>>
cpvars == <<cp_cef, cp_thread, cp_main, cp_slow, cp_pending, cp_loop,
            cp_shutdown, cp_posts, cp_delays>>

PumpInit ==
  /\ cp_tasks = 0 /\ cp_later = FALSE /\ cp_dedup = "idle"
  /\ cp_thread = [t \in CefThreads |-> "idle"]
  /\ cp_main = "loop" /\ cp_slow = FALSE
  /\ cp_pending = FALSE /\ cp_source = "quiet" /\ cp_timer = "far"
  /\ cp_shutdown = FALSE
  /\ cp_posts = 0 /\ cp_delays = 0
-----------------------------------------------------------------------------
(* CEF's threads *)

(* Only the first request since the deduplicator was idle is passed on.    *)
PostTask(t) ==
  /\ cp_thread[t] = "idle" /\ cp_posts < MaxPosts
  /\ cp_posts' = cp_posts + 1
  /\ cp_tasks' = cp_tasks + 1
  /\ IF cp_dedup = "idle"
     THEN cp_dedup' = "requested" /\ cp_thread' = [cp_thread EXCEPT ![t] = "asking"]
     ELSE UNCHANGED <<cp_dedup, cp_thread>>
  /\ UNCHANGED <<cp_later, cp_main, cp_slow, cp_pending, cp_loop, cp_shutdown, cp_delays>>

(* on_schedule and signal_work_source: the shadow flag is set first ...    *)
MarkPending(t) ==
  /\ cp_thread[t] = "asking"
  /\ IF cp_shutdown \/ cp_source = "gone"
     THEN cp_thread' = [cp_thread EXCEPT ![t] = "idle"] /\ UNCHANGED cp_pending
     ELSE cp_thread' = [cp_thread EXCEPT ![t] = "marked"] /\ cp_pending' = TRUE
  /\ UNCHANGED <<cp_cef, cp_main, cp_slow, cp_loop, cp_shutdown, cp_posts, cp_delays>>

Signalled(source) == IF source = "gone" THEN source ELSE "signalled"

(* ... then the source is signalled and the run loop woken.                *)
SignalSource(t) ==
  /\ cp_thread[t] = "marked"
  /\ cp_thread' = [cp_thread EXCEPT ![t] = "idle"]
  /\ cp_source' = Signalled(cp_source)
  /\ UNCHANGED <<cp_cef, cp_main, cp_slow, cp_pending, cp_timer, cp_shutdown,
                 cp_posts, cp_delays>>
-----------------------------------------------------------------------------
(* The main thread *)

(* pump_drain up to CEF, which has the first task run before it looks at   *)
(* the time for the first time.                                            *)
Drain(ready) ==
  IF cp_shutdown THEN UNCHANGED <<cp_tasks, cp_dedup, cp_main, cp_pending>>
  ELSE /\ cp_pending' = FALSE
       /\ cp_dedup' = "working" /\ cp_main' = "in CEF"
       /\ cp_tasks' = IF ready = 0 THEN 0 ELSE ready - 1

SourceFires ==
  /\ cp_main = "loop" /\ cp_source = "signalled"
  /\ cp_source' = "quiet"
  /\ Drain(cp_tasks)
  /\ UNCHANGED <<cp_later, cp_thread, cp_slow, cp_timer, cp_shutdown, cp_posts, cp_delays>>

(* It was armed for the time of the delayed task.  It is made with an      *)
(* interval of 0, and CoreFoundation may do away with such a timer once it *)
(* has fired.                                                              *)
TimerFires ==
  /\ cp_main = "loop" /\ cp_timer = "armed"
  /\ cp_timer' \in {"far", "gone"}
  /\ cp_later' = FALSE
  /\ Drain(IF cp_later THEN cp_tasks + 1 ELSE cp_tasks)
  /\ UNCHANGED <<cp_thread, cp_slow, cp_source, cp_shutdown, cp_posts, cp_delays>>

(* A task runs; it may leave another for later.                            *)
RunTask ==
  /\ cp_main = "in CEF" /\ cp_tasks > 0
  /\ cp_tasks' = cp_tasks - 1
  /\ \/ UNCHANGED <<cp_later, cp_delays>>
     \/ cp_delays < MaxDelayed /\ cp_later' = TRUE /\ cp_delays' = cp_delays + 1
  /\ UNCHANGED <<cp_dedup, cp_thread, cp_main, cp_slow, cp_pending, cp_loop,
                 cp_shutdown, cp_posts>>

(* Nothing is left to run now; what is due later is scheduled.             *)
RunsDry ==
  /\ cp_main = "in CEF" /\ cp_tasks = 0
  /\ cp_dedup' = "idle" /\ cp_main' = "behind CEF"
  /\ cp_slow' \in BOOLEAN
  /\ cp_timer' = IF cp_later /\ ~cp_shutdown /\ cp_timer # "gone" THEN "armed" ELSE cp_timer
  /\ UNCHANGED <<cp_tasks, cp_later, cp_thread, cp_pending, cp_source, cp_shutdown,
                 cp_posts, cp_delays>>

(* The time slice is over with work left: the run breaks off.              *)
CutShort ==
  /\ cp_main = "in CEF" /\ cp_tasks > 0
  /\ cp_dedup' = "requested" /\ cp_main' = "behind CEF"
  /\ cp_slow' = TRUE
  /\ UNCHANGED <<cp_tasks, cp_later, cp_thread, cp_pending, cp_loop, cp_shutdown,
                 cp_posts, cp_delays>>

NeedsRekick_Never(slow, pending) == FALSE
NeedsRekick(slow, pending) == slow /\ ~pending

(* Back in pump_drain: a wedged deduplicator is helped on.                 *)
Rekick ==
  /\ cp_main = "behind CEF"
  /\ cp_main' = "loop"
  /\ IF NeedsRekick(cp_slow, cp_pending) /\ cp_source # "gone"
     THEN cp_pending' = TRUE /\ cp_source' = Signalled(cp_source)
     ELSE UNCHANGED <<cp_pending, cp_source>>
  /\ UNCHANGED <<cp_cef, cp_thread, cp_slow, cp_timer, cp_shutdown, cp_posts, cp_delays>>

PumpShutdown ==
  /\ cp_main = "loop" /\ ~cp_shutdown
  /\ cp_shutdown' = TRUE
  /\ cp_source' = "gone" /\ cp_timer' = "gone"
  /\ UNCHANGED <<cp_cef, cp_thread, cp_main, cp_slow, cp_pending, cp_posts, cp_delays>>

PumpIdles ==
  /\ cp_main = "loop" /\ \A t \in CefThreads : cp_thread[t] = "idle"
  /\ cp_source # "signalled" /\ cp_timer # "armed"
  /\ UNCHANGED cpvars

MainPump == SourceFires \/ TimerFires \/ RunTask \/ RunsDry \/ CutShort \/ Rekick
Schedules(t) == MarkPending(t) \/ SignalSource(t)

PumpNext ==
  \/ \E t \in CefThreads : PostTask(t) \/ Schedules(t)
  \/ MainPump \/ PumpShutdown \/ PumpIdles

(* The run loop comes round to both of its inputs, also to a timer while   *)
(* the source is signalled again and again; CEF's threads are scheduled.   *)
PumpFairness ==
  /\ WF_cpvars(MainPump) /\ SF_cpvars(SourceFires) /\ SF_cpvars(TimerFires)
  /\ \A t \in CefThreads : WF_cpvars(Schedules(t))

PumpSpec == PumpInit /\ [][PumpNext]_cpvars /\ PumpFairness
-----------------------------------------------------------------------------
PumpTypeOK ==
  /\ cp_tasks \in 0..(MaxPosts + MaxDelayed) /\ cp_later \in BOOLEAN
  /\ cp_dedup \in {"idle", "requested", "working"}
  /\ cp_thread \in [CefThreads -> {"idle", "asking", "marked"}]
  /\ cp_main \in {"loop", "in CEF", "behind CEF"} /\ cp_slow \in BOOLEAN
  /\ cp_pending \in BOOLEAN /\ cp_source \in {"signalled", "quiet", "gone"}
  /\ cp_timer \in {"armed", "far", "gone"} /\ cp_shutdown \in BOOLEAN

(* "the pump wedges" (cef_pump.rs:42) it never does: what CEF has to do    *)
(* now is done, however often a run is cut short, requests are dropped and *)
(* signals race the drain, until the pump is shut down.                    *)
PumpNeverWedges == cp_tasks > 0 ~> cp_tasks = 0 \/ cp_shutdown

(* "A CFRunLoopTimer services delayed work" (cef_pump.rs:5): what is due   *)
(* later is done, too.  A timer that is gone after its first shot does not.*)
DelayedWorkRuns == cp_later ~> ~cp_later \/ cp_shutdown
=============================================================================
