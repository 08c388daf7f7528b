-------------------------------- MODULE Stats --------------------------------
(***************************************************************************)
(* The playback statistics overlay (playback/src/stats.rs).  The page's    *)
(* thread switches the observation on and off; the ingest thread folds     *)
(* mpv's property changes in and pushes a snapshot to the page, at most    *)
(* once in an interval, together with whatever has changed since.  Both    *)
(* meet in one record, whose lock is given back before mpv or the page is  *)
(* called.                                                                 *)
(***************************************************************************)
EXTENDS Naturals

CONSTANTS
  MaxChanges,   \* bound on property changes, and the values they count
  MaxSwitches   \* bound on the page's switching

ASSUME StatsBoundsAssumption == MaxChanges \in Nat /\ MaxSwitches \in Nat

Cleared == 0        \* StatsData::default(), and the page's null
NoPush == 0

VARIABLES
  st_active, st_data, st_dirty,  \* the record
  st_elapsed,   \* the interval since last_push is over
  st_ui,        \* the page's thread: idle, or about to call mpv and the page
  st_switches,
  st_observed,  \* mpv reports the properties
  st_value,     \* mpv's own value
  st_pending,   \* mpv has a change to report
  st_hand,      \* the report the ingest thread holds
  st_push,      \* the snapshot the ingest thread is about to push
  st_page,      \* what the page shows
  st_raced      \* history: last switched with a snapshot on its way

strecord == <<st_active, st_data, st_dirty, st_elapsed>>
stmpv == <<st_observed, st_value, st_pending>>
stpage == <<st_ui, st_switches, st_raced>>
stingest == <<st_hand, st_push>>
stvars == <<strecord, stmpv, stpage, stingest, st_page>>

StatsInit ==
  /\ st_active = FALSE /\ st_data = Cleared /\ st_dirty = FALSE
  /\ st_elapsed = FALSE
  /\ st_ui = "idle" /\ st_switches = MaxSwitches
  /\ st_observed = FALSE /\ st_value = 1 /\ st_pending = FALSE
  /\ st_hand = Cleared /\ st_push = NoPush /\ st_page = Cleared /\ st_raced = FALSE
-----------------------------------------------------------------------------
(* jfn_playback_set_stats_active, under the lock ... *)
SetActive ==
  /\ st_ui = "idle" /\ st_switches > 0
  /\ st_switches' = st_switches - 1
  /\ st_active' = ~st_active
  /\ st_data' = Cleared /\ st_dirty' = FALSE /\ st_elapsed' = FALSE
  /\ st_ui' = IF st_active THEN "unobserve" ELSE "observe"
  /\ st_raced' = (st_push # NoPush)
  /\ UNCHANGED <<stmpv, stingest, st_page>>

(* ... and after it.  mpv answers a new observation with the current value.*)
Observe ==
  /\ st_ui = "observe"
  /\ st_ui' = "idle"
  /\ st_observed' = TRUE /\ st_pending' = TRUE
  /\ UNCHANGED <<strecord, st_value, st_switches, st_raced, stingest, st_page>>

Unobserve ==
  /\ st_ui = "unobserve"
  /\ st_ui' = "idle"
  /\ st_observed' = FALSE /\ st_pending' = FALSE
  /\ st_page' = Cleared
  /\ UNCHANGED <<strecord, st_value, st_switches, st_raced, stingest>>
-----------------------------------------------------------------------------
(* mpv reports a change when it is asked for an event, with the value it   *)
(* has then.                                                               *)
ValueChanges ==
  /\ st_value < MaxChanges
  /\ st_value' = st_value + 1
  /\ st_pending' = st_observed
  /\ UNCHANGED <<strecord, st_observed, stpage, stingest, st_page>>

WaitEvent ==
  /\ st_pending /\ st_hand = Cleared /\ st_push = NoPush
  /\ st_pending' = FALSE /\ st_hand' = st_value
  /\ UNCHANGED <<strecord, st_observed, st_value, stpage, st_push, st_page>>

IntervalOver ==
  /\ st_active /\ ~st_elapsed
  /\ st_elapsed' = TRUE
  /\ UNCHANGED <<st_active, st_data, st_dirty, stmpv, stpage, stingest, st_page>>

(* on_property, under the lock: fold the value in; push when one is due.   *)
FoldIn_ForgetsEarly(v) ==
  LET changed == v # st_data
  IN /\ st_data' = v
     /\ st_dirty' = FALSE
     /\ IF (st_dirty \/ changed) /\ st_elapsed
        THEN st_push' = v /\ st_elapsed' = FALSE
        ELSE UNCHANGED <<st_push, st_elapsed>>

FoldIn(v) ==
  LET dirty == st_dirty \/ v # st_data
  IN /\ st_data' = v
     /\ IF dirty /\ st_elapsed
        THEN st_push' = v /\ st_dirty' = FALSE /\ st_elapsed' = FALSE
        ELSE st_dirty' = dirty /\ UNCHANGED <<st_push, st_elapsed>>

OnStat ==
  /\ st_hand # Cleared
  /\ st_hand' = Cleared
  /\ IF st_active THEN FoldIn(st_hand)
     ELSE UNCHANGED <<st_data, st_dirty, st_elapsed, st_push>>
  /\ UNCHANGED <<st_active, stmpv, stpage, st_page>>

(* The call into the page, after the lock. *)
PushToPage ==
  /\ st_push # NoPush
  /\ st_page' = st_push
  /\ st_push' = NoPush
  /\ UNCHANGED <<strecord, stmpv, stpage, st_hand>>

StatsNext ==
  \/ SetActive \/ Observe \/ Unobserve
  \/ ValueChanges \/ WaitEvent \/ IntervalOver \/ OnStat \/ PushToPage
StatsSpec == StatsInit /\ [][StatsNext]_stvars
-----------------------------------------------------------------------------
StatsSettled == st_ui = "idle" /\ st_push = NoPush /\ st_hand = Cleared

(* A change is never forgotten: with the overlay open, what the record     *)
(* holds is on the page or still marked for the next push, and once mpv's  *)
(* reports are taken the record holds mpv's values.  With the overlay      *)
(* closed the page shows nothing, unless it was switched while a snapshot  *)
(* was between the lock and the page.                                      *)
StatsReachPage ==
  StatsSettled =>
    /\ st_active /\ ~st_pending => st_data = st_value
    /\ st_active /\ ~st_dirty /\ ~st_raced /\ st_data # Cleared =>
         st_page = st_data
    /\ ~st_active /\ ~st_raced => st_page = Cleared
=============================================================================
