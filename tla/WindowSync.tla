------------------------------ MODULE WindowSync ------------------------------
(***************************************************************************)
(* The size of the browser layers as a function of the window's            *)
(* (jfn_cef/src/window_sync.rs).  Any thread may be woken by a change of   *)
(* the window: the platform's own, the mpv ingest thread that has seen the *)
(* output's dimensions change, the main thread once at start-up.  Each     *)
(* pulls the window's size, swaps it into one cell and applies it to the   *)
(* layers (browsers.rs), until the cell holds what it has pulled.          *)
(*                                                                         *)
(* A size is a number: how many times the window has changed.              *)
(***************************************************************************)
EXTENDS Naturals

CONSTANTS
  Wakers,         \* threads that are woken
  MaxWakeups,     \* bound on wakeups, per thread
  MaxSizes        \* bound on sizes
ASSUME WakeupsAssumption == MaxWakeups \in Nat /\ MaxSizes \in Nat

NoSize == 0       \* nothing applied, nothing pulled

VARIABLES
  ws_window,      \* the window's size
  ws_cell,        \* LAST_APPLIED
  ws_pc, ws_size, \* each thread's progress and the size it has pulled
  ws_wakeups,     \* wakeups still to come, per thread
  ws_missed,      \* the window has changed and nobody was woken since
  ws_cache,       \* Browsers' size: what a new layer starts with
  ws_layer,       \* the size of the layer
  ws_overlap      \* history: two threads were between swap and apply at once

wsthreads == <<ws_pc, ws_size, ws_wakeups>>
wslayers == <<ws_cache, ws_layer>>
wsvars == <<ws_window, ws_cell, wsthreads, ws_missed, wslayers, ws_overlap>>

SyncInit ==
  /\ ws_window = 1 /\ ws_cell = NoSize
  /\ ws_pc = [w \in Wakers |-> "idle"]
  /\ ws_size = [w \in Wakers |-> NoSize]
  /\ ws_wakeups = [w \in Wakers |-> MaxWakeups]
  /\ ws_missed = TRUE
  /\ ws_cache = NoSize /\ ws_layer = NoSize
  /\ ws_overlap = FALSE

Goes(w, pc) == ws_pc' = [ws_pc EXCEPT ![w] = pc]
Applying(w) == ws_pc[w] \in {"cache", "layer"}
-----------------------------------------------------------------------------
(* The window's state is committed before anybody is woken. *)
WindowChanges ==
  /\ ws_window < MaxSizes
  /\ ws_window' = ws_window + 1
  /\ ws_missed' = TRUE
  /\ UNCHANGED <<ws_cell, wsthreads, wslayers, ws_overlap>>

Wake(w) ==
  /\ ws_pc[w] = "idle" /\ ws_wakeups[w] > 0
  /\ ws_wakeups' = [ws_wakeups EXCEPT ![w] = @ - 1]
  /\ Goes(w, "pull")
  /\ ws_missed' = FALSE
  /\ UNCHANGED <<ws_window, ws_cell, ws_size, wslayers, ws_overlap>>

PullSize(w) ==
  /\ ws_pc[w] = "pull"
  /\ ws_size' = [ws_size EXCEPT ![w] = ws_window]
  /\ Goes(w, "swap")
  /\ UNCHANGED <<ws_window, ws_cell, ws_wakeups, ws_missed, wslayers, ws_overlap>>

(* The cell is swapped in any case; a size it held already ends the loop.  *)
SwapCell(w) ==
  /\ ws_pc[w] = "swap"
  /\ ws_cell' = ws_size[w]
  /\ Goes(w, IF ws_cell = ws_size[w] THEN "idle" ELSE "cache")
  /\ ws_overlap' = (ws_overlap \/ \E o \in Wakers \ {w} : Applying(o))
  /\ UNCHANGED <<ws_window, ws_size, ws_wakeups, ws_missed, wslayers>>

(* jfn_browsers_set_size: the size is stored under the lock ... *)
StoreCache(w) ==
  /\ ws_pc[w] = "cache"
  /\ ws_cache' = ws_size[w]
  /\ Goes(w, "layer")
  /\ UNCHANGED <<ws_window, ws_cell, ws_size, ws_wakeups, ws_missed, ws_layer,
                 ws_overlap>>

ResizeLayer_Once(w) ==
  /\ ws_pc[w] = "layer"
  /\ ws_layer' = ws_size[w]
  /\ Goes(w, "idle")
  /\ UNCHANGED <<ws_window, ws_cell, ws_size, ws_wakeups, ws_missed, ws_cache,
                 ws_overlap>>

(* ... the layers resized without it; then the window is pulled again.     *)
ResizeLayer(w) ==
  /\ ws_pc[w] = "layer"
  /\ ws_layer' = ws_size[w]
  /\ Goes(w, "pull")
  /\ UNCHANGED <<ws_window, ws_cell, ws_size, ws_wakeups, ws_missed, ws_cache,
                 ws_overlap>>

SyncNext ==
  \/ WindowChanges
  \/ \E w \in Wakers : \/ Wake(w) \/ PullSize(w) \/ SwapCell(w)
                       \/ StoreCache(w) \/ ResizeLayer(w)
SyncSpec == SyncInit /\ [][SyncNext]_wsvars
-----------------------------------------------------------------------------
SyncSettled == ~ws_missed /\ \A w \in Wakers : ws_pc[w] = "idle"

(* When every wakeup has returned and the last change of the window was    *)
(* followed by one, the layers have the window's size, and so will a new   *)
(* one: provided no two threads were applying at once.  Always, the cell   *)
(* then holds the window's size, whatever the layers have.                 *)
SizeIsWindowSize ==
  SyncSettled =>
    /\ ws_cell = ws_window
    /\ ~ws_overlap => ws_layer = ws_window /\ ws_cache = ws_window

(* window_sync.rs: "No matter which wakeups are dropped, the final applied *)
(* size equals the size derived from the current snapshot", and "two       *)
(* concurrent wakeups can apply out of order; reconcile re-pulls after     *)
(* each apply and applies again until the cell agrees".  The thread that   *)
(* applies the older size last finds the newer one in the cell already.    *)
FinalSizeApplied ==
  SyncSettled => ws_layer = ws_window
===============================================================================
