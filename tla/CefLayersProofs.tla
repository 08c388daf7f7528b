-------------------------- MODULE CefLayersProofs --------------------------
(***************************************************************************)
(* For any set of about boxes and whichever disturbances a behaviour has:  *)
(* the registry's stack and focus name registered layers only, input goes  *)
(* back to the main layer, and an undisturbed shutdown tears down behind   *)
(* the last browser.                                                       *)
(*                                                                         *)
(* The last two need an invariant conditional on the disturbances that are *)
(* left out.  Without a reset, no task recreates a browser, so a task is   *)
(* posted only by the manager and the main browser closes only behind it.  *)
(* Without any, every browser alive is registered until the teardown, so   *)
(* the one snapshot has them all, and a closed layer is gone for good.     *)
(***************************************************************************)
EXTENDS CefLayers, TLAPS

OneOfEach(stack) == stack \in Seq(Layers) /\ IsInjective(stack)

LEMMA Indexed ==
  ASSUME NEW S, NEW s \in Seq(S)
  PROVE  /\ Len(s) \in Nat /\ DOMAIN s = 1 .. Len(s) /\ \A n \in DOMAIN s : s[n] \in S
         /\ s # <<>> <=> Len(s) # 0
OBVIOUS

LEMMA Retained ==
  ASSUME NEW s, OneOfEach(s), NEW l
  PROVE  /\ OneOfEach(Without(s, l)) /\ ToSet(Without(s, l)) = ToSet(s) \ {l}
         /\ Top(s) # l => Top(Without(s, l)) = Top(s)
<1>1. /\ s \in Seq(Layers) /\ Len(s) \in Nat /\ DOMAIN s = 1 .. Len(s)
      /\ \A n \in DOMAIN s : s[n] \in Layers
      /\ \A m, n \in DOMAIN s : s[m] = s[n] => m = n
  BY Indexed DEF OneOfEach, IsInjective
<1>2. CASE \A n \in DOMAIN s : s[n] # l
  <2>1. Without(s, l) = s
    BY <1>2 DEF Without
  <2>2. l \notin ToSet(s)
    BY <1>2 DEF ToSet
  <2> QED BY <2>1, <2>2
<1>3. ASSUME NEW k \in DOMAIN s, s[k] = l
      PROVE  /\ OneOfEach(Without(s, l)) /\ ToSet(Without(s, l)) = ToSet(s) \ {l}
             /\ Top(s) # l => Top(Without(s, l)) = Top(s)
  <2>1. (CHOOSE n \in DOMAIN s : s[n] = l) = k
    BY <1>1, <1>3
  <2>2. k \in Nat /\ 1 <= k /\ k <= Len(s)
    BY <1>1
  <2> PICK L : L = Len(s) - 1
    OBVIOUS
  <2>0. L \in Nat
    BY <1>1, <2>2
  <2>3. PICK w : w = [n \in 1 .. L |-> IF n < k THEN s[n] ELSE s[n + 1]]
    OBVIOUS
  <2>4. Without(s, l) = w
    BY <1>3, <2>1, <2>3 DEF Without
  <2>5. /\ DOMAIN w = 1 .. L
        /\ \A n \in 1 .. L : /\ n < k => w[n] = s[n] /\ n \in DOMAIN s
                             /\ ~(n < k) => w[n] = s[n + 1] /\ n + 1 \in DOMAIN s
    BY <1>1, <2>0, <2>2, <2>3
  <2>6. w \in Seq(Layers) /\ Len(w) = L
    <3>1. w \in [1 .. L -> Layers]
      BY <1>1, <2>3, <2>5
    <3> QED BY <2>0, <3>1
  <2>7. ASSUME NEW m \in 1 .. L, NEW n \in 1 .. L, w[m] = w[n] PROVE m = n
    <3>1. CASE m < k /\ n < k
      BY <1>1, <2>5, <2>7, <3>1
    <3>2. CASE m < k /\ ~(n < k)
      <4>1. m = n + 1
        BY <1>1, <2>5, <2>7, <3>2
      <4> QED BY <2>2, <3>2, <4>1
    <3>3. CASE ~(m < k) /\ n < k
      <4>1. n = m + 1
        BY <1>1, <2>5, <2>7, <3>3
      <4> QED BY <2>2, <3>3, <4>1
    <3>4. CASE ~(m < k) /\ ~(n < k)
      <4>1. m + 1 = n + 1
        BY <1>1, <2>5, <2>7, <3>4
      <4> QED BY <4>1
    <3> QED BY <3>1, <3>2, <3>3, <3>4
  <2>8. OneOfEach(w)
    BY <2>5, <2>6, <2>7 DEF OneOfEach, IsInjective
  <2>9. ASSUME NEW n \in DOMAIN w PROVE w[n] \in ToSet(s) \ {l}
    <3>1. CASE n < k
      <4>1. w[n] = s[n] /\ n \in DOMAIN s /\ n # k
        BY <2>2, <2>5, <3>1
      <4> QED BY <1>1, <1>3, <4>1 DEF ToSet
    <3>2. CASE ~(n < k)
      <4>1. w[n] = s[n + 1] /\ n + 1 \in DOMAIN s /\ n + 1 # k
        BY <2>2, <2>5, <3>2
      <4> QED BY <1>1, <1>3, <4>1 DEF ToSet
    <3> QED BY <3>1, <3>2
  <2>10. ASSUME NEW m \in DOMAIN s, s[m] # l PROVE \E n \in DOMAIN w : w[n] = s[m]
    <3>1. m # k /\ m \in Nat /\ 1 <= m /\ m <= Len(s)
      BY <1>1, <1>3, <2>10
    <3>2. CASE m < k
      <4>1. m \in 1 .. L
        BY <2>0, <1>1, <2>2, <3>1, <3>2
      <4> QED BY <2>5, <3>2, <4>1
    <3>3. CASE ~(m < k)
      <4> PICK n : n = m - 1
        OBVIOUS
      <4>1. n \in 1 .. L /\ ~(n < k) /\ n + 1 = m
        BY <2>0, <1>1, <2>2, <3>1, <3>3
      <4> QED BY <2>5, <4>1
    <3> QED BY <3>2, <3>3
  <2>11. ToSet(w) = ToSet(s) \ {l}
    BY <2>9, <2>10 DEF ToSet
  <2>12. ASSUME Top(s) # l PROVE Top(w) = Top(s)
    <3>1. Top(s) = s[Len(s)] /\ Len(s) # k
      <4>1. s # <<>>
        BY <1>1, <2>2
      <4> QED BY <1>3, <2>12, <4>1 DEF Top
    <3>2. L \in 1 .. L /\ ~(L < k) /\ L + 1 = Len(s)
      BY <2>0, <1>1, <2>2, <3>1
    <3>3. w # <<>>
      BY <2>6, <3>2
    <3> QED BY <2>5, <2>6, <3>1, <3>2, <3>3 DEF Top
  <2> QED BY Zenon, <2>4, <2>8, <2>11, <2>12
<1> QED BY <1>2, <1>3

LEMMA Promoted ==
  ASSUME NEW s, OneOfEach(s), NEW l \in Layers, l \notin ToSet(s)
  PROVE  /\ OneOfEach(Append(s, l)) /\ ToSet(Append(s, l)) = ToSet(s) \union {l}
         /\ Top(Append(s, l)) = l
<1>1. /\ s \in Seq(Layers) /\ Len(s) \in Nat /\ DOMAIN s = 1 .. Len(s)
      /\ \A m, n \in DOMAIN s : s[m] = s[n] => m = n
      /\ \A n \in DOMAIN s : s[n] # l
  BY Indexed DEF OneOfEach, IsInjective, ToSet
<1> PICK q : q = Append(s, l)
  OBVIOUS
<1>2. /\ q \in Seq(Layers) /\ Len(q) = Len(s) + 1 /\ q # <<>> /\ DOMAIN q = 1 .. (Len(s) + 1)
      /\ q[Len(s) + 1] = l /\ \A n \in DOMAIN s : q[n] = s[n]
  BY <1>1
<1>3. OneOfEach(q)
  <2>1. ASSUME NEW m \in DOMAIN q, NEW n \in DOMAIN q, q[m] = q[n] PROVE m = n
    BY <1>1, <1>2, <2>1
  <2> QED BY <1>2, <2>1 DEF OneOfEach, IsInjective
<1>4. ToSet(q) = ToSet(s) \union {l}
  <2>1. \A n \in DOMAIN q : q[n] \in ToSet(s) \union {l}
    BY <1>1, <1>2 DEF ToSet
  <2>2. \A n \in DOMAIN s : n \in DOMAIN q
    BY <1>1, <1>2
  <2>3. Len(s) + 1 \in DOMAIN q
    BY <1>1, <1>2
  <2> QED BY <1>2, <2>1, <2>2, <2>3 DEF ToSet
<1>5. Top(q) = l
  BY <1>2 DEF Top
<1> QED BY <1>3, <1>4, <1>5
-----------------------------------------------------------------------------
CefTyped ==
  /\ TypeOK
  /\ main = "torn" => manager = "exited"
  /\ manager # "idle" => shutting_down
  /\ shutting_down /\ "late" \notin may => main \notin {"boot", "overlay"}
  /\ main = "boot" => /\ \A l \in Layers : cef[l] = "unborn"
                      /\ \A n \in DOMAIN tasks : tasks[n] = "collect"
  /\ main = "overlay" => cef[Overlay] = "unborn"

(* The focus is on the top of the stack or nowhere. *)
StackHolds == StackIsRegistered /\ focus \in {Top(active_stack), NoLayer}

(* Where no layer is reset, none is ever on its way to be recreated. *)
NoReset ==
  "reset" \notin may =>
    /\ \A l \in Layers : state[l] = "NORMAL" /\ ~pending_internal_reset[l]
    /\ \A n \in DOMAIN tasks : tasks[n] = "collect"
    /\ tasks # <<>> => shutting_down

(* Where no layer is reset, the main browser lives until shutdown begins;  *)
(* the overlay goes only once it was dismissed, which puts the main layer  *)
(* on the stack, browser or not.                                           *)
InputReturns ==
  "reset" \notin may /\ ~shutting_down =>
    /\ cef[Main] \in {"unborn", "creating", "live"}
    /\ cef[Main] = "unborn" => main = "boot"
    /\ cef[Main] # "unborn" => Main \in registered
    /\ dismissed => Main \in ToSet(active_stack)
    /\ cef[Overlay] \in {"closing", "gone"} => dismissed

(* In the orderly case the snapshot has every browser there is, and the    *)
(* manager goes on waiting for each that is not gone.                      *)
Draining ==
  may = {} =>
    /\ tasks # <<>> => tasks = <<"collect">> /\ manager = "collecting"
    /\ \A l \in Layers : Alive(l) /\ main # "torn" => l \in registered
    /\ \A l \in Layers : closed[l] => cef[l] = "gone"
    /\ manager = "exited" => wait_set = {}
    /\ manager \in {"waiting", "exited"} => \A l \in Layers : Alive(l) => l \in wait_set

CefInv == CefTyped /\ StackHolds /\ NoReset /\ InputReturns /\ Draining
-----------------------------------------------------------------------------
LEMMA MainIsALayer == Main \in Layers /\ Overlay \in Layers /\ Main # Overlay /\ NoLayer \notin Layers
BY LayersAssumption DEF Layers

(* What promoting a layer and taking one out do to the stack. *)
LEMMA SetActiveStack ==
  ASSUME TypeOK, StackHolds, NEW l \in Layers, SetActive(l)
  PROVE  /\ OneOfEach(active_stack') /\ ToSet(active_stack') = ToSet(active_stack) \union {l}
         /\ focus' \in {Top(active_stack'), NoLayer}
         /\ focus' # focus => focus' = l
<1>1. OneOfEach(active_stack)
  BY DEF TypeOK, StackHolds, StackIsRegistered, OneOfEach
<1>2. CASE Top(active_stack) = l
  <2>1. UNCHANGED <<active_stack, focus>>
    BY <1>2 DEF SetActive
  <2>2. l \in ToSet(active_stack)
    <3>1. active_stack # <<>> /\ l = active_stack[Len(active_stack)]
      BY <1>2, MainIsALayer DEF Top
    <3>2. Len(active_stack) \in DOMAIN active_stack
      BY <1>1, <3>1, Indexed DEF OneOfEach
    <3> QED BY <3>1, <3>2 DEF ToSet
  <2>3. focus \in {Top(active_stack), NoLayer}
    BY DEF StackHolds
  <2>4. OneOfEach(active_stack') /\ ToSet(active_stack') = ToSet(active_stack)
        /\ Top(active_stack') = Top(active_stack)
    BY <1>1, <2>1
  <2> QED BY <2>1, <2>2, <2>3, <2>4
<1>3. CASE Top(active_stack) # l
  <2> PICK w : w = Without(active_stack, l)
    OBVIOUS
  <2>1. active_stack' = Append(w, l) /\ focus' = l
    BY <1>3 DEF SetActive
  <2>2. OneOfEach(w) /\ ToSet(w) = ToSet(active_stack) \ {l}
    BY <1>1, Retained
  <2>3. /\ OneOfEach(Append(w, l)) /\ ToSet(Append(w, l)) = ToSet(w) \union {l}
        /\ Top(Append(w, l)) = l
    BY <2>2, Promoted
  <2>4. /\ OneOfEach(active_stack') /\ ToSet(active_stack') = ToSet(w) \union {l}
        /\ Top(active_stack') = l
    BY Zenon, <2>1, <2>3
  <2> HIDE DEF ToSet, Top
  <2> QED BY <2>1, <2>2, <2>4
<1> QED BY <1>2, <1>3

LEMMA RemovedStack ==
  ASSUME TypeOK, StackHolds, NEW l \in Layers, RemoveLayer(l)
  PROVE  StackHolds' /\ ToSet(active_stack') = ToSet(active_stack) \ {l}
         /\ OneOfEach(active_stack')
<1>1. OneOfEach(active_stack) /\ focus \in {Top(active_stack), NoLayer}
      /\ ToSet(active_stack) \subseteq registered
  BY DEF TypeOK, StackHolds, StackIsRegistered, OneOfEach
<1> PICK w : w = Without(active_stack, l)
  OBVIOUS
<1>2. /\ active_stack' = w /\ registered' = registered \ {l}
      /\ focus' = CASE Top(active_stack) # l -> focus
                    [] shutting_down -> NoLayer
                    [] OTHER -> Top(w)
  BY DEF RemoveLayer
<1>3. /\ OneOfEach(w) /\ ToSet(w) = ToSet(active_stack) \ {l}
      /\ Top(active_stack) # l => Top(w) = Top(active_stack)
  BY <1>1, Retained
<1>4. focus' \in {Top(w), NoLayer}
  BY <1>1, <1>2, <1>3
<1>5. Top(w) # NoLayer => Top(w) \in ToSet(w)
  <2> SUFFICES ASSUME w # <<>> PROVE w[Len(w)] \in ToSet(w)
    BY DEF Top
  <2>1. Len(w) \in DOMAIN w
    BY <1>3, Indexed DEF OneOfEach
  <2> QED BY <2>1 DEF ToSet
<1>6. ToSet(active_stack') \subseteq registered'
  BY <1>1, <1>2, <1>3
<1>7. Top(active_stack') = Top(w) /\ ToSet(active_stack') = ToSet(w)
  BY <1>2
<1> QED BY <1>2, <1>3, <1>4, <1>5, <1>6, <1>7 DEF StackHolds, StackIsRegistered, OneOfEach

LEMMA PromotedStack ==
  ASSUME TypeOK, StackHolds, NEW l \in registered, SetActive(l), UNCHANGED registered
  PROVE  StackHolds' /\ ToSet(active_stack') = ToSet(active_stack) \union {l}
         /\ OneOfEach(active_stack') /\ focus' \in Layers \union {NoLayer}
<1>1. l \in Layers
  BY DEF TypeOK
<1>2. /\ OneOfEach(active_stack') /\ ToSet(active_stack') = ToSet(active_stack) \union {l}
      /\ focus' \in {Top(active_stack'), NoLayer} /\ (focus' # focus => focus' = l)
  BY <1>1, SetActiveStack
<1>3. ToSet(active_stack) \subseteq registered /\ (focus # NoLayer => focus \in registered)
  BY DEF StackHolds, StackIsRegistered
<1>4. ToSet(active_stack') \subseteq registered'
  BY <1>2, <1>3
<1>5. focus' # NoLayer => focus' \in registered'
  BY <1>2, <1>3
<1>6. registered \subseteq Layers
  BY DEF TypeOK
<1> QED BY <1>2, <1>4, <1>5, <1>6 DEF StackHolds, StackIsRegistered, OneOfEach
-----------------------------------------------------------------------------
LEMMA CefInit == Init => CefInv
<1> SUFFICES ASSUME Init PROVE CefInv
  OBVIOUS
<1> USE DEF Init
<1>1. \A S : <<>> \in Seq(S) /\ DOMAIN <<>> = {}
  OBVIOUS
<1>2. TypeOK
  BY <1>1 DEF TypeOK, BrowserStates, ResetStates
<1>3. StackHolds
  BY <1>1 DEF StackHolds, StackIsRegistered, ToSet, IsInjective
<1>4. \A l \in Layers : cef[l] = "unborn" /\ ~closed[l] /\ state[l] = "NORMAL"
                        /\ ~pending_internal_reset[l]
  OBVIOUS
<1> QED BY <1>1, <1>2, <1>3, <1>4, MainIsALayer
        DEF CefInv, CefTyped, NoReset, InputReturns, Draining, Alive

LEMMA TypeStep ==
  ASSUME CefInv, [Next]_vars
  PROVE  TypeOK'
<1>0. TypeOK /\ StackHolds
  BY DEF CefInv, CefTyped
<1> USE MainIsALayer DEF TypeOK, inner, registry, threads, moving
<1>1. ASSUME NEW l \in Layers, Open(l), UNCHANGED <<dismissed, tasks, shutting_down, manager, wait_set, may>>,
             main' \in {"boot", "overlay", "loading", "parked", "torn"}
      PROVE  TypeOK'
  BY <1>0, <1>1 DEF Open, BrowserStates
<1>2. ASSUME NEW l \in Abouts, OpenAbout(l), UNCHANGED may PROVE TypeOK'
  <2>1. l \in Layers
    BY DEF Layers
  <2> QED BY <1>0, <1>1, <1>2, <2>1 DEF OpenAbout
<1>3. ASSUME NEW l \in Layers, PageCloses(l), UNCHANGED may PROVE TypeOK'
  BY <1>0, <1>3 DEF PageCloses, BrowserStates
<1>4. CASE DismissOverlay /\ UNCHANGED may
  <2>1. CASE Main \in registered
    <3>1. SetActive(Main) /\ UNCHANGED registered
      BY <1>4, <2>1 DEF DismissOverlay
    <3>2. active_stack' \in Seq(Layers) /\ focus' \in Layers \union {NoLayer}
      BY <1>0, <2>1, <3>1, PromotedStack DEF OneOfEach
    <3> QED BY <1>0, <1>4, <3>2 DEF DismissOverlay
  <2> QED BY <1>0, <1>4, <2>1 DEF DismissOverlay
<1>5. CASE Reset /\ UNCHANGED may
  BY <1>0, <1>5 DEF Reset, BrowserStates, ResetStates
<1>6. CASE MainLoads /\ UNCHANGED may
  BY <1>0, <1>6 DEF MainLoads
<1>7. ASSUME NEW l \in Layers, OnAfterCreated(l), UNCHANGED may PROVE TypeOK'
  <2>1. active_stack' \in Seq(Layers) /\ focus' \in Layers \union {NoLayer}
    <3>1. CASE l \in registered /\ SetActive(l)
      <4>1. UNCHANGED registered
        BY <1>7 DEF OnAfterCreated
      <4> QED BY <1>0, <3>1, <4>1, PromotedStack DEF OneOfEach
    <3> QED BY <1>0, <1>7, <3>1 DEF OnAfterCreated, CreatedCallback
  <2>2. NextState(state[l]) \in ResetStates
    BY <1>0 DEF NextState, ResetStates
  <2>3. /\ cef' \in [Layers -> BrowserStates] /\ closed' \in [Layers -> BOOLEAN]
        /\ has_browser' \in [Layers -> BOOLEAN] /\ state' \in [Layers -> ResetStates]
    <3>1. cef' = [cef EXCEPT ![l] = "closing"] \/ cef' = [cef EXCEPT ![l] = "live"]
      BY <1>7 DEF OnAfterCreated
    <3>2. cef' \in [Layers -> BrowserStates]
      BY <1>0, <3>1 DEF BrowserStates
    <3>3. /\ closed' = [closed EXCEPT ![l] = FALSE]
          /\ has_browser' = has_browser \/ has_browser' = [has_browser EXCEPT ![l] = TRUE]
          /\ state' = state \/ state' = [state EXCEPT ![l] = NextState(state[l])]
      BY <1>7 DEF OnAfterCreated
    <3>4. closed' \in [Layers -> BOOLEAN] /\ has_browser' \in [Layers -> BOOLEAN]
      BY <1>0, <3>3
    <3>5. state' \in [Layers -> ResetStates]
      BY <1>0, <2>2, <3>3
    <3> QED BY Zenon, <3>2, <3>4, <3>5
  <2>4. main_loaded' \in BOOLEAN
    BY Zenon, <1>0, <1>7 DEF OnAfterCreated
  <2> QED BY <1>0, <1>7, <2>1, <2>3, <2>4 DEF OnAfterCreated
<1>8. ASSUME NEW l \in Layers, OnBeforeClose(l), UNCHANGED may PROVE TypeOK'
  <2>1. active_stack' \in Seq(Layers) /\ focus' \in Layers \union {NoLayer}
        /\ registered' \subseteq Layers
    <3>1. CASE RemoveLayer(l)
      <4>1. OneOfEach(active_stack') /\ StackHolds' /\ registered' \subseteq Layers
        BY <1>0, <3>1, RemovedStack DEF RemoveLayer
      <4> QED BY <4>1 DEF OneOfEach, StackHolds, StackIsRegistered
    <3> QED BY <1>0, <1>8, <3>1 DEF OnBeforeClose
  <2>2. /\ cef' \in [Layers -> BrowserStates] /\ closed' \in [Layers -> BOOLEAN]
        /\ has_browser' \in [Layers -> BOOLEAN]
        /\ pending_internal_reset' \in [Layers -> BOOLEAN]
    BY <1>0, <1>8 DEF OnBeforeClose, BrowserStates
  <2>3. main_loaded' \in BOOLEAN
    BY Zenon, <1>0, <1>8 DEF OnBeforeClose
  <2>4. tasks' \in Seq({"recreate", "collect"})
    BY <1>0, <1>8 DEF OnBeforeClose
  <2> QED BY <1>0, <1>8, <2>1, <2>2, <2>3, <2>4 DEF OnBeforeClose
<1>9. CASE Recreate /\ UNCHANGED may
  BY <1>0, <1>9 DEF Recreate, BrowserStates
<1>10. CASE CloseAndCollect /\ UNCHANGED may
  BY <1>0, <1>10 DEF CloseAndCollect, BrowserStates
<1>11. CASE Initiate /\ UNCHANGED may
  BY <1>0, <1>11 DEF Initiate
<1>12. CASE ManagerWakes /\ UNCHANGED may
  BY <1>0, <1>12 DEF ManagerWakes
<1>13. CASE (CollectTimesOut \/ WaitForClose) /\ UNCHANGED may
  BY <1>0, <1>13 DEF CollectTimesOut, WaitForClose
<1>14. CASE Boot /\ UNCHANGED may
  BY <1>0, <1>1, <1>14 DEF Boot
<1>15. CASE (WaitForLoad \/ Teardown) /\ UNCHANGED may
  <2>1. <<>> \in Seq(Layers)
    OBVIOUS
  <2> QED BY <1>0, <1>15, <2>1 DEF WaitForLoad, Teardown
<1>16. CASE UNCHANGED vars \/ (TornDown /\ UNCHANGED may)
  BY <1>0, <1>16 DEF TornDown, vars
<1> QED BY <1>2, <1>3, <1>4, <1>5, <1>6, <1>7, <1>8, <1>9, <1>10, <1>11, <1>12, <1>13, <1>14,
           <1>15, <1>16
        DEF Next, Pages, Callbacks, UiTasks, Manager, MainThread

LEMMA StackStep ==
  ASSUME CefInv, [Next]_vars
  PROVE  StackHolds'
<1>0. TypeOK /\ StackHolds
  BY DEF CefInv, CefTyped
<1> USE DEF registry, moving
<1>1. ASSUME UNCHANGED <<active_stack, focus>>, registered \subseteq registered'
      PROVE  StackHolds'
  BY <1>0, <1>1 DEF StackHolds, StackIsRegistered, Top
<1>2. CASE UNCHANGED registry
  BY <1>1, <1>2
<1>3. ASSUME NEW l, Open(l) PROVE StackHolds'
  BY <1>1, <1>3 DEF Open
<1>4. CASE Pages
  <2>1. CASE DismissOverlay /\ Main \in registered
    <3>1. SetActive(Main) /\ UNCHANGED registered
      BY <2>1 DEF DismissOverlay
    <3> QED BY <1>0, <2>1, <3>1, PromotedStack
  <2>2. CASE DismissOverlay /\ Main \notin registered
    BY <1>1, <2>2 DEF DismissOverlay
  <2> QED BY <1>2, <1>3, <1>4, <2>1, <2>2 DEF Pages, OpenAbout, PageCloses, Reset
<1>5. ASSUME NEW l \in Layers, OnAfterCreated(l) PROVE StackHolds'
  <2>1. UNCHANGED registered
    BY <1>5 DEF OnAfterCreated
  <2>2. CASE l \in registered /\ SetActive(l)
    BY <1>0, <2>1, <2>2, PromotedStack
  <2>3. CASE UNCHANGED <<active_stack, focus>>
    BY <1>1, <2>1, <2>3
  <2> QED BY <1>5, <2>2, <2>3 DEF OnAfterCreated, CreatedCallback
<1>6. ASSUME NEW l \in Layers, OnBeforeClose(l) PROVE StackHolds'
  BY <1>0, <1>2, <1>6, RemovedStack DEF OnBeforeClose
<1>7. CASE MainLoads \/ UiTasks \/ Initiate \/ Manager
  BY <1>2, <1>7 DEF MainLoads, UiTasks, Recreate, CloseAndCollect, Initiate, Manager, ManagerWakes,
                    CollectTimesOut, WaitForClose
<1>8. CASE Boot \/ WaitForLoad
  BY <1>2, <1>3, <1>8 DEF Boot, WaitForLoad
<1>9. CASE Teardown
  <2>1. active_stack' = <<>> /\ focus' = NoLayer /\ DOMAIN <<>> = {}
    BY <1>9 DEF Teardown
  <2> QED BY <2>1 DEF StackHolds, StackIsRegistered, ToSet, IsInjective
<1>10. CASE TornDown \/ UNCHANGED vars
  BY <1>2, <1>10 DEF TornDown, vars
<1> QED BY <1>4, <1>5, <1>6, <1>7, <1>8, <1>9, <1>10 DEF Next, Callbacks, MainThread

(* Where the threads are. *)
LEMMA ThreadsStep ==
  ASSUME CefInv, [Next]_vars
  PROVE  CefTyped'
<1>0. CefTyped /\ TypeOK'
  BY TypeStep DEF CefInv
<1> USE MainIsALayer DEF threads, moving
<1>1. ASSUME UNCHANGED <<main, manager, shutting_down, may>>,
             main = "boot" => UNCHANGED <<cef, tasks>>,
             main = "overlay" => cef'[Overlay] = cef[Overlay]
      PROVE  CefTyped'
  BY <1>0, <1>1 DEF CefTyped
<1>2. UNCHANGED may
  BY DEF Next, vars
<1>3. ASSUME NEW l \in Abouts, OpenAbout(l) PROVE CefTyped'
  BY <1>1, <1>2, <1>3 DEF OpenAbout
<1>4. ASSUME NEW l \in Layers, PageCloses(l) \/ OnAfterCreated(l) \/ OnBeforeClose(l)
      PROVE  CefTyped'
  <2>1. cef[l] # "unborn" /\ \A k \in Layers : k # l => cef'[k] = cef[k]
    BY <1>0, <1>4 DEF PageCloses, OnAfterCreated, OnBeforeClose, CefTyped, TypeOK
  <2>2. UNCHANGED <<main, manager, shutting_down>>
    BY <1>4 DEF PageCloses, OnAfterCreated, OnBeforeClose
  <2>3. main # "boot" /\ (main = "overlay" => l # Overlay)
    BY <1>0, <2>1 DEF CefTyped
  <2> QED BY <1>1, <1>2, <2>1, <2>2, <2>3
<1>5. CASE DismissOverlay \/ MainLoads
  BY <1>1, <1>2, <1>5 DEF DismissOverlay, MainLoads
<1>6. CASE Reset
  <2>1. cef[Overlay] # "unborn"
    BY <1>6 DEF Reset, OverlayPage
  <2>2. main \notin {"boot", "overlay"}
    BY <1>0, <2>1 DEF CefTyped
  <2> QED BY <1>1, <1>2, <1>6, <2>2 DEF Reset
<1>7. CASE Recreate
  <2>1. main # "boot"
    <3>1. tasks \in Seq({"recreate", "collect"}) /\ tasks # <<>> /\ Head(tasks) = "recreate"
      BY <1>0, <1>7 DEF Recreate, CefTyped, TypeOK
    <3>2. 1 \in DOMAIN tasks /\ tasks[1] = "recreate"
      BY <3>1
    <3> QED BY <1>0, <3>2 DEF CefTyped
  <2>2. cef'[Overlay] = cef[Overlay]
    BY <1>0, <1>7 DEF Recreate, CefTyped, TypeOK
  <2> QED BY <1>1, <1>2, <1>7, <2>1, <2>2 DEF Recreate
<1>8. CASE CloseAndCollect
  <2>1. \A l \in Layers : cef[l] = "unborn" => cef'[l] = "unborn"
    BY <1>8 DEF CloseAndCollect, HasSlot
  <2>2. UNCHANGED <<main, shutting_down>> /\ main # "torn"
        /\ (manager' = manager \/ (manager = "collecting" /\ manager' = "waiting"))
    BY <1>8 DEF CloseAndCollect, Running
  <2>3. \A n \in DOMAIN tasks' : n + 1 \in DOMAIN tasks /\ tasks'[n] = tasks[n + 1]
    BY <1>0, <1>8 DEF CloseAndCollect, CefTyped, TypeOK
  <2> QED BY <1>0, <1>2, <2>1, <2>2, <2>3 DEF CefTyped
<1>9. CASE Initiate
  BY <1>0, <1>2, <1>9 DEF Initiate, CefTyped
<1>10. CASE Manager
  <2>1. UNCHANGED <<main, shutting_down, cef>> /\ shutting_down
        /\ (main = "torn" => manager' = "exited")
        /\ (tasks' = tasks \/ tasks' = Append(tasks, "collect"))
    BY <1>0, <1>10 DEF Manager, ManagerWakes, CollectTimesOut, WaitForClose, CefTyped
  <2>2. \A n \in DOMAIN tasks' : tasks'[n] = "collect" \/ (n \in DOMAIN tasks /\ tasks'[n] = tasks[n])
    <3>1. tasks \in Seq({"recreate", "collect"})
      BY <1>0 DEF CefTyped, TypeOK
    <3> QED BY <2>1, <3>1
  <2> QED BY <1>0, <1>2, <2>1, <2>2 DEF CefTyped
<1>11. CASE Boot
  <2>1. \/ Open(Main) /\ main = "boot" /\ main' = "overlay"
        \/ Open(Overlay) /\ main = "overlay" /\ main' = "loading"
    BY <1>11 DEF Boot
  <2>2. UNCHANGED <<manager, shutting_down>>
    BY <1>11 DEF Boot
  <2>3. main' = "overlay" => cef'[Overlay] = "unborn"
    BY <1>0, <2>1 DEF Open, CefTyped, TypeOK
  <2> QED BY <1>0, <1>2, <2>1, <2>2, <2>3 DEF CefTyped
<1>12. CASE WaitForLoad \/ Teardown
  BY <1>0, <1>2, <1>12 DEF WaitForLoad, Teardown, CefTyped
<1>13. CASE TornDown \/ UNCHANGED vars
  BY <1>1, <1>2, <1>13 DEF TornDown, vars
<1> QED BY <1>3, <1>4, <1>5, <1>6, <1>7, <1>8, <1>9, <1>10, <1>11, <1>12, <1>13
        DEF Next, Pages, Callbacks, UiTasks, MainThread

(* Where no layer is reset. *)
LEMMA NoResetStep ==
  ASSUME CefInv, [Next]_vars
  PROVE  NoReset'
<1>0. CefTyped /\ TypeOK /\ NoReset
  BY DEF CefInv, CefTyped
<1>1. UNCHANGED may
  BY DEF Next, vars
<1> SUFFICES ASSUME "reset" \notin may PROVE NoReset'
  BY <1>1 DEF NoReset
<1>2. /\ \A l \in Layers : state[l] = "NORMAL" /\ ~pending_internal_reset[l]
      /\ \A n \in DOMAIN tasks : tasks[n] = "collect"
      /\ tasks # <<>> => shutting_down
      /\ tasks \in Seq({"recreate", "collect"})
  BY <1>0 DEF NoReset, TypeOK
<1> USE MainIsALayer DEF inner, threads, moving
<1>3. ASSUME UNCHANGED <<state, pending_internal_reset, tasks>>, shutting_down => shutting_down'
      PROVE  NoReset'
  BY <1>2, <1>3 DEF NoReset
<1>4. CASE Pages
  <2>1. ASSUME NEW l, OpenAbout(l) PROVE UNCHANGED <<state, pending_internal_reset, tasks, shutting_down>>
    BY <2>1 DEF OpenAbout, Open
  <2>2. ASSUME NEW l, PageCloses(l) PROVE UNCHANGED <<state, pending_internal_reset, tasks, shutting_down>>
    BY <2>2 DEF PageCloses
  <2> QED BY <1>3, <1>4, <2>1, <2>2 DEF Pages, DismissOverlay, Reset
<1>5. CASE MainLoads \/ Initiate \/ MainThread
  BY <1>3, <1>5 DEF MainLoads, Initiate, MainThread, Boot, Open, WaitForLoad, Teardown
<1>6. ASSUME NEW l \in Layers, OnAfterCreated(l) PROVE NoReset'
  <2>1. UNCHANGED <<pending_internal_reset, tasks, shutting_down>>
    BY <1>6 DEF OnAfterCreated
  <2>2. state' = state \/ state' = [state EXCEPT ![l] = NextState(state[l])]
    BY <1>6 DEF OnAfterCreated
  <2>3. NextState(state[l]) = "NORMAL"
    BY <1>2 DEF NextState
  <2>4. \A k \in Layers : state'[k] = "NORMAL"
    BY <1>0, <1>2, <2>2, <2>3 DEF TypeOK
  <2> QED BY <1>2, <2>1, <2>4 DEF NoReset
<1>7. ASSUME NEW l \in Layers, OnBeforeClose(l) PROVE NoReset'
  <2>1. UNCHANGED <<state, shutting_down>> /\ tasks' = tasks
    BY <1>2, <1>7 DEF OnBeforeClose
  <2>2. \A k \in Layers : ~pending_internal_reset'[k]
    BY <1>0, <1>2, <1>7 DEF OnBeforeClose, TypeOK
  <2> QED BY <1>2, <2>1, <2>2 DEF NoReset
<1>8. CASE UiTasks
  <2>1. /\ UNCHANGED <<state, pending_internal_reset, shutting_down>>
        /\ tasks # <<>> /\ tasks' = Tail(tasks)
    BY <1>8 DEF UiTasks, Recreate, CloseAndCollect
  <2>2. \A n \in DOMAIN tasks' : n + 1 \in DOMAIN tasks /\ tasks'[n] = tasks[n + 1]
    BY <1>2, <2>1
  <2> QED BY <1>2, <2>1, <2>2 DEF NoReset
<1>9. CASE Manager
  <2>1. CASE ManagerWakes
    <3>1. /\ UNCHANGED <<state, pending_internal_reset, shutting_down>>
          /\ shutting_down /\ tasks' = Append(tasks, "collect")
      BY <2>1 DEF ManagerWakes
    <3>2. \A n \in DOMAIN tasks' : tasks'[n] = "collect" \/ (n \in DOMAIN tasks /\ tasks'[n] = tasks[n])
      BY <1>2, <3>1
    <3> QED BY <1>2, <3>1, <3>2 DEF NoReset
  <2>2. CASE CollectTimesOut \/ WaitForClose
    BY <1>3, <2>2 DEF CollectTimesOut, WaitForClose
  <2> QED BY <1>9, <2>1, <2>2 DEF Manager
<1>10. CASE TornDown \/ UNCHANGED vars
  BY <1>3, <1>10 DEF TornDown, vars
<1> QED BY <1>4, <1>5, <1>6, <1>7, <1>8, <1>9, <1>10 DEF Next, Callbacks

(* Where no layer is reset and nothing shuts down. *)
LEMMA InputReturnsStep ==
  ASSUME CefInv, [Next]_vars
  PROVE  InputReturns'
<1>0. CefTyped /\ TypeOK /\ StackHolds /\ NoReset /\ InputReturns
  BY DEF CefInv, CefTyped
<1> USE MainIsALayer DEF inner, registry, threads, moving
<1>1. UNCHANGED may
  BY DEF Next, vars
<1>2. shutting_down => shutting_down'
  <2>1. ASSUME NEW l PROVE OpenAbout(l) \/ PageCloses(l) => shutting_down' = shutting_down
    BY DEF OpenAbout, PageCloses
  <2>2. ASSUME NEW l PROVE OnAfterCreated(l) \/ OnBeforeClose(l) => shutting_down' = shutting_down
    BY DEF OnAfterCreated, OnBeforeClose
  <2>3. UiTasks \/ MainLoads \/ Manager \/ DismissOverlay \/ Reset => shutting_down' = shutting_down
    BY DEF UiTasks, Recreate, CloseAndCollect, MainLoads, Manager, ManagerWakes, CollectTimesOut,
           WaitForClose, DismissOverlay, Reset
  <2>4. MainThread \/ TornDown \/ UNCHANGED vars => shutting_down' = shutting_down
    BY DEF MainThread, Boot, WaitForLoad, Teardown, TornDown, vars
  <2> QED BY <2>1, <2>2, <2>3, <2>4 DEF Next, Pages, Callbacks, Initiate
<1> SUFFICES ASSUME "reset" \notin may, ~shutting_down, ~shutting_down' PROVE InputReturns'
  BY <1>1, <1>2 DEF InputReturns
<1>3. /\ tasks = <<>> /\ manager = "idle" /\ main # "torn"
      /\ \A l \in Layers : state[l] = "NORMAL"
  BY <1>0 DEF NoReset, CefTyped, TypeOK
<1>4. /\ cef[Main] \in {"unborn", "creating", "live"}
      /\ cef[Main] = "unborn" => main = "boot" /\ cef[Overlay] = "unborn"
      /\ cef[Main] # "unborn" => Main \in registered
      /\ dismissed => Main \in ToSet(active_stack)
      /\ cef[Overlay] \in {"closing", "gone"} => dismissed
  BY <1>0 DEF InputReturns, CefTyped
<1> USE DEF InputReturns
<1>5. ASSUME cef'[Main] = cef[Main], cef'[Overlay] = cef[Overlay], main # "boot" \/ main' = main,
             Main \in registered => Main \in registered',
             UNCHANGED <<active_stack, dismissed>>
      PROVE  InputReturns'
  BY Zenon, <1>4, <1>5, <1>1
<1>6. ASSUME NEW l \in Abouts, OpenAbout(l) PROVE InputReturns'
  <2>1. cef' = [cef EXCEPT ![l] = "creating"] /\ l \in Layers /\ l # Main /\ l # Overlay
    BY <1>6, LayersAssumption DEF OpenAbout, Open, Layers
  <2>2. cef'[Main] = cef[Main] /\ cef'[Overlay] = cef[Overlay]
    BY <1>0, <2>1 DEF TypeOK
  <2> QED BY <1>5, <1>6, <2>2 DEF OpenAbout, Open
<1>7. ASSUME NEW l \in Layers, PageCloses(l) PROVE InputReturns'
  <2>1. l # Main /\ (l = Overlay => dismissed)
    BY <1>7, LayersAssumption DEF PageCloses
  <2>2. cef'[Main] = cef[Main] /\ UNCHANGED <<registered, active_stack, dismissed, main>>
    BY <1>0, <1>7, <2>1 DEF PageCloses, TypeOK
  <2>3. cef'[Overlay] \in {"closing", "gone"} => dismissed
    BY <1>0, <1>4, <1>7, <2>1 DEF PageCloses, TypeOK
  <2> QED BY <1>4, <2>2, <2>3
<1>8. CASE DismissOverlay
  <2>1. cef[Overlay] # "unborn" /\ Main \in registered
    BY <1>4, <1>8 DEF DismissOverlay, OverlayPage
  <2>2. SetActive(Main) /\ UNCHANGED <<registered, cef, main>>
    BY <1>8, <2>1 DEF DismissOverlay
  <2>3. Main \in ToSet(active_stack')
    BY <1>0, <2>1, <2>2, PromotedStack
  <2>4. dismissed'
    BY <1>8 DEF DismissOverlay
  <2> QED BY Zenon, <1>4, <2>2, <2>3, <2>4
<1>9. CASE Reset
  BY <1>9 DEF Reset
<1>10. CASE MainLoads \/ Manager \/ WaitForLoad
  BY <1>5, <1>10 DEF MainLoads, Manager, ManagerWakes, CollectTimesOut, WaitForClose, WaitForLoad
<1>11. ASSUME NEW l \in Layers, OnAfterCreated(l) PROVE InputReturns'
  <2>1. ~ClosesAgain(l) /\ cef[l] = "creating"
    BY <1>3, <1>11 DEF OnAfterCreated, ClosesAgain
  <2>2. cef' = [cef EXCEPT ![l] = "live"] /\ UNCHANGED <<registered, dismissed, main>>
    BY <1>11, <2>1 DEF OnAfterCreated
  <2>3. ToSet(active_stack) \subseteq ToSet(active_stack')
    <3>1. CASE l \in registered /\ SetActive(l)
      BY <1>0, <2>2, <3>1, PromotedStack
    <3> QED BY <1>11, <2>1, <3>1 DEF OnAfterCreated, CreatedCallback
  <2>4. /\ cef'[Main] = IF l = Main THEN "live" ELSE cef[Main]
        /\ cef'[Overlay] = IF l = Overlay THEN "live" ELSE cef[Overlay]
    BY <1>0, <2>2 DEF TypeOK
  <2>5. Main \in registered \/ cef'[Main] = "unborn"
    BY <1>4, <2>1, <2>4
  <2> QED BY <1>4, <2>1, <2>2, <2>3, <2>4, <2>5
<1>12. ASSUME NEW l \in Layers, OnBeforeClose(l) PROVE InputReturns'
  <2>1. l # Main /\ (l = Overlay => dismissed)
    BY <1>4, <1>12 DEF OnBeforeClose
  <2>2. cef' = [cef EXCEPT ![l] = "gone"] /\ UNCHANGED <<dismissed, main>>
    BY <1>12 DEF OnBeforeClose
  <2>3. /\ Main \in registered => Main \in registered'
        /\ Main \in ToSet(active_stack) => Main \in ToSet(active_stack')
    <3>1. CASE RemoveLayer(l)
      <4>1. registered' = registered \ {l}
        BY <3>1 DEF RemoveLayer
      <4>2. ToSet(active_stack') = ToSet(active_stack) \ {l}
        BY <1>0, <3>1, RemovedStack
      <4> QED BY <2>1, <4>1, <4>2
    <3> QED BY <1>12, <3>1 DEF OnBeforeClose
  <2>4. /\ cef'[Main] = cef[Main]
        /\ cef'[Overlay] = IF l = Overlay THEN "gone" ELSE cef[Overlay]
    BY <1>0, <2>1, <2>2 DEF TypeOK
  <2> QED BY Zenon, <1>4, <2>1, <2>2, <2>3, <2>4
<1>13. CASE UiTasks
  BY <1>3, <1>13 DEF UiTasks, Recreate, CloseAndCollect
<1>14. CASE Boot
  <2>1. CASE Open(Main) /\ main' = "overlay"
    <3>1. cef'[Main] = "creating" /\ cef'[Overlay] = cef[Overlay] /\ Main \in registered'
          /\ UNCHANGED <<active_stack, dismissed>>
      BY <1>0, <1>14, <2>1 DEF Boot, Open, TypeOK
    <3> QED BY <1>4, <2>1, <3>1
  <2>2. CASE Open(Overlay) /\ main = "overlay" /\ main' = "loading"
    <3>1. cef'[Overlay] = "creating" /\ cef'[Main] = cef[Main] /\ registered \subseteq registered'
          /\ UNCHANGED <<active_stack, dismissed>>
      BY <1>0, <1>14, <2>2 DEF Boot, Open, TypeOK
    <3> QED BY <1>4, <2>2, <3>1
  <2> QED BY <1>14, <2>1, <2>2 DEF Boot
<1>15. CASE Teardown
  BY <1>3, <1>15 DEF Teardown
<1>16. CASE Initiate
  BY <1>16 DEF Initiate
<1>17. CASE TornDown \/ UNCHANGED vars
  BY <1>5, <1>17 DEF TornDown, vars
<1> QED BY <1>6, <1>7, <1>8, <1>9, <1>10, <1>11, <1>12, <1>13, <1>14, <1>15, <1>16, <1>17
        DEF Next, Pages, Callbacks, MainThread

(* Where nothing disturbs the shutdown. *)
LEMMA DrainingStep ==
  ASSUME CefInv, [Next]_vars
  PROVE  Draining'
<1>0. CefTyped /\ TypeOK /\ NoReset /\ Draining
  BY DEF CefInv, CefTyped
<1> USE MainIsALayer DEF inner, registry, threads, moving
<1>1. UNCHANGED may
  BY DEF Next, vars
<1> SUFFICES ASSUME may = {} PROVE Draining'
  BY <1>1 DEF Draining
<1>2. /\ tasks # <<>> => tasks = <<"collect">> /\ manager = "collecting"
      /\ \A l \in Layers : Alive(l) /\ main # "torn" => l \in registered
      /\ \A l \in Layers : closed[l] => cef[l] = "gone"
      /\ manager = "exited" => wait_set = {}
      /\ manager \in {"waiting", "exited"} => \A l \in Layers : Alive(l) => l \in wait_set
  BY <1>0 DEF Draining
<1>3. /\ \A l \in Layers : state[l] = "NORMAL" /\ ~pending_internal_reset[l]
      /\ manager # "idle" => shutting_down
      /\ shutting_down => main \notin {"boot", "overlay"}
      /\ main = "torn" => manager = "exited"
  BY <1>0 DEF NoReset, CefTyped
<1> USE DEF Draining, Alive
(* Nothing moves but browsers that stay alive or go. *)
<1>4. ASSUME NEW l \in Layers, \A k \in Layers : k # l => cef'[k] = cef[k] /\ closed'[k] = closed[k],
             Alive(l), closed'[l] => cef'[l] = "gone",
             registered' = registered \/ (cef'[l] = "gone" /\ registered' = registered \ {l}),
             UNCHANGED <<tasks, manager, wait_set, main>>
      PROVE  Draining'
  <2>1. \A k \in Layers : Alive(k)' => Alive(k)
    BY <1>4
  <2>2. \A k \in Layers : closed'[k] => cef'[k] = "gone"
    BY <1>2, <1>4
  <2>3. \A k \in Layers : Alive(k)' /\ main # "torn" => k \in registered'
    BY <1>2, <1>4, <2>1
  <2> QED BY <1>2, <1>4, <2>1, <2>2, <2>3
<1>5. ASSUME UNCHANGED <<cef, closed, registered, tasks, manager, wait_set, main>> PROVE Draining'
  BY Zenon, <1>1, <1>2, <1>5
(* A new browser. *)
<1>6. ASSUME NEW l \in Layers, Open(l), manager = "idle", main' # "torn",
             UNCHANGED <<tasks, manager, wait_set>>
      PROVE  Draining'
  <2>1. /\ cef[l] = "unborn" /\ cef' = [cef EXCEPT ![l] = "creating"]
        /\ registered' = registered \union {l} /\ UNCHANGED closed
    BY <1>6 DEF Open
  <2>2. \A k \in Layers : cef'[k] = IF k = l THEN "creating" ELSE cef[k]
    BY <1>0, <2>1 DEF TypeOK
  <2>3. main # "torn"
    BY <1>3, <1>6
  <2>4. \A k \in Layers : closed'[k] => cef'[k] = "gone"
    BY <1>2, <2>1, <2>2
  <2>5. \A k \in Layers : Alive(k)' => k \in registered'
    BY <1>2, <2>1, <2>2, <2>3
  <2> QED BY <1>2, <1>6, <2>4, <2>5
<1>7. ASSUME NEW l \in Abouts, OpenAbout(l) PROVE Draining'
  <2>1. l \in Layers
    BY DEF Layers
  <2> QED BY <1>3, <1>6, <1>7, <2>1 DEF OpenAbout
<1>8. ASSUME NEW l \in Layers, PageCloses(l) PROVE Draining'
  <2>1. /\ cef[l] = "live" /\ cef' = [cef EXCEPT ![l] = "closing"]
        /\ UNCHANGED <<closed, registered, tasks, manager, wait_set, main>>
    BY <1>8 DEF PageCloses
  <2>2. Alive(l) /\ ~closed'[l] /\ \A k \in Layers : k # l => cef'[k] = cef[k]
    BY <1>0, <1>2, <2>1 DEF TypeOK
  <2> QED BY <1>4, <2>1, <2>2
<1>9. CASE DismissOverlay \/ MainLoads \/ Initiate
  BY <1>5, <1>9 DEF DismissOverlay, MainLoads, Initiate
<1>10. CASE Reset \/ CollectTimesOut
  BY <1>10 DEF Reset, CollectTimesOut
<1>11. ASSUME NEW l \in Layers, OnAfterCreated(l) PROVE Draining'
  <2>1. /\ cef[l] = "creating" /\ closed' = [closed EXCEPT ![l] = FALSE]
        /\ (cef' = [cef EXCEPT ![l] = "closing"] \/ cef' = [cef EXCEPT ![l] = "live"])
        /\ UNCHANGED <<registered, tasks, manager, wait_set, main>>
    BY <1>11 DEF OnAfterCreated
  <2>2. Alive(l) /\ ~closed'[l]
        /\ \A k \in Layers : k # l => cef'[k] = cef[k] /\ closed'[k] = closed[k]
    BY <1>0, <2>1 DEF TypeOK
  <2> QED BY <1>4, <2>1, <2>2
<1>12. ASSUME NEW l \in Layers, OnBeforeClose(l) PROVE Draining'
  <2>1. /\ cef[l] = "closing" /\ cef' = [cef EXCEPT ![l] = "gone"]
        /\ closed' = [closed EXCEPT ![l] = TRUE]
        /\ UNCHANGED <<tasks, manager, wait_set, main>>
    BY <1>3, <1>12 DEF OnBeforeClose
  <2>2. registered' = registered \/ registered' = registered \ {l}
    BY <1>12 DEF OnBeforeClose, RemoveLayer
  <2>3. Alive(l) /\ cef'[l] = "gone"
        /\ \A k \in Layers : k # l => cef'[k] = cef[k] /\ closed'[k] = closed[k]
    BY <1>0, <2>1 DEF TypeOK
  <2> QED BY <1>4, <2>1, <2>2, <2>3
<1>13. CASE Recreate
  <2>1. Head(<<"collect">>) = "collect"
    OBVIOUS
  <2> QED BY <1>2, <1>13, <2>1 DEF Recreate
<1>14. CASE CloseAndCollect
  <2>1. /\ tasks = <<"collect">> /\ manager = "collecting" /\ main # "torn"
        /\ tasks' = Tail(tasks)
        /\ cef' = [l \in Layers |-> IF l \in registered /\ HasSlot(l) THEN "closing" ELSE cef[l]]
        /\ manager' = "waiting" /\ wait_set' = registered
        /\ UNCHANGED <<closed, registered, main>>
    BY <1>2, <1>14 DEF CloseAndCollect, Running
  <2>2. tasks' = <<>>
    BY <2>1
  <2>3. \A l \in Layers : Alive(l)' => Alive(l)
    BY <2>1 DEF HasSlot
  <2>4. \A l \in Layers : closed'[l] => cef'[l] = "gone"
    BY <1>2, <2>1 DEF HasSlot
  <2>5. \A l \in Layers : Alive(l)' => l \in registered' /\ l \in wait_set'
    BY <1>2, <2>1, <2>3
  <2> QED BY <2>1, <2>2, <2>4, <2>5
<1>15. CASE ManagerWakes
  <2>1. /\ tasks = <<>> /\ tasks' = Append(tasks, "collect") /\ manager' = "collecting"
        /\ UNCHANGED <<cef, closed, registered, wait_set, main>>
    BY <1>2, <1>15 DEF ManagerWakes
  <2>2. tasks' = <<"collect">>
    BY <2>1
  <2> QED BY <1>2, <2>1, <2>2
<1>16. CASE WaitForClose
  <2>1. /\ manager = "waiting" /\ UNCHANGED <<cef, closed, registered, tasks, main>>
        /\ \/ wait_set = {} /\ wait_set' = {} /\ manager' = "exited"
           \/ manager' = "waiting" /\ \E l \in wait_set : closed[l] /\ wait_set' = wait_set \ {l}
    BY <1>16 DEF WaitForClose
  <2>2. \A l \in Layers : Alive(l)' => l \in wait_set'
    BY <1>0, <1>2, <2>1 DEF TypeOK
  <2>3. /\ tasks' = <<>> /\ (manager' = "exited" => wait_set' = {})
        /\ \A l \in Layers : closed'[l] => cef'[l] = "gone"
        /\ \A l \in Layers : Alive(l)' /\ main' # "torn" => l \in registered'
    BY <1>2, <2>1
  <2> QED BY <2>2, <2>3
<1>17. CASE Boot
  <2>1. main \in {"boot", "overlay"} /\ manager = "idle"
    BY <1>0, <1>3, <1>17 DEF Boot, TypeOK
  <2> QED BY <1>6, <1>17, <2>1 DEF Boot
<1>18. CASE WaitForLoad
  BY <1>2, <1>18 DEF WaitForLoad
<1>19. CASE Teardown
  BY <1>2, <1>19 DEF Teardown
<1>20. CASE TornDown \/ UNCHANGED vars
  BY <1>5, <1>20 DEF TornDown, vars
<1> QED BY <1>7, <1>8, <1>9, <1>10, <1>11, <1>12, <1>13, <1>14, <1>15, <1>16, <1>17, <1>18, <1>19, <1>20
        DEF Next, Pages, Callbacks, UiTasks, Manager, MainThread
-----------------------------------------------------------------------------
LEMMA CefInvariance == Spec => []CefInv
<1>1. CefInv /\ [Next]_vars => CefInv'
  BY ThreadsStep, StackStep, NoResetStep, InputReturnsStep, DrainingStep DEF CefInv
<1> QED BY CefInit, <1>1, PTL DEF Spec

(* The variables of the browsers, their registry and the three threads keep *)
(* their types.                                                            *)
THEOREM LayersTyped == Spec => []TypeOK
<1>1. CefInv => TypeOK
  BY DEF CefInv, CefTyped
<1> QED BY CefInvariance, <1>1, PTL

(* browsers.rs: whichever way layers come, go and are promoted, the stack   *)
(* of active layers and the focus never name one whose box was freed, and  *)
(* the stack names none twice.                                             *)
THEOREM NoFreedLayerIsActive == Spec => []StackIsRegistered
<1>1. CefInv => StackIsRegistered
  BY DEF CefInv, StackHolds
<1> QED BY CefInvariance, <1>1, PTL

(* lifecycle.rs and tasks.rs: when no layer is reset, none opens behind the *)
(* snapshot and the collection does not time out, the main thread tears    *)
(* down only what no browser uses any more, however many layers there are. *)
THEOREM OrderlyTeardown == Spec => []OrderlyDrain
<1>1. CefInv => OrderlyDrain
  BY DEF CefInv, CefTyped, Draining, OrderlyDrain, DrainedBeforeTeardown
<1> QED BY CefInvariance, <1>1, PTL

(* business_overlay.rs: when the overlay has gone and the main layer was    *)
(* never reset, the main layer is one the input can go to.                 *)
THEOREM InputHandedBack == Spec => []MainTakesOverUnlessReset
<1>1. CefInv => MainTakesOverUnlessReset
  BY DEF CefInv, InputReturns, MainTakesOverUnlessReset, MainTakesOver
<1> QED BY CefInvariance, <1>1, PTL
=============================================================================
