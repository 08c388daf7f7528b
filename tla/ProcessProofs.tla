--------------------------- MODULE ProcessProofs ---------------------------
(***************************************************************************)
(* The threads behind the whole run of the program, and what several       *)
(* launches of it do to each other.                                        *)
(*                                                                         *)
(* The manager, for any bound on its queue: no wake-up of it is lost, and  *)
(* what it does are steps of the phases the application is promised.       *)
(*                                                                         *)
(* The settings store, for any number of changes and of refused writes:    *)
(* what is queued is the newest snapshot, and the join at shutdown leaves  *)
(* nothing of it behind.                                                   *)
(*                                                                         *)
(* The channel between instances: however many processes are launched,     *)
(* exit and crash, as long as no two launches were under way at once, a    *)
(* running instance holds the name.                                        *)
(*                                                                         *)
(* The import of a legacy profile, for any files, any number of launches   *)
(* and of refused operations: what a program wrote is never replaced,      *)
(* whatever overlaps; what an import lost was reported, wherever launches  *)
(* were cut off, unless two overlapped; and one that nothing refused and   *)
(* nobody met runs with the whole profile.                                 *)
(***************************************************************************)
EXTENDS Manager, SettingsStore, InstanceIpc, Migrate, SequenceTheorems, TLAPS

(* The initiator's progress is what the flag says, and a request that must *)
(* not come early finds the handler installed.                             *)
Asking ==
  /\ asker = "no" <=> ~shutting_down
  /\ ~MayAskEarly /\ asker # "no" => boot = "handling"

(* Whoever must be woken for has signalled, or is about to; a shutdown     *)
(* that was already taken is the last message of the batch.                *)
ShutdownTaken == work # <<>> /\ work[Len(work)] = "Shutdown"
Waking ==
  /\ manager # "take" /\ queue # <<>> => wake \/ owed > 0
  /\ asker = "done" /\ ~MayAskEarly /\ manager = "wait" => wake
  /\ asker = "done" /\ ~MayAskEarly /\ manager = "fold" => wake \/ ShutdownTaken

(* The manager has entered the shutdown phase exactly when its loop has    *)
(* ended, and only a shutdown that was asked for can do that.  A hidden    *)
(* window's browsers have been told so.                                    *)
Phased ==
  /\ \A i \in DOMAIN work : work[i] = "Shutdown" => shutting_down
  /\ state = "ShuttingDown" <=> manager \in {"closing", "exited"}
  /\ released <=> manager = "exited"
  /\ state = "Hidden" => hidden

ManagerInv == ManagerTypeOK /\ Asking /\ Waking /\ Phased
-----------------------------------------------------------------------------
LEMMA ManagerInitInv == ManagerInit => ManagerInv
<1> SUFFICES ASSUME ManagerInit PROVE ManagerInv
  OBVIOUS
<1>1. ManagerTypeOK
  <2>1. wake \in BOOLEAN /\ shutting_down \in BOOLEAN /\ hidden \in BOOLEAN
        /\ released \in BOOLEAN
    BY Zenon DEF ManagerInit
  <2>2. 0 \in 0 .. MaxQueue
    BY MaxQueueAssumption
  <2> QED BY <2>1, <2>2 DEF ManagerInit, ManagerTypeOK
<1>2. Asking /\ Waking /\ Phased
  BY DEF ManagerInit, Asking, Waking, Phased
<1> QED BY <1>1, <1>2 DEF ManagerInv

LEMMA ManagerTypeStep == ManagerTypeOK /\ [ManagerNext]_mgvars => ManagerTypeOK'
<1> SUFFICES ASSUME ManagerTypeOK, [ManagerNext]_mgvars PROVE ManagerTypeOK'
  OBVIOUS
<1> USE MaxQueueAssumption DEF ManagerTypeOK
<1>1. CASE StartManager \/ InstallHandler
  BY <1>1 DEF StartManager, InstallHandler, inbox, control
<1>2. CASE Sender
  <2>1. ASSUME NEW msg \in Messages, Push(msg) PROVE ManagerTypeOK'
    BY <2>1 DEF Push, control
  <2>2. CASE Signal
    BY <2>2 DEF Signal, control
  <2> QED BY <1>2, <2>1, <2>2 DEF Sender
<1>3. CASE SetFlag
  BY <1>3 DEF SetFlag, inbox
<1>4. CASE RunHandler
  <2>1. wake' \in BOOLEAN
    BY <1>4, Zenon DEF RunHandler
  <2> QED BY <1>4, <2>1 DEF RunHandler
<1>5. CASE Wait
  BY <1>5 DEF Wait, control
<1>6. CASE TakeMessages
  BY <1>6 DEF TakeMessages, control
<1>7. CASE Fold
  <2>1. PICK next : next = NextState(Head(work))
    OBVIOUS
  <2>2. Head(work) \in Messages \union {"Shutdown"}
        /\ Tail(work) \in Seq(Messages \union {"Shutdown"})
    BY <1>7 DEF Fold
  <2>3. next.state \in {"Running", "Hidden", "Suspended", "ShuttingDown"}
        /\ next.hidden \in BOOLEAN
    BY <2>1, <2>2 DEF NextState, To, Messages
  <2> QED BY <1>7, <2>1, <2>2, <2>3 DEF Fold, inbox, control
<1>8. CASE Folded \/ RunShutdown \/ Exited \/ UNCHANGED mgvars
  BY <1>8 DEF Folded, RunShutdown, Exited, mgvars, inbox, control
<1> QED BY <1>1, <1>2, <1>3, <1>4, <1>5, <1>6, <1>7, <1>8 DEF ManagerNext, Asker, Loop

(* What is left of a batch ends with the shutdown that ended the batch. *)
LEMMA TailKeepsLast ==
  ASSUME NEW S, NEW s \in Seq(S), s # <<>>, Tail(s) # <<>>
  PROVE  Tail(s)[Len(Tail(s))] = s[Len(s)]
OBVIOUS

LEMMA LastOfOne ==
  ASSUME NEW S, NEW s \in Seq(S), s # <<>>, Tail(s) = <<>>
  PROVE  s[Len(s)] = Head(s)
<1>1. Len(s) \in Nat /\ Len(s) # 0
  OBVIOUS
<1>2. Len(Tail(s)) = Len(s) - 1
  BY <1>1
<1>3. Len(Tail(s)) = 0
  BY EmptySeq
<1>4. Len(s) = 1
  BY <1>1, <1>2, <1>3
<1> QED BY <1>4

LEMMA FoldStep ==
  ASSUME ManagerInv, Fold
  PROVE  Waking' /\ Phased'
<1> USE DEF ManagerInv, ManagerTypeOK
<1>1. PICK next : next = NextState(Head(work))
  OBVIOUS
<1>2. /\ state' = next.state /\ work' = Tail(work) /\ work # <<>>
      /\ manager' = IF next.state = "ShuttingDown" THEN "closing" ELSE "fold"
      /\ manager = "fold" /\ state # "ShuttingDown"
      /\ UNCHANGED <<boot, queue, wake, owed, shutting_down, asker, released>>
  BY <1>1 DEF Fold, Phased, inbox, control
<1>3. next.state = "ShuttingDown" <=> Head(work) = "Shutdown"
  BY <1>1, <1>2 DEF NextState, To
<1>4. Waking'
  <2>1. CASE Head(work) = "Shutdown"
    BY <2>1, <1>2, <1>3 DEF Waking
  <2>2. CASE Head(work) # "Shutdown"
    <3>1. ShutdownTaken => ShutdownTaken'
      <4> SUFFICES ASSUME ShutdownTaken PROVE ShutdownTaken'
        OBVIOUS
      <4>1. Tail(work) # <<>>
        BY <2>2, <1>2, LastOfOne DEF ShutdownTaken
      <4> QED BY <4>1, <1>2, TailKeepsLast DEF ShutdownTaken
    <3> QED BY <3>1, <2>2, <1>2, <1>3 DEF Waking
  <2> QED BY <2>1, <2>2
<1>5. Phased'
  <2>1. \A i \in DOMAIN work' : work'[i] = "Shutdown" => shutting_down'
    <3>1. \A i \in DOMAIN Tail(work) : Tail(work)[i] = work[i + 1]
                                       /\ i + 1 \in DOMAIN work
      BY <1>2
    <3> QED BY <3>1, <1>2 DEF Phased
  <2>2. state' = "ShuttingDown" <=> manager' \in {"closing", "exited"}
    BY <1>2
  <2>3. ~released /\ manager' # "exited"
    BY <1>2 DEF Phased
  <2>4. released' <=> manager' = "exited"
    BY <2>3, <1>2, Zenon
  <2>5. state' = "Hidden" => hidden'
    <3>1. hidden' = next.hidden
      BY <1>1 DEF Fold
    <3> QED BY <3>1, <1>1, <1>2 DEF NextState, To, Phased
  <2> QED BY <2>1, <2>2, <2>4, <2>5 DEF Phased
<1> QED BY <1>4, <1>5

LEMMA ManagerInvStep == ManagerInv /\ [ManagerNext]_mgvars => ManagerInv'
<1> SUFFICES ASSUME ManagerInv, [ManagerNext]_mgvars PROVE Asking' /\ Waking' /\ Phased'
  BY ManagerTypeStep DEF ManagerInv
<1> USE MaxQueueAssumption DEF ManagerInv, ManagerTypeOK
<1>1. CASE StartManager \/ InstallHandler
  BY <1>1 DEF StartManager, InstallHandler, inbox, control, Asking, Waking,
              ShutdownTaken, Phased
<1>2. CASE Sender
  <2>1. ASSUME NEW msg \in Messages, Push(msg)
        PROVE Asking' /\ Waking' /\ Phased'
    BY <2>1 DEF Push, control, Asking, Waking, ShutdownTaken, Phased
  <2>2. CASE Signal
    BY <2>2 DEF Signal, control, Asking, Waking, ShutdownTaken, Phased
  <2> QED BY <1>2, <2>1, <2>2 DEF Sender
<1>3. CASE SetFlag
  BY <1>3 DEF SetFlag, inbox, Asking, Waking, ShutdownTaken, Phased
<1>4. CASE RunHandler
  <2>1. ~MayAskEarly => wake'
    BY <1>4 DEF RunHandler, Asking
  <2>2. wake => wake'
    BY <1>4 DEF RunHandler
  <2> QED BY <1>4, <2>1, <2>2 DEF RunHandler, Asking, Waking, ShutdownTaken,
                                  Phased
<1>5. CASE Wait
  BY <1>5 DEF Wait, control, Asking, Waking, ShutdownTaken, Phased
<1>6. CASE TakeMessages
  <2>1. shutting_down => ShutdownTaken'
    BY <1>6 DEF TakeMessages, ShutdownTaken
  <2>2. \A i \in DOMAIN work' : work'[i] = "Shutdown" => shutting_down
    BY <1>6 DEF TakeMessages, Messages
  <2> QED BY <1>6, <2>1, <2>2 DEF TakeMessages, control, Asking, Waking, Phased
<1>7. CASE Fold
  <2>1. Asking'
    BY <1>7 DEF Fold, inbox, control, Asking
  <2> QED BY <1>7, <2>1, FoldStep
<1>8. CASE Folded
  BY <1>8 DEF Folded, inbox, control, Asking, Waking, ShutdownTaken, Phased
<1>9. CASE RunShutdown
  BY <1>9 DEF RunShutdown, inbox, control, Asking, Waking, ShutdownTaken, Phased
<1>10. CASE Exited \/ UNCHANGED mgvars
  BY <1>10 DEF Exited, mgvars, inbox, control, Asking, Waking, ShutdownTaken,
               Phased
<1> QED BY <1>1, <1>2, <1>3, <1>4, <1>5, <1>6, <1>7, <1>8, <1>9, <1>10
        DEF ManagerNext, Asker, Loop

LEMMA ManagerInvariance == ManagerSpec => []ManagerInv
<1> QED BY ManagerInitInv, ManagerInvStep, PTL DEF ManagerSpec
-----------------------------------------------------------------------------
(* No wake-up of the manager (manager.rs, wake.wait and wake.drain) is     *)
(* lost, whatever the bound on the queue.                                  *)
THEOREM NoWakeUpLost == ManagerSpec => []NothingStranded
<1>1. ManagerInv => NothingStranded
  BY DEF ManagerInv, Waking, Asking, NothingStranded
<1> QED BY <1>1, ManagerInvariance, PTL

(* The safety half of the refinement: the manager loop begins in the       *)
(* promised phase, and each of its steps is a promised one or a stutter.   *)
THEOREM StaysInPhase ==
  ManagerSpec => Promise!Init /\ [][Promise!Next]_(Promise!vars)
<1>1. ManagerInit => Promise!Init
  BY DEF ManagerInit, Promise!Init
<1>2. ManagerInv /\ [ManagerNext]_mgvars => [Promise!Next]_(Promise!vars)
  <2> SUFFICES ASSUME ManagerInv, [ManagerNext]_mgvars
               PROVE  Promise!Next \/ UNCHANGED Promise!vars
    OBVIOUS
  <2> USE DEF ManagerInv, ManagerTypeOK, Promise!vars
  <2>1. CASE StartManager \/ InstallHandler \/ Wait \/ TakeMessages \/ Folded \/ Exited
             \/ RunHandler \/ UNCHANGED mgvars
    BY <2>1 DEF StartManager, InstallHandler, Wait, TakeMessages, Folded, Exited,
                RunHandler, mgvars, inbox, control
  <2>2. CASE Sender
    BY <2>2 DEF Sender, Push, Signal, inbox, control
  <2>3. CASE SetFlag
    BY <2>3 DEF SetFlag, Asking, Promise!Next, Promise!Ask
  <2>4. CASE RunShutdown
    BY <2>4 DEF RunShutdown, Phased, Promise!Next, Promise!Release, inbox,
                control
  <2>5. CASE Fold
    <3>1. Head(work) = "Shutdown" => shutting_down
      BY <2>5 DEF Fold, Phased
    <3>2. PICK next : next = NextState(Head(work))
      OBVIOUS
    <3>3. /\ state' = next.state /\ hidden' = next.hidden
          /\ UNCHANGED <<shutting_down, released>>
          /\ state # "ShuttingDown"
      BY <2>5, <3>2 DEF Fold, Phased, inbox, control
    <3> QED BY <3>1, <3>2, <3>3 DEF Phased, NextState, To, Promise!Next, Promise!Hide,
               Promise!Show, Promise!Suspend, Promise!Resume, Promise!ShutDown,
               Promise!Become, Promise!Phases
  <2> QED BY <2>1, <2>2, <2>3, <2>4, <2>5 DEF ManagerNext, Asker, Loop
<1> QED BY <1>1, <1>2, ManagerInvariance, PTL DEF ManagerSpec
-----------------------------------------------------------------------------
(* Queued and drained versions only grow, and what the slot and the worker *)
(* hold lies between the two.                                              *)
Accounted ==
  /\ drained <= queued /\ queued <= data
  /\ slot # {} => slot = {queued} /\ drained < queued
  /\ worker = "writing" /\ slot # {} => held < queued
  /\ worker = "writing" /\ slot = {} => held = queued
  /\ worker = "waiting" /\ slot = {} => drained = queued
  /\ worker \in {"absent", "gone"} => slot = {} /\ drained = queued

(* A handler that has still to queue has a snapshot newer than the queue.  *)
Handlers ==
  /\ ui = "async" => ui_snap = data /\ queued < data
  /\ main # "running" => ui = "idle"
  /\ stop => main \in {"joining", "stopped"}
  /\ worker = "gone" => stop
  /\ main = "stopped" => worker \in {"absent", "gone"}

StoreInv == StoreTypeOK /\ Accounted /\ Handlers
-----------------------------------------------------------------------------
LEMMA StoreInitInv == StoreInit => StoreInv
<1> SUFFICES ASSUME StoreInit PROVE StoreInv
  OBVIOUS
<1>1. StoreTypeOK
  <2>1. stop \in BOOLEAN
    BY Zenon DEF StoreInit
  <2>2. 0 \in Versions /\ 0 \in 0 .. MaxFailures
    BY MaxVersionAssumption, MaxFailuresAssumption DEF Versions
  <2> QED BY <2>1, <2>2 DEF StoreInit, StoreTypeOK
<1>2. Accounted
  BY DEF StoreInit, Accounted
<1>3. Handlers
  BY DEF StoreInit, Handlers
<1> QED BY <1>1, <1>2, <1>3 DEF StoreInv

LEMMA StoreTypeStep == StoreTypeOK /\ [StoreNext]_ssvars => StoreTypeOK'
<1> SUFFICES ASSUME StoreTypeOK, [StoreNext]_ssvars PROVE StoreTypeOK'
  OBVIOUS
<1> USE MaxVersionAssumption, MaxFailuresAssumption DEF StoreTypeOK, Versions
<1>1. CASE UiThread
  <2>1. ASSUME NEW how \in {"async", "sync"}, SetAndSnapshot(how) PROVE StoreTypeOK'
    BY <2>1 DEF SetAndSnapshot, Change, pending, mainThread
  <2>2. CASE SaveAsync
    BY <2>2 DEF SaveAsync, mainThread
  <2>3. CASE SaveAndNavigate
    BY <2>3 DEF SaveAndNavigate, SaveData, pending, mainThread
  <2> QED BY <1>1, <2>1, <2>2, <2>3 DEF UiThread
<1>2. CASE RendererReads
  BY <1>2 DEF RendererReads, pending, mainThread
<1>3. CASE Worker
  BY <1>3 DEF Worker, Take, Write, Exit, SaveData, pending, uiThread, mainThread
<1>4. CASE MainThread
  <2>1. CASE Persist
    BY <2>1 DEF Persist, Change, pending, uiThread
  <2>2. CASE Save
    BY <2>2 DEF Save, SaveData, pending, uiThread
  <2>3. CASE StopWorker
    BY <2>3 DEF StopWorker, uiThread
  <2>4. CASE Joined
    BY <2>4 DEF Joined, pending, uiThread
  <2> QED BY <1>4, <2>1, <2>2, <2>3, <2>4 DEF MainThread
<1>5. CASE Done \/ UNCHANGED ssvars
  BY <1>5 DEF Done, ssvars, pending, uiThread, mainThread
<1> QED BY <1>1, <1>2, <1>3, <1>4, <1>5 DEF StoreNext

LEMMA StoreInvStep == StoreInv /\ [StoreNext]_ssvars => StoreInv'
<1> SUFFICES ASSUME StoreInv, [StoreNext]_ssvars PROVE Accounted' /\ Handlers'
  BY StoreTypeStep DEF StoreInv
<1> USE MaxVersionAssumption DEF StoreInv, StoreTypeOK, Versions, Accounted, Handlers
<1>1. CASE UiThread
  <2>1. ASSUME NEW how \in {"async", "sync"}, SetAndSnapshot(how)
        PROVE Accounted' /\ Handlers'
    BY <2>1 DEF SetAndSnapshot, Change, pending, mainThread
  <2>2. CASE SaveAsync
    <3>1. ~stop
      BY <2>2 DEF SaveAsync
    <3>2. slot' = {queued'} /\ slot' # {} /\ queued' = data /\ queued < data
      BY <2>2, <3>1 DEF SaveAsync
    <3>3. worker' = (IF worker = "absent" THEN "waiting" ELSE worker)
      BY <2>2, <3>1 DEF SaveAsync
    <3>4. /\ UNCHANGED <<data, held, drained, stop, main>>
          /\ ui' = "idle"
      BY <2>2 DEF SaveAsync, mainThread
    <3>5. worker # "gone"
      BY <3>1
    <3>6. Accounted'
      BY <3>2, <3>3, <3>4, <3>5
    <3>7. Handlers'
      <4>1. ui' # "async" /\ ~stop' /\ worker' # "gone"
        BY <3>1, <3>3, <3>4, <3>5
      <4>2. main' = main /\ main # "stopped"
        BY <3>1, <3>4, <2>2 DEF SaveAsync
      <4> QED BY <4>1, <4>2, <3>4
    <3> QED BY <3>6, <3>7
  <2>3. CASE SaveAndNavigate
    BY <2>3 DEF SaveAndNavigate, pending, mainThread
  <2> QED BY <1>1, <2>1, <2>2, <2>3 DEF UiThread
<1>2. CASE RendererReads
  BY <1>2 DEF RendererReads, pending, mainThread
<1>3. CASE Worker
  <2>1. CASE Take
    BY <2>1 DEF Take, uiThread, mainThread
  <2>2. CASE Write
    BY <2>2 DEF Write, pending, uiThread, mainThread
  <2>3. CASE Exit
    BY <2>3 DEF Exit, pending, uiThread, mainThread
  <2> QED BY <1>3, <2>1, <2>2, <2>3 DEF Worker
<1>4. CASE MainThread
  <2>1. CASE Persist
    BY <2>1 DEF Persist, Change, pending, uiThread
  <2>2. CASE Save
    BY <2>2 DEF Save, pending, uiThread
  <2>3. CASE StopWorker
    BY <2>3 DEF StopWorker, uiThread
  <2>4. CASE Joined
    BY <2>4 DEF Joined, pending, uiThread
  <2> QED BY <1>4, <2>1, <2>2, <2>3, <2>4 DEF MainThread
<1>5. CASE Done \/ UNCHANGED ssvars
  BY <1>5 DEF Done, ssvars, pending, uiThread, mainThread
<1> QED BY <1>1, <1>2, <1>3, <1>4, <1>5 DEF StoreNext

LEMMA StoreInvariance == StoreSpec => []StoreInv
BY StoreInitInv, StoreInvStep, PTL DEF StoreSpec
-----------------------------------------------------------------------------
(* The reachable states are well typed. *)
THEOREM SettingsTypeCorrect == StoreSpec => []StoreTypeOK
<1>1. StoreInv => StoreTypeOK
  BY DEF StoreInv
<1> QED BY StoreInvariance, <1>1, PTL

(* Only the newest snapshot waits to be written, and it is newer than any  *)
(* the worker holds or has written (`settings_save_async`).                *)
THEOREM NewestIsQueued == StoreSpec => []SlotIsNewest
<1>1. StoreInv => SlotIsNewest
  BY DEF StoreInv, StoreTypeOK, Versions, Accounted, SlotIsNewest
<1> QED BY StoreInvariance, <1>1, PTL

(* `settings_shutdown_save_worker` returns with everything drained. *)
THEOREM NothingQueuedIsLost == StoreSpec => []DrainLosesNothing
<1>1. StoreInv => DrainLosesNothing
  BY DEF StoreInv, Accounted, Handlers, DrainLosesNothing
<1> QED BY StoreInvariance, <1>1, PTL
-----------------------------------------------------------------------------
Placed ==
  /\ ii_unix \in BOOLEAN
  /\ ii_pc \in [Launches -> Where]
  /\ ii_name \in Launches \cup {NoLaunch}

(* A launch is alone, and one that is about to take the name over has seen *)
(* that nobody answers under it: nobody is running then.                   *)
Alone ==
  /\ \A l, k \in Launches :
       ii_pc[l] \in Launching /\ ii_pc[k] \in Launching => l = k
  /\ \A l \in Launches : ii_pc[l] = "rebind" => Running = {}

InstanceInv == Placed /\ (~ii_overlap => Alone /\ OneInstance)
-----------------------------------------------------------------------------
LEMMA InstanceInitInv == InstanceInit => InstanceInv
BY DEF InstanceInit, InstanceInv, Placed, Alone, OneInstance, Running, Where, Launching

LEMMA PlacedStep == InstanceInv /\ [InstanceNext]_iivars => Placed'
<1> SUFFICES ASSUME InstanceInv, [InstanceNext]_iivars PROVE Placed'
  OBVIOUS
<1> USE DEF InstanceInv, Placed, Goto, Where, Launching
<1>1. ASSUME NEW l \in Launches, StartUp(l) PROVE Placed'
  BY <1>1 DEF StartUp
<1>2. ASSUME NEW l \in Launches, Make(l) PROVE Placed'
  BY <1>2 DEF Make
<1>3. ASSUME NEW l \in Launches, Probe(l) PROVE Placed'
  BY <1>3 DEF Probe
<1>4. ASSUME NEW l \in Launches, Rebind(l) PROVE Placed'
  BY <1>4 DEF Rebind
<1>5. ASSUME NEW l \in Launches, Notify(l) \/ Acked(l) PROVE Placed'
  BY <1>5 DEF Notify, Acked
<1>6. ASSUME NEW l \in Launches, Accept(l) \/ Serve(l) PROVE Placed'
  BY <1>6 DEF Accept, Serve
<1>7. ASSUME NEW l \in Launches, Quit(l) \/ Crash(l) PROVE Placed'
  BY <1>7 DEF Quit, Crash
<1>8. CASE PipeGone \/ UNCHANGED iivars
  BY <1>8 DEF PipeGone, iivars
<1> QED BY <1>1, <1>2, <1>3, <1>4, <1>5, <1>6, <1>7, <1>8 DEF InstanceNext

LEMMA AloneStep ==
  ASSUME InstanceInv, ~ii_overlap, ~ii_overlap', [InstanceNext]_iivars
  PROVE  Alone' /\ OneInstance'
<1> USE InstanceAssumption DEF InstanceInv, Placed, Alone, OneInstance, Running, Goto, Launching
<1>1. ASSUME NEW l \in Launches, StartUp(l) PROVE Alone' /\ OneInstance'
  BY <1>1 DEF StartUp
<1>2. ASSUME NEW l \in Launches, Make(l) PROVE Alone' /\ OneInstance'
  BY <1>2 DEF Make
<1>3. ASSUME NEW l \in Launches, Probe(l) PROVE Alone' /\ OneInstance'
  BY <1>3 DEF Probe, ProbeOutcomes, ProbeIsStale, Listening
<1>4. ASSUME NEW l \in Launches, Rebind(l) PROVE Alone' /\ OneInstance'
  BY <1>4 DEF Rebind
<1>5. ASSUME NEW l \in Launches, Notify(l) \/ Acked(l) PROVE Alone' /\ OneInstance'
  BY <1>5 DEF Notify, Acked
<1>6. ASSUME NEW l \in Launches, Accept(l) \/ Serve(l) PROVE Alone' /\ OneInstance'
  BY <1>6 DEF Accept, Serve
<1>7. ASSUME NEW l \in Launches, Quit(l) \/ Crash(l) PROVE Alone' /\ OneInstance'
  BY <1>7 DEF Quit, Crash
<1>8. CASE PipeGone \/ UNCHANGED iivars
  BY <1>8 DEF PipeGone, Listening, iivars
<1> QED BY <1>1, <1>2, <1>3, <1>4, <1>5, <1>6, <1>7, <1>8 DEF InstanceNext

(* Two launches once under way at once stay recorded. *)
LEMMA OverlapStays == ii_overlap /\ [InstanceNext]_iivars => ii_overlap'
BY DEF InstanceNext, StartUp, Make, Probe, Rebind, Notify, Acked, Accept, Serve, Quit,
       Crash, PipeGone, iivars

(* A launch takes the name from a live instance only if another launch was *)
(* under way at the same time.                                             *)
THEOREM NameIsHeld == InstanceSpec => []OneInstance
<1>1. InstanceInv /\ [InstanceNext]_iivars => InstanceInv'
  BY PlacedStep, AloneStep, OverlapStays DEF InstanceInv
<1>2. InstanceInv => OneInstance
  BY DEF InstanceInv, OneInstance
<1> QED BY InstanceInitInv, <1>1, <1>2, PTL DEF InstanceSpec
-----------------------------------------------------------------------------
(* The new roots and the staging directories as records. *)
NewRoot == [there : BOOLEAN, holds : Contents]
Staging == [there : BOOLEAN, holds : SUBSET Entries]
Labels == {"off", "check", "clean", "copy", "rewrite", "repair", "start", "created", "running"}

MigrateTyped ==
  /\ pc \in [Procs -> Labels] /\ root \in [Procs -> Roots]
  /\ stale \in [Procs -> SUBSET Procs] /\ todo \in [Procs -> SUBSET Entries]
  /\ dest \in [Roots -> NewRoot] /\ staging \in [Roots -> [Procs -> Staging]]
  /\ imported \in SUBSET Roots /\ reported \in SUBSET Roots
  /\ points \in {"none", "legacy", "new"} /\ overlapped \in BOOLEAN /\ refusals \in Nat

(* Without overlap at most one launch is under way.                        *)
OneLaunch == \A p, q \in Procs : pc[p] # "off" /\ pc[q] # "off" => p = q

(* What a copy lacks is still to do, or was reported; so with what came of *)
(* it.                                                                     *)
NothingLost ==
  /\ \A p \in Procs : At(p, "copy") =>
       Entries \subseteq staging[root[p]][p].holds \union todo[p] \/ root[p] \in reported
  /\ \A r \in imported : Entries \subseteq dest[r].holds \/ r \in reported

(* How far a launch has come, and what earlier ones can have left behind.  *)
Fresh(r) == ~dest[r].there /\ dest[r].holds = {}
Clean(r) == \A p \in Procs : ~staging[r][p].there
Imported(p) ==
  /\ pc[p] \in {"clean", "copy"} => Fresh(root[p])
  /\ At(p, "clean") => \A q \in Procs : staging[root[p]][q].there => q \in stale[p]
  /\ At(p, "copy") => /\ staging[root[p]][p].there
                      /\ \A q \in Procs \ {p} : ~staging[root[p]][q].there
  /\ pc[p] \in {"check", "clean", "copy"} /\ root[p] = "cache" => "config" \in imported
  /\ At(p, "rewrite") => "config" \in imported /\ root[p] = "config"
  /\ pc[p] \in {"repair", "start", "created", "running"} => imported = Roots
  /\ pc[p] \in {"start", "created", "running"} => points # "legacy"
Progress ==
  /\ \A r \in Roots : IF r \in imported THEN dest[r].there /\ Clean(r) ELSE Fresh(r)
  /\ \A p \in Procs : Imported(p)

MigrateInv ==
  /\ MigrateTyped
  /\ ~overlapped => OneLaunch /\ NothingLost
  /\ Undisturbed => Progress

(* Both roots are all of them. *)
LEMMA BothRoots ==
  ASSUME NEW S \in SUBSET Roots, "config" \in S, "cache" \in S
  PROVE  S = Roots
BY DEF Roots

LEMMA MigrateInitInv == MigrateInit => MigrateInv
<1> SUFFICES ASSUME MigrateInit PROVE MigrateInv
  OBVIOUS
<1> USE DEF MigrateInit
<1>1. MigrateTyped
  <2>1. Absent \in NewRoot /\ Absent \in Staging
    BY DEF Absent, NewRoot, Staging, Contents
  <2>2. overlapped \in BOOLEAN
    BY Zenon
  <2> QED BY <2>1, <2>2 DEF MigrateTyped, Labels, Roots
<1>2. OneLaunch /\ NothingLost
  BY DEF OneLaunch, NothingLost, At
<1>3. Progress
  BY DEF Progress, Imported, Fresh, Clean, Absent, At
<1> QED BY <1>1, <1>2, <1>3 DEF MigrateInv

(* Types, action by action. *)
LEMMA MigrateTypedStep ==
  ASSUME MigrateTyped, [MigrateNext]_mivars
  PROVE  MigrateTyped'
<1> USE DEF MigrateTyped, At, Advance, Refused, NextLeg, Labels, Roots, local, history, bounds
<1>s. /\ \A h \in SUBSET Entries : Holding(h) \in Staging
      /\ \A h \in Contents : Holding(h) \in NewRoot
      /\ Absent \in Staging
      /\ \A s \in Staging : [s EXCEPT !.there = TRUE] \in Staging /\ s.holds \in SUBSET Entries
      /\ \A d \in NewRoot : [d EXCEPT !.there = TRUE] \in NewRoot /\ d.holds \in Contents
      /\ Staging \subseteq NewRoot
  BY DEF Holding, Absent, Staging, NewRoot, Contents
<1>p. ASSUME NEW p \in Procs, NEW r \in Roots, NEW s \in Staging
      PROVE  [staging EXCEPT ![r][p] = s] \in [Roots -> [Procs -> Staging]]
  OBVIOUS
<1>1. ASSUME NEW p \in Procs, Launch(p) PROVE MigrateTyped'
  <2>1. overlapped' \in BOOLEAN
    BY <1>1, Zenon DEF Launch
  <2> QED BY <1>1, <2>1 DEF Launch
<1>2. ASSUME NEW p \in Procs, Skip(p) PROVE MigrateTyped'
  BY <1>2 DEF Skip
<1>12. ASSUME NEW p \in Procs, ListStale(p) PROVE MigrateTyped'
  <2>1. {q \in Procs : staging[root[p]][q].there} \in SUBSET Procs
    OBVIOUS
  <2>2. stale' \in [Procs -> SUBSET Procs]
    BY <1>12, <2>1 DEF ListStale
  <2> QED BY <1>12, <2>2 DEF ListStale
<1>3. ASSUME NEW p \in Procs, NEW q \in Procs, RemoveStale(p, q) PROVE MigrateTyped'
  <2>1. staging' \in [Roots -> [Procs -> Staging]]
    BY <1>3, <1>p, <1>s DEF RemoveStale
  <2> QED BY <1>3, <2>1 DEF RemoveStale
<1>4. ASSUME NEW p \in Procs, Stage(p) PROVE MigrateTyped'
  <2>1. [staging EXCEPT ![root[p]][p].there = TRUE] \in [Roots -> [Procs -> Staging]]
    <3>1. staging[root[p]][p] \in Staging
      OBVIOUS
    <3>2. [staging EXCEPT ![root[p]][p] = [staging[root[p]][p] EXCEPT !.there = TRUE]]
            \in [Roots -> [Procs -> Staging]]
      BY <1>p, <1>s, <3>1
    <3> QED BY <3>2
  <2>2. staging' \in [Roots -> [Procs -> Staging]]
    BY <1>4, <2>1 DEF Stage
  <2> QED BY <1>4, <2>2 DEF Stage
<1>5. ASSUME NEW p \in Procs, NEW e \in Entries, Copy(p, e) PROVE MigrateTyped'
  <2>1. Holding(staging[root[p]][p].holds \union {e}) \in Staging
    <3>1. staging[root[p]][p].holds \in SUBSET Entries
      BY <1>s
    <3>2. staging[root[p]][p].holds \union {e} \in SUBSET Entries
      BY <3>1
    <3> QED BY <1>s, <3>2
  <2>2. staging' \in [Roots -> [Procs -> Staging]]
    BY <1>5, <1>p, <2>1 DEF Copy
  <2>3. todo' \in [Procs -> SUBSET Entries]
    BY <1>5 DEF Copy
  <2>5. root[p] \in Roots
    OBVIOUS
  <2>4. reported' \in SUBSET Roots /\ refusals' \in Nat
    <3>1. reported' = reported \/ reported' = reported \union {root[p]}
      BY <1>5, Zenon DEF Copy, Report
    <3>2. refusals' = refusals \/ refusals' = refusals + 1
      BY <1>5, Zenon DEF Copy
    <3>3. reported' \in SUBSET Roots
      BY <2>5, <3>1
    <3>4. refusals' \in Nat
      BY <3>2
    <3> QED BY <3>3, <3>4
  <2> QED BY <1>5, <2>2, <2>3, <2>4 DEF Copy
<1>6. ASSUME NEW p \in Procs, Rename(p) PROVE MigrateTyped'
  <2>1. staging' \in [Roots -> [Procs -> Staging]]
    BY <1>6, <1>p, <1>s DEF Rename
  <2>2. dest' \in [Roots -> NewRoot]
    BY <1>6, <1>s DEF Rename
  <2>3. points' \in {"none", "legacy", "new"} /\ imported' \in SUBSET Roots
    BY <1>6 DEF Rename
  <2> QED BY <1>6, <2>1, <2>2, <2>3 DEF Rename
<1>7. ASSUME NEW p \in Procs, Rewrite(p) \/ Repair(p) PROVE MigrateTyped'
  <2>1. points' \in {"none", "legacy", "new"} /\ refusals' \in Nat
    BY <1>7 DEF Rewrite, Repair, Repoint
  <2>2. pc' \in [Procs -> Labels] /\ root' \in [Procs -> Roots]
    BY <1>7 DEF Rewrite, Repair
  <2>3. UNCHANGED <<local, staging, dest, imported, reported, history>>
    BY <1>7, Zenon DEF Rewrite, Repair
  <2> QED BY <2>1, <2>2, <2>3
<1>8. ASSUME NEW p \in Procs, CreateRoots(p) PROVE MigrateTyped'
  BY <1>8, <1>s DEF CreateRoots
<1>9. ASSUME NEW p \in Procs, WriteOwn(p) PROVE MigrateTyped'
  <2>1. \A r \in Roots : dest[r].holds \union {Own} \in Contents
    BY <1>s DEF Contents
  <2> QED BY <1>9, <1>s, <2>1 DEF WriteOwn
<1>10. ASSUME NEW p \in Procs, End(p) PROVE MigrateTyped'
  BY <1>10 DEF End
<1>11. CASE UNCHANGED mivars
  BY <1>11 DEF mivars
<1> QED BY <1>1, <1>2, <1>3, <1>4, <1>5, <1>6, <1>7, <1>8, <1>9, <1>10, <1>11, <1>12
        DEF MigrateNext, Import

(* A launch alone stays alone, and what it loses it reports. *)
LEMMA LossStep ==
  ASSUME MigrateInv, [MigrateNext]_mivars, ~overlapped'
  PROVE  OneLaunch' /\ NothingLost'
<1> USE DEF At, Advance, Refused, NextLeg, local, history, bounds
<1>o. ~overlapped /\ OneLaunch /\ NothingLost /\ MigrateTyped
  <2>1. overlapped \in BOOLEAN /\ (overlapped => overlapped')
    BY DEF MigrateInv, MigrateTyped, MigrateNext, Launch, Import, Skip, ListStale, RemoveStale,
       Stage, Copy, Rename, Rewrite, Repair, CreateRoots, WriteOwn, End, mivars
  <2> QED BY <2>1 DEF MigrateInv
<1> USE DEF MigrateTyped, OneLaunch, NothingLost
<1>1. ASSUME NEW p \in Procs, Launch(p) PROVE OneLaunch' /\ NothingLost'
  BY <1>1, <1>o DEF Launch
<1>2. ASSUME NEW p \in Procs, Skip(p) PROVE OneLaunch' /\ NothingLost'
  BY <1>2, <1>o DEF Skip
<1>12. ASSUME NEW p \in Procs, ListStale(p) PROVE OneLaunch' /\ NothingLost'
  BY <1>12, <1>o DEF ListStale
<1>3. ASSUME NEW p \in Procs, NEW q \in Procs, RemoveStale(p, q) PROVE OneLaunch' /\ NothingLost'
  BY <1>3, <1>o DEF RemoveStale
<1>4. ASSUME NEW p \in Procs, Stage(p) PROVE OneLaunch' /\ NothingLost'
  BY <1>4, <1>o DEF Stage
<1>5. ASSUME NEW p \in Procs, NEW e \in Entries, Copy(p, e) PROVE OneLaunch' /\ NothingLost'
  BY <1>5, <1>o DEF Copy, Report, Holding
<1>6. ASSUME NEW p \in Procs, Rename(p) PROVE OneLaunch' /\ NothingLost'
  <2>1. /\ OneLaunch' /\ UNCHANGED reported
        /\ \A q \in Procs : pc'[q] # "copy"
    <3>1. /\ At(p, "copy") /\ UNCHANGED reported
          /\ pc' \in {[pc EXCEPT ![p] = "rewrite"], [pc EXCEPT ![p] = "check"],
                      [pc EXCEPT ![p] = "repair"]}
      BY <1>6 DEF Rename
    <3> QED BY <1>o, <3>1
  <2>2. Entries \subseteq staging[root[p]][p].holds \/ root[p] \in reported
    BY <1>6, <1>o DEF Rename
  <2>3. root[p] \in Roots
    BY <1>o
  <2>4. \/ UNCHANGED <<dest, imported>>
        \/ /\ dest' = [dest EXCEPT ![root[p]] = staging[root[p]][p]]
           /\ imported' = imported \union {root[p]}
    BY <1>6 DEF Rename
  <2>5. \A r \in imported' : Entries \subseteq dest'[r].holds \/ r \in reported'
    BY <1>o, <2>1, <2>2, <2>3, <2>4
  <2> QED BY <2>1, <2>5
<1>7. ASSUME NEW p \in Procs, Rewrite(p) \/ Repair(p) PROVE OneLaunch' /\ NothingLost'
  BY <1>7, <1>o DEF Rewrite, Repair
<1>8. ASSUME NEW p \in Procs, CreateRoots(p) PROVE OneLaunch' /\ NothingLost'
  BY <1>8, <1>o DEF CreateRoots
<1>9. ASSUME NEW p \in Procs, WriteOwn(p) PROVE OneLaunch' /\ NothingLost'
  BY <1>9, <1>o DEF WriteOwn, Holding
<1>10. ASSUME NEW p \in Procs, End(p) PROVE OneLaunch' /\ NothingLost'
  BY <1>10, <1>o DEF End
<1>11. CASE UNCHANGED mivars
  BY <1>11, <1>o DEF mivars
<1> QED BY <1>1, <1>2, <1>3, <1>4, <1>5, <1>6, <1>7, <1>8, <1>9, <1>10, <1>11, <1>12
        DEF MigrateNext, Import

(* Where nothing disturbs it, a launch cut off anywhere leaves what the next *)
(* can take up.                                                             *)
LEMMA ProgressStep ==
  ASSUME MigrateInv, [MigrateNext]_mivars, Undisturbed'
  PROVE  Progress'
<1> USE DEF At, Advance, Refused, NextLeg, local, history, bounds
<1>o. Undisturbed /\ OneLaunch /\ Progress /\ MigrateTyped /\ ~overlapped'
      /\ refusals = 0 /\ refusals' = 0
  <2>1. overlapped \in BOOLEAN /\ (overlapped => overlapped')
    BY DEF MigrateInv, MigrateTyped, MigrateNext, Launch, Import, Skip, ListStale, RemoveStale,
       Stage, Copy, Rename, Rewrite, Repair, CreateRoots, WriteOwn, End, mivars
  <2>2. refusals \in Nat /\ (refusals' = refusals \/ refusals' = refusals + 1)
    BY DEF MigrateInv, MigrateTyped, MigrateNext, Launch, Import, Skip, ListStale, RemoveStale,
       Stage, Copy, Rename, Rewrite, Repair, CreateRoots, WriteOwn, End, mivars
  <2> QED BY <2>1, <2>2 DEF MigrateInv, Undisturbed
<1> USE DEF MigrateTyped, OneLaunch, Progress, Imported, Fresh, Clean, Roots, Labels
<1>1. ASSUME NEW p \in Procs, Launch(p) PROVE Progress'
  BY <1>1, <1>o DEF Launch
<1>2. ASSUME NEW p \in Procs, Skip(p) PROVE Progress'
  <2>1. root[p] \in imported /\ root[p] \in Roots
    BY <1>2, <1>o DEF Skip
  <2>2. CASE root[p] = "config"
    BY <1>2, <1>o, <2>1, <2>2 DEF Skip
  <2>3. CASE root[p] = "cache"
    <3>1. imported = Roots
      <4>1. "config" \in imported /\ "cache" \in imported
        BY <1>2, <1>o, <2>1, <2>3 DEF Skip
      <4> QED BY <4>1, <1>o, BothRoots
    <3> QED BY <1>2, <1>o, <2>3, <3>1 DEF Skip
  <2> QED BY <2>1, <2>2, <2>3
<1>12. ASSUME NEW p \in Procs, ListStale(p) PROVE Progress'
  BY <1>12, <1>o DEF ListStale
<1>3. ASSUME NEW p \in Procs, NEW q \in Procs, RemoveStale(p, q) PROVE Progress'
  BY <1>3, <1>o DEF RemoveStale, Absent
<1>4. ASSUME NEW p \in Procs, Stage(p) PROVE Progress'
  <2> DEFINE r == root[p]
  <2>1. r \in Roots /\ At(p, "clean") /\ pc' = [pc EXCEPT ![p] = "copy"]
        /\ staging' = [staging EXCEPT ![r][p].there = TRUE]
        /\ UNCHANGED <<root, stale, dest, imported, points, reported, history>>
    BY <1>4, <1>o DEF Stage
  <2>2. Fresh(r) /\ r \notin imported /\ \A q \in Procs : ~staging[r][q].there
    BY <1>4, <1>o, <2>1 DEF Stage
  <2>3. /\ staging'[r][p].there
        /\ \A q \in Procs \ {p} : ~staging'[r][q].there
        /\ \A k \in Roots \ {r} : staging'[k] = staging[k]
    BY <1>o, <2>1, <2>2
  <2>4. \A q \in Procs \ {p} : pc'[q] = "off"
    BY <1>o, <2>1
  <2> HIDE DEF r
  <2>5. \A k \in Roots : (IF k \in imported THEN dest[k].there /\ Clean(k) ELSE Fresh(k))'
    BY <1>o, <2>1, <2>2, <2>3
  <2>6. Imported(p)'
    BY <1>o, <2>1, <2>2, <2>3 DEF r
  <2>7. \A q \in Procs \ {p} : Imported(q)'
    BY <2>4
  <2> QED BY <2>5, <2>6, <2>7
<1>5. ASSUME NEW p \in Procs, NEW e \in Entries, Copy(p, e) PROVE Progress'
  BY <1>5, <1>o DEF Copy, Report, Holding
<1>6. ASSUME NEW p \in Procs, Rename(p) PROVE Progress'
  <2> DEFINE r == root[p]
  <2>0. r \in Roots /\ At(p, "copy") /\ UNCHANGED stale
    BY <1>6, <1>o DEF Rename
  <2>1. /\ Fresh(r) /\ r \notin imported /\ staging[r][p].there
        /\ \A q \in Procs \ {p} : ~staging[r][q].there
        /\ r = "cache" => "config" \in imported
    BY <1>o, <2>0
  <2>2. /\ CanRename(p) /\ ~dest[root[p]].there
    BY <2>1 DEF CanRename
  <2>3. /\ staging' = [staging EXCEPT ![r][p] = Absent]
        /\ dest' = [dest EXCEPT ![r] = staging[r][p]]
        /\ imported' = imported \union {r}
        /\ IF r = "config" THEN pc' = [pc EXCEPT ![p] = "rewrite"] /\ UNCHANGED root
           ELSE pc' = [pc EXCEPT ![p] = "repair"] /\ UNCHANGED root
    BY <1>6, <1>o, <2>2 DEF Rename
  <2>4. \A q \in Procs \ {p} : pc'[q] = "off"
    BY <1>o, <2>0, <2>3
  <2>8. /\ \A q \in Procs : ~staging'[r][q].there
        /\ \A k \in Roots \ {r} : staging'[k] = staging[k] /\ dest'[k] = dest[k]
        /\ dest'[r].there
    BY <1>o, <2>0, <2>1, <2>3 DEF Absent
  <2>9. r = "config" \/ (r = "cache" /\ imported' = Roots)
    <3>1. r = "cache" => "cache" \in imported' /\ "config" \in imported'
      BY <2>1, <2>3
    <3>2. imported' \in SUBSET Roots
      BY <2>0, <2>3, <1>o
    <3>3. r = "config" \/ r = "cache"
      BY <2>0
    <3> HIDE DEF r
    <3> QED BY <3>1, <3>2, <3>3, BothRoots
  <2> HIDE DEF r
  <2>5. \A k \in Roots : (IF k \in imported THEN dest[k].there /\ Clean(k) ELSE Fresh(k))'
    BY <1>o, <2>0, <2>3, <2>8
  <2>6. Imported(p)'
    BY <1>o, <2>0, <2>3, <2>9 DEF r
  <2>7. \A q \in Procs \ {p} : Imported(q)'
    BY <2>4
  <2> QED BY <2>5, <2>6, <2>7
<1>7. ASSUME NEW p \in Procs, Rewrite(p) \/ Repair(p) PROVE Progress'
  BY <1>7, <1>o DEF Rewrite, Repair, Repoint
<1>8. ASSUME NEW p \in Procs, CreateRoots(p) PROVE Progress'
  <2>1. imported = Roots /\ points # "legacy" /\ \A r \in Roots : Clean(r)
    BY <1>8, <1>o DEF CreateRoots
  <2>2. /\ pc' = [pc EXCEPT ![p] = "created"] /\ \A r \in Roots : dest'[r].there
        /\ UNCHANGED <<root, stale, staging, imported, points>>
    BY <1>8, <1>o DEF CreateRoots, NewRoot
  <2>4. \A q \in Procs \ {p} : pc'[q] = "off"
    BY <1>8, <1>o, <2>2 DEF CreateRoots
  <2> QED BY <1>o, <2>1, <2>2, <2>4
<1>9. ASSUME NEW p \in Procs, WriteOwn(p) PROVE Progress'
  BY <1>9, <1>o DEF WriteOwn, Holding
<1>10. ASSUME NEW p \in Procs, End(p) PROVE Progress'
  BY <1>10, <1>o DEF End
<1>11. CASE UNCHANGED mivars
  BY <1>11, <1>o DEF mivars
<1> QED BY <1>1, <1>2, <1>3, <1>4, <1>5, <1>6, <1>7, <1>8, <1>9, <1>10, <1>11, <1>12
        DEF MigrateNext, Import

LEMMA MigrateInvariance == MigrateSpec => []MigrateInv
<1>1. MigrateInv /\ [MigrateNext]_mivars => MigrateInv'
  <2>1. MigrateInv => MigrateTyped
    BY DEF MigrateInv
  <2> QED BY <2>1, MigrateTypedStep, LossStep, ProgressStep DEF MigrateInv
<1> QED BY MigrateInitInv, <1>1, PTL DEF MigrateSpec

(* migrate.rs:268-269: what an import lacks has been reported, wherever     *)
(* launches were cut off.                                                   *)
THEOREM ImportReportsLoss == MigrateSpec => []LossIsReported
<1>1. MigrateInv => LossIsReported
  BY DEF MigrateInv, NothingLost, LossIsReported
<1> QED BY MigrateInvariance, <1>1, PTL

(* migrate.rs:209-210: the absence of the destination is signal enough.     *)
THEOREM RunsImported == MigrateSpec => []ImportedBeforeRunning
<1>1. MigrateInv => ImportedBeforeRunning
  BY DEF MigrateInv, Progress, Imported, Clean, ImportedBeforeRunning, SomeoneRuns, At
<1> QED BY MigrateInvariance, <1>1, PTL

(* An import never replaces a profile a program has written to, however     *)
(* many launches overlap and whatever is refused.                           *)
THEOREM OwnDataIsKept == MigrateSpec => OwnDataSurvives
<1>1. MigrateInv /\ [MigrateNext]_mivars =>
        [\A r \in Roots : Own \in dest[r].holds => Own \in (dest'[r]).holds]_mivars
  <2> SUFFICES ASSUME MigrateInv, MigrateNext, NEW r \in Roots, Own \in dest[r].holds
               PROVE  Own \in (dest'[r]).holds
    OBVIOUS
  <2>1. dest \in [Roots -> NewRoot]
    BY DEF MigrateInv, MigrateTyped
  <2>2. ASSUME NEW p \in Procs, Rename(p) PROVE Own \in (dest'[r]).holds
    BY <2>1, <2>2 DEF Rename, CanRename
  <2>3. ASSUME NEW p \in Procs, CreateRoots(p) \/ WriteOwn(p) PROVE Own \in (dest'[r]).holds
    BY <2>1, <2>3 DEF CreateRoots, WriteOwn, Holding, NewRoot
  <2>4. (\E p \in Procs : Rename(p) \/ CreateRoots(p) \/ WriteOwn(p)) \/ UNCHANGED dest
    BY DEF MigrateNext, Launch, Import, Skip, ListStale, RemoveStale, Stage, Copy, Rewrite,
       Repair, End
  <2> QED BY <2>2, <2>3, <2>4
<1> QED BY MigrateInvariance, <1>1, PTL DEF MigrateSpec, OwnDataSurvives
=============================================================================
