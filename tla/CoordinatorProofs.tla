------------------------- MODULE CoordinatorProofs -------------------------
(***************************************************************************)
(* For any producers, inputs and bound on the channel: the sinks are shown *)
(* what the worker has published, nothing is left behind by a stop, the    *)
(* state machine is as safe behind the worker as alone, and between        *)
(* batches every built-in sink agrees with the player.                     *)
(*                                                                         *)
(* The last is the one with an argument: while a batch is consumed the     *)
(* sinks lag behind, and what has to be invariant is what they would show  *)
(* if the batch ended here.  For the page that is the state of the last    *)
(* event it hears of, with the variant flag of the moment, although later  *)
(* inputs of the batch may change that flag and with it the event.  The OS *)
(* media session, whose consumer lags by a queue more, goes the same way.  *)
(***************************************************************************)
EXTENDS PlaybackSinks, MediaSession, PlaybackStateMachineProofs, WellFoundedInduction

(* Once stopped, the sender is gone; a worker between two batches holds     *)
(* nothing, and it exits only behind the last input.                       *)
Stopping ==
  /\ slot <=> shutdown = "no"
  /\ tx_open <=> shutdown \in {"no", "taken"}
  /\ worker = "exited" => ~tx_open /\ queue = <<>>
  /\ shutdown = "done" => worker = "exited"

BetweenBatches ==
  worker \in {"recv", "exited"} => batch = 0 /\ events = <<>> /\ actions = <<>>

CInv == /\ IInv /\ CTypeOK /\ Len(queue) + batch <= MaxBacklog
        /\ Stopping /\ BetweenBatches /\ SinksSeePublished

(* The order of the dispatch and what the last stage is, spelled out. *)
LEMMA StageOrder ==
  /\ Dispatching = {"media", "idle", "browser", "theme", "apply"}
  /\ Last(Stages) = "apply" /\ Head(Stages) = "media"
  /\ \A stage \in Dispatching : stage # "apply" =>
       Stages[(CHOOSE n \in DOMAIN Stages : Stages[n] = stage) + 1] =
         CASE stage = "media"   -> "idle"
           [] stage = "idle"    -> "browser"
           [] stage = "browser" -> "theme"
           [] stage = "theme"   -> "apply"
<1> DEFINE S == {"media", "idle", "browser", "theme", "apply"}
<1>1. /\ DOMAIN Stages = 1..5 /\ Len(Stages) = 5
      /\ Stages[1] = "media" /\ Stages[2] = "idle" /\ Stages[3] = "browser"
      /\ Stages[4] = "theme" /\ Stages[5] = "apply" /\ Head(Stages) = "media"
  BY DEF Stages
<1>2. Dispatching = S
  BY <1>1 DEF Dispatching
<1>3. Last(Stages) = "apply"
  BY <1>1 DEF Last
<1>4. ASSUME NEW stage \in S, stage # "apply"
      PROVE  Stages[(CHOOSE n \in DOMAIN Stages : Stages[n] = stage) + 1] =
               CASE stage = "media"   -> "idle"
                 [] stage = "idle"    -> "browser"
                 [] stage = "browser" -> "theme"
                 [] stage = "theme"   -> "apply"
  <2>1. \E n \in DOMAIN Stages : Stages[n] = stage
    BY <1>1
  <2> DEFINE m == CHOOSE n \in DOMAIN Stages : Stages[n] = stage
  <2>2. m \in DOMAIN Stages /\ Stages[m] = stage
    BY <2>1
  <2> HIDE DEF m
  <2>3. m = CASE stage = "media"   -> 1
              [] stage = "idle"    -> 2
              [] stage = "browser" -> 3
              [] stage = "theme"   -> 4
    BY <1>1, <1>4, <2>2
  <2>4. Stages[m + 1] = CASE stage = "media"   -> "idle"
                          [] stage = "idle"    -> "browser"
                          [] stage = "browser" -> "theme"
                          [] stage = "theme"   -> "apply"
    BY <1>1, <1>4, <2>3
  <2> QED BY <2>4 DEF m
<1> QED BY <1>1, <1>2, <1>3, <1>4

(* What the end of a stage does to the worker. *)
LEMMA StageEnds ==
  ASSUME NEW stage \in Dispatching, Advance(stage)
  PROVE  \/ /\ stage = "apply"
            /\ worker' = "recv" /\ batch' = 0 /\ events' = <<>> /\ actions' = <<>>
         \/ /\ stage # "apply"
            /\ worker' \in Dispatching /\ UNCHANGED <<batch, events, actions>>
<1>1. CASE stage = "apply"
  <2>1. stage = Last(Stages)
    BY <1>1, StageOrder
  <2> QED BY <1>1, <2>1 DEF Advance
<1>2. CASE stage # "apply"
  <2>1. stage # Last(Stages)
    BY <1>2, StageOrder
  <2>2. /\ worker' = Stages[(CHOOSE n \in DOMAIN Stages : Stages[n] = stage) + 1]
        /\ UNCHANGED <<batch, events, actions>>
    BY Zenon, <2>1 DEF Advance
  <2>3. worker' = CASE stage = "media"   -> "idle"
                    [] stage = "idle"    -> "browser"
                    [] stage = "browser" -> "theme"
                    [] stage = "theme"   -> "apply"
    BY Zenon, <1>2, <2>2, StageOrder
  <2>4. stage \in {"media", "idle", "browser", "theme"}
        /\ Dispatching = {"media", "idle", "browser", "theme", "apply"}
    BY Zenon, <1>2, StageOrder
  <2>5. worker' \in Dispatching
    <3> HIDE DEF Dispatching
    <3> QED BY SMT, <2>3, <2>4
  <2> QED BY <1>2, <2>2, <2>5
<1> QED BY <1>1, <1>2

(* The worker starts between two batches, with the sender in its slot. *)
LEMMA CInitInv == CInit => CInv
<1> SUFFICES ASSUME CInit PROVE CInv
  OBVIOUS
<1>1. IInv /\ TypeOK
  BY InitIInv DEF CInit, IInv
<1>2. CTypeOK
  <2>1. /\ queue \in Seq(Inputs) /\ events \in Seq([kind : BatchKinds, flag : BOOLEAN])
        /\ actions \in Seq({ApplyTracks}) /\ batch \in 0 .. MaxBacklog
        /\ hand \in [Producers -> Inputs \union {None}]
    BY MaxBacklogAssumption DEF CInit
  <2>2. slot \in BOOLEAN /\ tx_open \in BOOLEAN
    BY Zenon DEF CInit
  <2> QED BY <1>1, <2>1, <2>2 DEF CInit, CTypeOK
<1>3. Len(queue) + batch <= MaxBacklog
  BY MaxBacklogAssumption DEF CInit
<1> QED BY <1>1, <1>2, <1>3 DEF CInit, CInv, Stopping, BetweenBatches, SinksSeePublished

(* An input is one of the state machine's steps. *)
LEMMA ApplyIsNext ==
  ASSUME NEW i \in Inputs, Apply(i)
  PROVE  [Next]_vars \/ Ignored
<1> USE InputsAssumption DEF ValidInput, Apply, Untracked
<1>1. CASE i.op = "FileLoaded"
  BY <1>1 DEF Next
<1>2. CASE i.op = "LoadStarting"
  BY <1>2 DEF Next
<1>3. CASE i.op = "EndFile"
  BY <1>3 DEF Next
<1>4. CASE i.op = "PauseChanged"
  BY <1>4 DEF Next
<1>5. CASE i.op = "SeekingChanged"
  BY <1>5 DEF Next
<1>6. CASE i.op = "PausedForCache"
  BY <1>6 DEF Next
<1>7. CASE i.op = "CoreIdle"
  BY <1>7 DEF Next
<1>8. CASE i.op \in {"Position", "Seeked"}
  BY <1>8 DEF Next
<1>9. CASE i.op \in {"MediaType", "Metadata"}
  BY <1>9 DEF Next
<1>10. CASE i.op = "VideoFrameAvailable"
  BY <1>10 DEF Next
<1>11. CASE i.op = "Scalar"
  BY <1>11 DEF Next
<1>12. CASE i.op = "Fullscreen"
  BY <1>12 DEF Next
<1>13. CASE i.op \in {"Artwork", "QueueCaps"}
  BY <1>13
<1> QED BY <1>1, <1>2, <1>3, <1>4, <1>5, <1>6, <1>7, <1>8, <1>9, <1>10, <1>11, <1>12, <1>13

(* An input that changes nothing keeps the machine's invariant. *)
LEMMA IgnoredKeeps == ASSUME IInv, Ignored PROVE IInv'
<1>1. UNCHANGED <<transport, gates, window, seeking, buffering, position_us,
                  scalar, pending_actions, end_eaten>> /\ emitted' \in Seq(Event)
  BY DEF Ignored
<1> QED BY <1>1 DEF IInv, TypeOK, transport, gates, window, StoppedIsClean,
     IntentMatchesPhase, PromotionNotMissed, BufferingIsExact, VariantOfRememberedItem,
     IsActivePhase

(* Every step of the coordinator is a step of the state machine, a drain of *)
(* its actions or no step of it, and keeps the machine's invariant.         *)
LEMMA MachineStep == ASSUME CInv, [CNext]_allvars PROVE IInv'
<1> USE DEF CInv
<1>1. CASE TakeInput
  <2>1. Head(queue) \in Inputs
    BY <1>1 DEF TakeInput, CTypeOK
  <2>2. [Next]_vars \/ Ignored
    BY <1>1, <2>1, ApplyIsNext DEF TakeInput
  <2> QED BY <2>2, IgnoredKeeps, TypeStep, SafetyStep DEF IInv, Safety
<1>2. CASE TakeActions
  <2>1. /\ UNCHANGED <<transport, gates, window, seeking, buffering, position_us,
                       scalar, end_eaten>>
        /\ emitted' \in Seq(Event) /\ pending_actions' \in Seq({ApplyTracks})
        /\ Len(pending_actions') <= MaxActions
    BY <1>2, MaxActionsAssumption DEF TakeActions
  <2> QED BY <2>1 DEF IInv, TypeOK, transport, gates, window, StoppedIsClean,
       IntentMatchesPhase, PromotionNotMissed, BufferingIsExact,
       VariantOfRememberedItem, IsActivePhase
<1>3. CASE UNCHANGED vars
  BY <1>3 DEF vars, IInv, TypeOK, transport, gates, window, StoppedIsClean,
       IntentMatchesPhase, PromotionNotMissed, BufferingIsExact,
       VariantOfRememberedItem, IsActivePhase
<1> QED BY <1>1, <1>2, <1>3
     DEF CNext, Post, PostClone, PostSend, WorkerStep, BatchComplete, Publish, WorkerExit,
         Shutdown, ShutdownTake, StopSender, StopJoin, Finished, Advance, allvars

(* Facts about sequences that the provers are given one by one. *)
LEMMA SomeSequences ==
  /\ \A S : <<>> \in Seq(S)
  /\ \A S : \A a \in S : <<a>> \in Seq(S)
  /\ \A S : \A s, t \in Seq(S) : s \o t \in Seq(S)
  /\ \A S : \A s \in Seq(S), a \in S : Append(s, a) \in Seq(S) /\ Len(Append(s, a)) = Len(s) + 1
  /\ \A S : \A s \in Seq(S) : s # <<>> =>
       Head(s) \in S /\ Tail(s) \in Seq(S) /\ Len(Tail(s)) = Len(s) - 1
  /\ \A S : \A s \in Seq(S) : Len(s) \in Nat
OBVIOUS

LEMMA SeqSubset ==
  ASSUME NEW S, NEW T, S \subseteq T, NEW s \in Seq(S)
  PROVE  s \in Seq(T)
<1>1. Len(s) \in Nat /\ s = [n \in 1..Len(s) |-> s[n]] /\ \A n \in 1..Len(s) : s[n] \in T
  OBVIOUS
<1> QED BY <1>1

(* Types and the room in the channel, action by action. *)
LEMMA CTypeStep ==
  ASSUME CInv, [CNext]_allvars
  PROVE  CTypeOK' /\ (Len(queue) + batch <= MaxBacklog)'
<1> DEFINE Rest ==
      /\ slot' \in BOOLEAN /\ tx_open' \in BOOLEAN
      /\ queue' \in Seq(Inputs)
      /\ hand' \in [Producers -> Inputs \union {None}]
      /\ worker' \in Dispatching \union
           {"recv", "drain", "consume", "publish", "exited"}
      /\ batch' \in Nat
      /\ events' \in Seq([kind : BatchKinds, flag : BOOLEAN])
      /\ actions' \in Seq({ApplyTracks})
      /\ shutdown' \in {"no", "taken", "joining", "done"}
      /\ Len(queue') + batch' <= MaxBacklog
<1>1. SUFFICES Rest
  <2>1. TypeOK'
    BY MachineStep DEF IInv
  <2>2. Len(queue') \in Nat
    BY <1>1
  <2>3. batch' \in 0 .. MaxBacklog
    BY <1>1, <2>2, MaxBacklogAssumption
  <2> QED BY <1>1, <2>1, <2>3 DEF CTypeOK
<1>2. /\ Len(queue) \in Nat /\ batch \in Nat /\ TypeOK /\ Len(queue) + batch <= MaxBacklog
      /\ slot \in BOOLEAN /\ tx_open \in BOOLEAN
      /\ queue \in Seq(Inputs)
      /\ hand \in [Producers -> Inputs \union {None}]
      /\ worker \in Dispatching \union {"recv", "drain", "consume", "publish", "exited"}
      /\ events \in Seq([kind : BatchKinds, flag : BOOLEAN])
      /\ actions \in Seq({ApplyTracks})
      /\ shutdown \in {"no", "taken", "joining", "done"}
  BY DEF CInv, CTypeOK
<1>u. UNCHANGED cvars => Rest
  BY <1>2 DEF cvars, channel, iteration
<1>3. ASSUME NEW p \in Producers, NEW i \in Inputs, PostClone(p, i) PROVE Rest
  BY <1>2, <1>3 DEF PostClone, iteration
<1>4. ASSUME NEW p \in Producers, PostSend(p) PROVE Rest
  <2>1. hand[p] \in Inputs /\ Len(queue) + batch + 1 <= MaxBacklog
    BY <1>2, <1>4, MaxBacklogAssumption DEF PostSend, Room
  <2>2. queue' \in Seq(Inputs) /\ Len(queue') + batch <= MaxBacklog
    <3>1. CASE tx_open
      BY <1>2, <1>4, <2>1, <3>1, SomeSequences, MaxBacklogAssumption DEF PostSend, Enqueue
    <3>2. CASE ~tx_open
      BY <1>2, <1>4, <3>2 DEF PostSend, Enqueue
    <3> QED BY <3>1, <3>2
  <2>3. hand' \in [Producers -> Inputs \union {None}]
    BY <1>2, <1>4 DEF PostSend
  <2> QED BY <1>2, <1>4, <2>2, <2>3 DEF PostSend, iteration
<1>5. CASE TakeInput
  <2>1. Head(queue) \in Inputs /\ queue' \in Seq(Inputs) /\ Len(queue') + batch' <= MaxBacklog
    BY <1>2, <1>5, SomeSequences, MaxBacklogAssumption DEF TakeInput
  <2>2. events' \in Seq([kind : BatchKinds, flag : BOOLEAN])
    <3> DEFINE E == [kind : BatchKinds, flag : BOOLEAN]
    <3>1. emitted' \in Seq(E)
      <4>1. emitted' \in Seq(Event)
        BY MachineStep DEF IInv, TypeOK
      <4>2. Event \subseteq E
        BY DEF Event, BatchKinds
      <4> HIDE DEF E
      <4> QED BY <4>1, <4>2, SeqSubset
    <3>2. Trailer(Head(queue)) \in Seq(E)
      <4>1. \A k \in {"MetadataChanged", "Seeked", "ArtworkChanged", "QueueCapsChanged"} :
              Ev(k) \in E
        BY DEF Ev, BatchKinds
      <4> HIDE DEF E
      <4> QED BY <4>1, SomeSequences, Zenon DEF Trailer
    <3>3. events' = events \o emitted' \o Trailer(Head(queue))
      BY <1>5, Zenon DEF TakeInput
    <3> HIDE DEF E
    <3>4. \A s, t \in Seq(E) : s \o t \in Seq(E)
      BY SomeSequences
    <3> QED BY <1>2, <3>1, <3>2, <3>3, <3>4 DEF E
  <2> QED BY <1>2, <1>5, <2>1, <2>2 DEF TakeInput
<1>6. CASE TakeActions
  <2>1. actions' \in Seq({ApplyTracks})
    BY <1>2, <1>6 DEF TakeActions, TypeOK
  <2> QED BY <1>2, <1>6, <2>1 DEF TakeActions, channel
<1>7. CASE BatchComplete \/ Publish
  BY <1>2, <1>7, StageOrder DEF BatchComplete, Publish, channel
<1>8. CASE WorkerExit
  BY <1>2, <1>8 DEF WorkerExit, channel
<1>9. CASE Shutdown
  BY <1>2, <1>9 DEF Shutdown, ShutdownTake, StopSender, StopJoin, iteration
<1>10. CASE Finished
  BY <1>10, <1>u DEF Finished, allvars
<1>11. ASSUME NEW stage \in Dispatching, Advance(stage) PROVE Rest
  <2>1. CASE stage = "apply"
    <3>1. worker' = "recv" /\ batch' = 0 /\ events' = <<>> /\ actions' = <<>>
      BY <1>11, <2>1, StageEnds
    <3>2. events' \in Seq([kind : BatchKinds, flag : BOOLEAN]) /\ actions' \in Seq({ApplyTracks})
      BY <3>1, SomeSequences
    <3>3. UNCHANGED channel
      BY <1>11 DEF Advance
    <3> QED BY <1>2, <3>1, <3>2, <3>3, MaxBacklogAssumption DEF channel
  <2>2. CASE stage # "apply"
    <3>1. worker' \in Dispatching /\ UNCHANGED <<batch, events, actions>>
      BY <1>11, <2>2, StageEnds
    <3> QED BY <1>2, <1>11, <3>1 DEF Advance, channel
  <2> QED BY <2>1, <2>2
<1> QED BY <1>3, <1>4, <1>5, <1>6, <1>7, <1>8, <1>9, <1>10, <1>11, <1>u
        DEF CNext, Post, WorkerStep, allvars

(* Who has the sender, what a worker between batches holds, and what the    *)
(* sinks have been shown, action by action.                                 *)
LEMMA StopStep ==
  ASSUME CInv, [CNext]_allvars
  PROVE  (Stopping /\ BetweenBatches /\ SinksSeePublished)'
<1> USE DEF CInv, Stopping, BetweenBatches, SinksSeePublished
<1>s. vars' = vars => Snapshot' = Snapshot
  BY DEF vars, transport, gates, window, Snapshot
<1>d. Dispatching \cap {"recv", "drain", "consume", "publish", "exited"} = {}
  BY StageOrder
<1> DEFINE Goal == (Stopping /\ BetweenBatches /\ SinksSeePublished)'
<1>3. ASSUME NEW p \in Producers, NEW i \in Inputs, PostClone(p, i) PROVE Goal
  BY <1>3, <1>s DEF PostClone, iteration
<1>4. ASSUME NEW p \in Producers, PostSend(p) PROVE Goal
  BY <1>4, <1>s DEF PostSend, Enqueue, iteration
<1>5. CASE TakeInput
  BY <1>5, <1>d DEF TakeInput
<1>6. CASE TakeActions
  BY <1>6, <1>d DEF TakeActions, channel
<1>7. CASE BatchComplete
  BY <1>7, <1>d DEF BatchComplete, channel
<1>8. CASE Publish
  BY <1>8, <1>d, <1>s, StageOrder DEF Publish, channel
<1>9. CASE WorkerExit
  BY <1>9, <1>d, <1>s DEF WorkerExit, channel
<1>10. CASE Shutdown
  BY <1>10, <1>s DEF Shutdown, ShutdownTake, StopSender, StopJoin, iteration
<1>11. CASE UNCHANGED allvars
  BY <1>11, <1>s DEF allvars, cvars, channel, iteration
<1>12. ASSUME NEW stage \in Dispatching, Advance(stage) PROVE Goal
  <2>1. CASE stage = "apply"
    <3>1. worker' = "recv" /\ batch' = 0 /\ events' = <<>> /\ actions' = <<>>
      BY <1>12, <2>1, StageEnds
    <3> QED BY <1>12, <1>d, <1>s, <3>1 DEF Advance, channel
  <2>2. CASE stage # "apply"
    <3>1. worker' \in Dispatching /\ UNCHANGED <<batch, events, actions>>
      BY <1>12, <2>2, StageEnds
    <3> QED BY <1>12, <1>d, <1>s, <3>1 DEF Advance, channel
  <2> QED BY <2>1, <2>2
<1> QED BY <1>3, <1>4, <1>5, <1>6, <1>7, <1>8, <1>9, <1>10, <1>11, <1>12
        DEF CNext, Post, WorkerStep, Finished

LEMMA CInvariance == CSpec => []CInv
<1>1. CInv /\ [CNext]_allvars => CInv'
  BY MachineStep, CTypeStep, StopStep DEF CInv
<1> QED BY CInitInv, <1>1, PTL DEF CSpec

(* coordinator.rs publishes the snapshot before it dispatches: a sink that  *)
(* asks for it during the dispatch sees the state its events are about.     *)
THEOREM PublishedFirst == CSpec => []SinksSeePublished
BY CInvariance, PTL DEF CInv

(* After stop() has returned the worker is gone, and with it every input    *)
(* and event it held.                                                       *)
THEOREM NothingLeftBehind == CSpec => []StopDrains
<1>1. CInv => StopDrains
  BY DEF CInv, StopDrains, Stopping, BetweenBatches, SinksSeePublished
<1> QED BY CInvariance, <1>1, PTL

(* What holds of the state machine holds of it behind the worker's channel: *)
(* its safety does not depend on which inputs come or how they are batched. *)
THEOREM MachineUnderWorker == CSpec => []Safety
<1>1. CInv => Safety
  BY DEF CInv, IInv, Safety
<1> QED BY CInvariance, <1>1, PTL

(* Type correctness of the coordinator, channel bound included. *)
THEOREM CoordinatorTyped == CSpec => []CTypeOK
<1>1. CInv => CTypeOK
  BY DEF CInv
<1> QED BY CInvariance, <1>1, PTL
-----------------------------------------------------------------------------
(* A set of numbers has a least one: the only induction over data the       *)
(* proofs use, from the well-foundedness of < on Nat.                       *)
LEMMA LeastNat == ASSUME NEW S \in SUBSET Nat, S # {}
  PROVE \E m \in S : \A k \in S : m <= k
<1> DEFINE R == OpToRel(<, Nat)
<1>1. \A x, y \in Nat : x < y => <<x, y>> \in R
  BY DEF OpToRel
<1>2. IsWellFoundedOn(R, Nat)
  BY NatLessThanWellFounded, Zenon
<1> HIDE DEF R
<1>3. \E m \in S : \A k \in S : ~(<<k, m>> \in R)
  BY <1>2, WFMin, Zenon
<1>4. PICK m \in S : \A k \in S : ~(<<k, m>> \in R)
  BY <1>3
<1>5. \A k \in S : k \in Nat /\ m \in Nat /\ ~(k < m)
  BY <1>1, <1>4
<1> QED BY <1>5

(* So some event of a batch is the last of its kind. *)
LEMMA LastOne == ASSUME NEW n \in Nat, NEW S \in SUBSET (1..n), S # {}
  PROVE \E m \in S : \A k \in S : k <= m
<1> DEFINE T == {n - k : k \in S}
<1>0. \A k \in S : n - k \in Nat
  OBVIOUS
<1>1. T \in SUBSET Nat /\ T # {}
  BY <1>0
<1>2. PICK t \in T : \A u \in T : t <= u
  <2> HIDE DEF T
  <2> QED BY <1>1, LeastNat
<1>3. PICK m \in S : t = n - m
  BY <1>2
<1>4. \A k \in S : n - m <= n - k /\ m \in 1..n /\ k \in 1..n
  BY <1>2, <1>3
<1> QED BY <1>4
-----------------------------------------------------------------------------
(* The events the page hears of in any case. *)
Transporting == {"Started", "Paused", "Finished", "Canceled", "Error"}

(* What the page would show if the batch were complete.                    *)
PageWillShow(state) ==
  \/ NothingHeard(variant_switch_pending) /\ state = page
  \/ \E n \in DOMAIN events :
       IsLastHeard(n, variant_switch_pending) /\ state = StateOf(events[n])

Fits(state) ==
  /\ state \in PageFor(phase)
  /\ variant_switch_pending => state = "paused"

(* What the page shows, or would show once the batch were dispatched, fits. *)
PageFollows ==
  IF worker \in {"theme", "apply"} THEN Fits(page)
  ELSE \E state \in PageStates : PageWillShow(state) /\ Fits(state)

LevelFollows ==
  worker \in {"browser", "theme", "apply"} \/ Kinds(events) \cap IdleKinds = {} =>
    (phase # "Starting" => idle_level = LevelFor(Snapshot))

MaximizedFollows ==
  worker \in {"theme", "apply"} \/ "FullscreenChanged" \notin Kinds(events) =>
    was_maximized = maximized_before_fullscreen

SInv == CInv /\ page \in PageStates /\ PageFollows /\ LevelFollows /\ MaximizedFollows

(* A handler's events say what it did to the state the sinks follow.       *)
LastIs(kind) ==
  /\ Len(emitted') \in Nat \ {0}
  /\ emitted'[Len(emitted')].kind = kind

TellsPage ==
  \/ /\ Kinds(emitted') \cap (Transporting \union {"TrackLoaded"}) = {}
     /\ phase' \in {phase, "Starting"} /\ variant_switch_pending' = variant_switch_pending
     /\ end_eaten' \/ UNCHANGED <<phase, end_eaten>>
  \/ emitted' = <<Ev("TrackLoaded")>> /\ phase' = "Starting"
  \/ LastIs("Started") /\ phase' = "Playing" /\ ~variant_switch_pending'
  \/ LastIs("Paused") /\ phase' = "Paused"
  \/ /\ LastIs("Finished") \/ LastIs("Canceled") \/ LastIs("Error")
     /\ phase' = "Stopped" /\ ~variant_switch_pending'

TellsLevel ==
  \/ Kinds(emitted') \cap IdleKinds # {}
  \/ phase' = "Starting"
  \/ phase' = phase /\ media_type' = media_type

TellsMaximized ==
  "FullscreenChanged" \in Kinds(emitted') \/ UNCHANGED maximized_before_fullscreen

TellsSinks == TellsPage /\ TellsLevel /\ TellsMaximized

(* One of the handlers, however it comes to be called. *)
Handled ==
  \/ Ignored \/ OnFileLoaded \/ (\E id : OnLoadStarting(id))
  \/ \E reason \in EndReasons : OnEndFile(reason)
  \/ \E paused \in BOOLEAN : OnPauseChanged(paused)
  \/ \E on \in BOOLEAN : OnSeekingChanged(on)
  \/ \E pfc \in BOOLEAN : OnPausedForCache(pfc)
  \/ \E idle \in BOOLEAN : OnCoreIdle(idle)
  \/ \E p \in Positions : OnPosition(p)
  \/ \E ty \in MediaTypes : OnMediaType(ty)
  \/ \E av \in BOOLEAN : OnVideoFrameAvailable(av)
  \/ \E f, v : OnScalar(f, v)
  \/ \E on, wm : OnFullscreen(on, wm)

USE DEF EventKinds, TransportKinds

(* Kinds over the ways batches are built. *)
LEMMA KindsOfOne == Kinds(<<>>) = {} /\ \A e : Kinds(<<e>>) = {e.kind}
<1>1. DOMAIN <<>> = {} /\ \A e : DOMAIN <<e>> = {1} /\ <<e>>[1] = e
  OBVIOUS
<1> QED BY <1>1 DEF Kinds

LEMMA KindsOfBoth ==
  ASSUME NEW S, NEW s \in Seq(S), NEW t \in Seq(S)
  PROVE  Kinds(s \o t) = Kinds(s) \union Kinds(t)
<1>1. /\ Len(s \o t) = Len(s) + Len(t)
      /\ \A n \in 1..Len(s) : (s \o t)[n] = s[n]
      /\ \A n \in 1..Len(t) : (s \o t)[Len(s) + n] = t[n]
      /\ Len(s) \in Nat /\ Len(t) \in Nat
      /\ DOMAIN s = 1..Len(s) /\ DOMAIN t = 1..Len(t)
      /\ DOMAIN (s \o t) = 1..Len(s \o t)
  OBVIOUS
<1> DEFINE r == s \o t
<1>2. ASSUME NEW n \in DOMAIN r
      PROVE  \/ n \in DOMAIN s /\ r[n] = s[n]
             \/ (n - Len(s)) \in DOMAIN t /\ r[n] = t[n - Len(s)]
  <2>1. CASE n \in 1..Len(s)
    BY <1>1, <2>1
  <2>2. CASE n \notin 1..Len(s)
    <3>1. n - Len(s) \in 1..Len(t) /\ Len(s) + (n - Len(s)) = n
      BY <1>1, <2>2
    <3> QED BY <1>1, <3>1
  <2> QED BY <2>1, <2>2
<1>3. \A n \in DOMAIN s : n \in DOMAIN r /\ r[n] = s[n]
  BY <1>1
<1>4. \A n \in DOMAIN t : (Len(s) + n) \in DOMAIN r /\ r[Len(s) + n] = t[n]
  BY <1>1
<1> HIDE DEF r
<1>5. Kinds(r) \subseteq Kinds(s) \union Kinds(t)
  BY <1>2 DEF Kinds
<1>6. Kinds(s) \subseteq Kinds(r)
  BY <1>3 DEF Kinds
<1>7. Kinds(t) \subseteq Kinds(r)
  BY <1>4 DEF Kinds
<1> QED BY <1>5, <1>6, <1>7 DEF r

LEMMA KindsOfAppend ==
  ASSUME NEW s \in Seq(Event), NEW e \in Event
  PROVE  /\ Kinds(Append(s, e)) = Kinds(s) \union {e.kind}
         /\ Len(Append(s, e)) \in Nat \ {0}
         /\ Append(s, e)[Len(Append(s, e))] = e
<1>1. /\ Len(Append(s, e)) = Len(s) + 1 /\ Len(s) \in Nat
      /\ Append(s, e)[Len(s) + 1] = e
      /\ \A n \in 1..Len(s) : Append(s, e)[n] = s[n]
      /\ DOMAIN s = 1..Len(s) /\ DOMAIN Append(s, e) = 1..Len(s) + 1
  OBVIOUS
<1> DEFINE r == Append(s, e)
<1>2. \A n \in DOMAIN r : n = Len(s) + 1 \/ (n \in DOMAIN s /\ r[n] = s[n])
  BY <1>1
<1>3. \A n \in DOMAIN s : n \in DOMAIN r /\ r[n] = s[n]
  BY <1>1
<1>4. Len(s) + 1 \in DOMAIN r /\ r[Len(s) + 1] = e
  BY <1>1
<1>5. Kinds(r) = Kinds(s) \union {e.kind}
  <2> HIDE DEF r
  <2> QED BY <1>2, <1>3, <1>4 DEF Kinds
<1> QED BY <1>1, <1>5

(* The end of a file clears the indicators, and nothing else, before it is *)
(* announced.                                                              *)
LEMMA ClearedKinds ==
  ASSUME TypeOK
  PROVE  Kinds(IndicatorsCleared) \subseteq {"SeekingChanged", "BufferingChanged"}
<1> DEFINE s == Flagged("SeekingChanged", FALSE)
           b == Flagged("BufferingChanged", FALSE)
           left == IF seeking THEN <<s>> ELSE <<>>
           right == IF buffering THEN <<b>> ELSE <<>>
<1>1. s \in Event /\ b \in Event /\ s.kind = "SeekingChanged" /\ b.kind = "BufferingChanged"
  BY EventTyping DEF Flagged
<1>2. IndicatorsCleared = left \o right
  BY DEF IndicatorsCleared
<1> HIDE DEF s, b
<1>3. left \in Seq(Event) /\ right \in Seq(Event)
  BY <1>1
<1>4. Kinds(left) \subseteq {"SeekingChanged"} /\ Kinds(right) \subseteq {"BufferingChanged"}
  BY <1>1, KindsOfOne
<1> HIDE DEF left, right
<1> QED BY <1>2, <1>3, <1>4, KindsOfBoth

(* The handlers announce whatever the sinks depend on. *)
LEMMA HandledTells ==
  ASSUME IInv, Handled
  PROVE  TellsSinks
<1> USE DEF transport, gates, window, IdleKinds
<1>t. /\ TypeOK /\ phase \in Phases /\ variant_switch_pending \in BOOLEAN
      /\ (presence = "None" <=> phase = "Stopped")
  BY DEF IInv, TypeOK, StoppedIsClean
<1>e. \A k \in EventKinds, f \in BOOLEAN :
        /\ Ev(k) \in Event /\ Flagged(k, f) \in Event
        /\ Ev(k).kind = k /\ Flagged(k, f).kind = k
        /\ <<Ev(k)>> \in Seq(Event) /\ <<Flagged(k, f)>> \in Seq(Event)
        /\ Kinds(<<Ev(k)>>) = {k} /\ Kinds(<<Flagged(k, f)>>) = {k}
  <2>1. \A k \in EventKinds, f \in BOOLEAN :
        /\ Ev(k) \in Event /\ Flagged(k, f) \in Event
        /\ Ev(k).kind = k /\ Flagged(k, f).kind = k
    BY EventTyping DEF Ev, Flagged
  <2>2. \A e \in Event : <<e>> \in Seq(Event) /\ Kinds(<<e>>) = {e.kind}
    BY KindsOfOne
  <2> QED BY <2>1, <2>2
<1>k. \A k \in EventKinds : Ev(k).kind = k /\ Kinds(<<Ev(k)>>) = {k}
  BY <1>e
<1>n. Kinds(<<>>) = {} /\ <<>> \in Seq(Event)
  BY KindsOfOne
<1>p. ASSUME NEW out \in Seq(Event), TransitionToPlaying(out)
      PROVE  /\ LastIs("Started") /\ phase' = "Playing" /\ ~variant_switch_pending'
             /\ Kinds(emitted') = Kinds(out) \union {"Started"}
  <2>1. Ev("Started") \in Event /\ Ev("Started").kind = "Started"
    BY <1>e
  <2> QED BY <1>p, <2>1, KindsOfAppend DEF TransitionToPlaying, LastIs
<1>s. ASSUME NEW out \in Seq(Event), StayInPhase(out)
      PROVE  /\ emitted' = out
             /\ UNCHANGED <<phase, variant_switch_pending>>
  BY <1>s DEF StayInPhase
<1> USE DEF TellsSinks, TellsPage, TellsLevel, TellsMaximized, Transporting
<1>0. CASE Ignored
  BY <1>0, <1>n DEF Ignored
<1>1. CASE OnFileLoaded
  BY <1>1 DEF OnFileLoaded
<1>2. ASSUME NEW id, OnLoadStarting(id) PROVE TellsSinks
  BY <1>2 DEF OnLoadStarting
<1>3. ASSUME NEW reason \in EndReasons, OnEndFile(reason) PROVE TellsSinks
  <2>1. CASE EatEndFile(reason)
    BY <1>3, <2>1, <1>t, ClearedKinds DEF OnEndFile, EatEndFile
  <2>2. CASE Terminate(reason)
    <3>1. TerminalEvent(reason) \in Event /\ TerminalEvent(reason).kind \in TerminalKinds
      BY EventTyping DEF TerminalEvent, EndReasons, Ev, TerminalKinds
    <3>2. IndicatorsCleared \in Seq(Event)
      BY <1>t, ClearedIndicators
    <3>3. /\ LastIs(TerminalEvent(reason).kind)
          /\ TerminalEvent(reason).kind \in Kinds(emitted')
      BY <2>2, <3>1, <3>2, KindsOfAppend DEF Terminate, LastIs
    <3>4. phase' = "Stopped" /\ ~variant_switch_pending' /\ UNCHANGED window
      BY <1>3, <2>2 DEF OnEndFile, Terminate
    <3> QED BY <3>1, <3>3, <3>4 DEF TerminalKinds
  <2> QED BY <1>3, <2>1, <2>2 DEF OnEndFile
<1>4. ASSUME NEW paused \in BOOLEAN, OnPauseChanged(paused) PROVE TellsSinks
  <2>1. CASE emitted' = <<Ev("Paused")>> /\ phase' = "Paused" /\ UNCHANGED window
    <3>1. LastIs("Paused") /\ Kinds(emitted') = {"Paused"}
      <4>1. \A e : Len(<<e>>) = 1 /\ <<e>>[1] = e
        OBVIOUS
      <4>2. Ev("Paused").kind = "Paused" /\ Kinds(<<Ev("Paused")>>) = {"Paused"}
        BY <1>k
      <4>3. Len(emitted') = 1 /\ emitted'[1] = Ev("Paused")
        BY <2>1, <4>1
      <4> QED BY <2>1, <4>2, <4>3 DEF LastIs
    <3> QED BY <2>1, <3>1
  <2>2. CASE TransitionToPlaying(<<>>) /\ UNCHANGED window
    BY <2>2, <1>p, <1>n
  <2>3. CASE StayInPhase(<<>>) /\ UNCHANGED <<gates, window, end_eaten>>
    BY <2>3, <1>s, <1>n
  <2> QED BY <1>4, <1>0, <2>1, <2>2, <2>3 DEF OnPauseChanged, PauseWhileActive
<1>5. ASSUME NEW on \in BOOLEAN, OnSeekingChanged(on) PROVE TellsSinks
  BY <1>5, <1>0, <1>e DEF OnSeekingChanged
<1>6. ASSUME NEW c \in BOOLEAN, ApplyBufferingChange(c), UNCHANGED <<media_type, window, end_eaten>>
      PROVE  TellsSinks
  <2>1. <<Flagged("BufferingChanged", c)>> \in Seq(Event)
        /\ Kinds(<<Flagged("BufferingChanged", c)>>) = {"BufferingChanged"}
    BY <1>e
  <2>2. CASE TransitionToPlaying(<<Flagged("BufferingChanged", c)>>)
    BY <2>1, <2>2, <1>6, <1>p
  <2>3. CASE StayInPhase(<<Flagged("BufferingChanged", c)>>)
    BY <2>1, <2>3, <1>6, <1>s
  <2>4. CASE StayInPhase(<<>>)
    BY <2>4, <1>6, <1>s, <1>n
  <2> QED BY <1>6, <2>2, <2>3, <2>4 DEF ApplyBufferingChange
<1>7. ASSUME NEW pfc \in BOOLEAN, OnPausedForCache(pfc) PROVE TellsSinks
  <2>1. (pfc \/ core_idle) \in BOOLEAN
    OBVIOUS
  <2> QED BY <1>7, <2>1, <1>6, <1>0 DEF OnPausedForCache
<1>8. ASSUME NEW idle \in BOOLEAN, OnCoreIdle(idle) PROVE TellsSinks
  <2>1. (paused_for_cache \/ idle) \in BOOLEAN
    OBVIOUS
  <2> QED BY <1>8, <2>1, <1>6, <1>0 DEF OnCoreIdle
<1>9. ASSUME NEW p \in Positions, OnPosition(p) PROVE TellsSinks
  <2>1. CASE ~(position_us = p /\ ~seeking)
    <3> DEFINE out == IF seeking THEN <<Flagged("SeekingChanged", FALSE)>> ELSE <<>>
               told == <<Ev("PositionChanged")>>
    <3>1. /\ out \in Seq(Event) /\ told \in Seq(Event)
          /\ Kinds(out) \subseteq {"SeekingChanged"} /\ Kinds(told) = {"PositionChanged"}
      BY <1>e, <1>n
    <3>2. emitted' = out \o told /\ UNCHANGED <<transport, gates, window, end_eaten>>
      BY <1>9, <2>1 DEF OnPosition
    <3> HIDE DEF out, told
    <3>3. Kinds(emitted') \subseteq {"SeekingChanged", "PositionChanged"}
      BY <3>1, <3>2, KindsOfBoth
    <3> QED BY <3>2, <3>3
  <2> QED BY <1>9, <2>1, <1>0 DEF OnPosition
<1>10. ASSUME NEW ty \in MediaTypes, OnMediaType(ty) PROVE TellsSinks
  <2>1. <<Ev("MediaTypeChanged")>> \in Seq(Event)
        /\ Kinds(<<Ev("MediaTypeChanged")>>) = {"MediaTypeChanged"}
    BY <1>e
  <2>2. CASE TransitionToPlaying(<<Ev("MediaTypeChanged")>>) /\ UNCHANGED window
    BY <2>1, <2>2, <1>p
  <2>3. CASE StayInPhase(<<Ev("MediaTypeChanged")>>) /\ UNCHANGED <<window, end_eaten>>
    BY <2>1, <2>3, <1>s
  <2> QED BY <1>10, <1>0, <2>2, <2>3 DEF OnMediaType
<1>11. ASSUME NEW av \in BOOLEAN, OnVideoFrameAvailable(av) PROVE TellsSinks
  <2>1. CASE TransitionToPlaying(<<>>) /\ UNCHANGED <<media_type, window>>
    BY <2>1, <1>p, <1>n
  <2>2. CASE StayInPhase(<<>>) /\ UNCHANGED <<media_type, window, end_eaten>>
    BY <2>2, <1>s, <1>n
  <2> QED BY <1>11, <1>0, <2>1, <2>2 DEF OnVideoFrameAvailable
<1>12. ASSUME NEW f, NEW v, OnScalar(f, v) PROVE TellsSinks
  <2>1. Kinds(<<Ev("ScalarChanged")>>) = {"ScalarChanged"}
    BY <1>k
  <2> QED BY <1>12, <1>0, <2>1 DEF OnScalar
<1>13. ASSUME NEW on, NEW wm, OnFullscreen(on, wm) PROVE TellsSinks
  <2>1. Kinds(<<Ev("FullscreenChanged")>>) = {"FullscreenChanged"}
    BY <1>k
  <2> QED BY <1>13, <1>0, <2>1 DEF OnFullscreen
<1> QED
  BY <1>0, <1>1, <1>2, <1>3, <1>4, <1>5, <1>7, <1>8, <1>9, <1>10, <1>11, <1>12, <1>13 DEF Handled

LEMMA HandlersTell ==
  ASSUME IInv, NEW i \in Inputs, Apply(i)
  PROVE  TellsSinks
<1>1. Handled
  BY InputsAssumption DEF Apply, ValidInput, Handled
<1> QED BY <1>1, HandledTells

(* A batch after an input: the events before it, the handler's, the         *)
(* trailer's, each at its place.                                            *)
LEMMA Joined ==
  ASSUME NEW S, NEW s \in Seq(S), NEW t \in Seq(S)
  PROVE  /\ s \o t \in Seq(S) /\ Len(s \o t) = Len(s) + Len(t)
         /\ DOMAIN (s \o t) = 1..Len(s \o t)
         /\ \A n \in DOMAIN s : (s \o t)[n] = s[n]
         /\ \A n \in DOMAIN t : (s \o t)[Len(s) + n] = t[n]
OBVIOUS

LEMMA Batched ==
  ASSUME NEW S, NEW s \in Seq(S), NEW e \in Seq(S), NEW t \in Seq(S),
         NEW r, r = s \o e \o t
  PROVE  /\ r \in Seq(S) /\ Len(s) \in Nat /\ Len(e) \in Nat /\ Len(t) \in Nat
         /\ DOMAIN s = 1..Len(s) /\ DOMAIN e = 1..Len(e) /\ DOMAIN t = 1..Len(t)
         /\ DOMAIN r = 1..(Len(s) + Len(e) + Len(t))
         /\ \A n \in DOMAIN s : r[n] = s[n]
         /\ \A n \in DOMAIN e : r[Len(s) + n] = e[n]
         /\ \A n \in DOMAIN t : r[Len(s) + Len(e) + n] = t[n]
         /\ \A n \in DOMAIN r : n \notin DOMAIN s =>
              \/ n - Len(s) \in DOMAIN e /\ r[n] = e[n - Len(s)]
              \/ n - Len(s) - Len(e) \in DOMAIN t /\ r[n] = t[n - Len(s) - Len(e)]
<1>1. /\ Len(s) \in Nat /\ Len(e) \in Nat /\ Len(t) \in Nat
      /\ DOMAIN s = 1..Len(s) /\ DOMAIN e = 1..Len(e) /\ DOMAIN t = 1..Len(t)
  OBVIOUS
<1> DEFINE q == s \o e
<1>2. /\ q \in Seq(S) /\ Len(q) = Len(s) + Len(e) /\ DOMAIN q = 1..Len(q)
      /\ \A n \in DOMAIN s : q[n] = s[n]
      /\ \A n \in DOMAIN e : q[Len(s) + n] = e[n]
  OBVIOUS
<1>3. r = q \o t
  OBVIOUS
<1> HIDE DEF q
<1>4. /\ r \in Seq(S) /\ Len(r) = Len(q) + Len(t) /\ DOMAIN r = 1..Len(r)
      /\ \A n \in DOMAIN q : r[n] = q[n]
      /\ \A n \in DOMAIN t : r[Len(q) + n] = t[n]
  <2>1. q \in Seq(S)
    BY <1>2
  <2>2. /\ q \o t \in Seq(S) /\ Len(q \o t) = Len(q) + Len(t)
        /\ DOMAIN (q \o t) = 1..Len(q \o t)
        /\ \A n \in DOMAIN q : (q \o t)[n] = q[n]
        /\ \A n \in DOMAIN t : (q \o t)[Len(q) + n] = t[n]
    BY <2>1, Joined
  <2> QED BY <2>2, <1>3, Zenon
<1>5. /\ \A n \in DOMAIN s : n \in DOMAIN q /\ r[n] = s[n]
      /\ \A n \in DOMAIN e : Len(s) + n \in DOMAIN q /\ r[Len(s) + n] = e[n]
  BY <1>1, <1>2, <1>4
<1>6. ASSUME NEW n \in DOMAIN r, n \notin DOMAIN s
      PROVE  \/ n - Len(s) \in DOMAIN e /\ r[n] = e[n - Len(s)]
             \/ n - Len(s) - Len(e) \in DOMAIN t /\ r[n] = t[n - Len(s) - Len(e)]
  <2>1. CASE n \in DOMAIN q
    <3>1. n - Len(s) \in DOMAIN e /\ Len(s) + (n - Len(s)) = n
      BY <1>1, <1>2, <1>6, <2>1
    <3> QED BY <1>5, <3>1
  <2>2. CASE n \notin DOMAIN q
    <3>1. /\ n - Len(s) - Len(e) \in DOMAIN t
          /\ Len(q) + (n - Len(s) - Len(e)) = n
      BY <1>1, <1>2, <1>4, <1>6, <2>2
    <3> QED BY <1>4, <3>1
  <2> QED BY <2>1, <2>2
<1> QED BY <1>1, <1>2, <1>4, <1>5, <1>6

BatchEvent == [kind : BatchKinds, flag : BOOLEAN]
TrailerKinds == {"MetadataChanged", "Seeked", "ArtworkChanged", "QueueCapsChanged"}

(* The trailer announces nothing the sinks here listen to. *)
LEMMA TrailerTyped ==
  ASSUME NEW i
  PROVE  Trailer(i) \in Seq(BatchEvent) /\ Kinds(Trailer(i)) \subseteq TrailerKinds
<1>1. \A k \in TrailerKinds : Ev(k) \in BatchEvent /\ Ev(k).kind \in TrailerKinds
  BY DEF Ev, BatchKinds, TrailerKinds, BatchEvent
<1>2. \A e \in BatchEvent : <<e>> \in Seq(BatchEvent)
  BY SomeSequences
<1>3. <<>> \in Seq(BatchEvent)
  BY SomeSequences
<1>4. ASSUME NEW k \in TrailerKinds, Trailer(i) = <<Ev(k)>>
      PROVE  Trailer(i) \in Seq(BatchEvent) /\ Kinds(Trailer(i)) \subseteq TrailerKinds
  BY <1>1, <1>2, <1>4, KindsOfOne
<1>5. \/ Trailer(i) = <<>>
      \/ \E k \in TrailerKinds : Trailer(i) = <<Ev(k)>>
  BY DEF Trailer, TrailerKinds
<1> QED BY <1>3, <1>4, <1>5, KindsOfOne

(* What an input adds to the batch. *)
LEMMA BatchGrows ==
  ASSUME CInv, [CNext]_allvars, TakeInput
  PROVE  /\ events \in Seq(BatchEvent) /\ emitted' \in Seq(BatchEvent)
         /\ Trailer(Head(queue)) \in Seq(BatchEvent)
         /\ Kinds(Trailer(Head(queue))) \subseteq TrailerKinds
         /\ events' = events \o emitted' \o Trailer(Head(queue))
         /\ events' \in Seq(BatchEvent)
         /\ TellsSinks
<1>1. emitted' \in Seq(Event)
  BY MachineStep DEF IInv, TypeOK
<1>2. Event \subseteq BatchEvent
  BY DEF Event, BatchKinds, BatchEvent
<1>3. emitted' \in Seq(BatchEvent)
  BY <1>1, <1>2, SeqSubset
<1>4. Head(queue) \in Inputs /\ Apply(Head(queue))
  BY DEF TakeInput, CInv, CTypeOK
<1>5. TellsSinks
  BY <1>4, HandlersTell DEF CInv
<1>6. events' = events \o emitted' \o Trailer(Head(queue))
  BY Zenon DEF TakeInput
<1>7. events \in Seq(BatchEvent) /\ events' \in Seq(BatchEvent)
  BY CTypeStep DEF CInv, CTypeOK, BatchEvent
<1> QED BY <1>3, <1>5, <1>6, <1>7, TrailerTyped

LEMMA GrownKinds ==
  ASSUME CInv, [CNext]_allvars, TakeInput
  PROVE  Kinds(events') = Kinds(events) \union Kinds(emitted') \union Kinds(Trailer(Head(queue)))
<1> DEFINE t == Trailer(Head(queue))
<1>1. /\ events \in Seq(BatchEvent) /\ emitted' \in Seq(BatchEvent) /\ t \in Seq(BatchEvent)
      /\ events' = events \o emitted' \o t
  BY BatchGrows
<1> HIDE DEF t
<1>2. events \o emitted' \in Seq(BatchEvent)
  BY <1>1, SomeSequences
<1>3. Kinds(events \o emitted') = Kinds(events) \union Kinds(emitted')
  BY <1>1, KindsOfBoth
<1>4. Kinds((events \o emitted') \o t) = Kinds(events \o emitted') \union Kinds(t)
  BY <1>1, <1>2, KindsOfBoth
<1> QED BY <1>1, <1>3, <1>4, Zenon DEF t

(* The page's coming state follows the phase as the batch grows. *)
LEMMA PageGrows ==
  ASSUME SInv, [CNext]_allvars, TakeInput, UNCHANGED sinks
  PROVE  PageFollows'
<1> DEFINE i == Head(queue)
           t == Trailer(i)
<1>1. /\ events \in Seq(BatchEvent) /\ emitted' \in Seq(BatchEvent) /\ t \in Seq(BatchEvent)
      /\ Kinds(t) \subseteq TrailerKinds /\ events' = events \o emitted' \o t
      /\ events' \in Seq(BatchEvent) /\ TellsPage
  BY BatchGrows DEF SInv, TellsSinks
<1> HIDE DEF t
<1>2. /\ Len(events) \in Nat /\ Len(emitted') \in Nat /\ Len(t) \in Nat
      /\ DOMAIN events = 1..Len(events) /\ DOMAIN emitted' = 1..Len(emitted')
      /\ DOMAIN t = 1..Len(t)
      /\ DOMAIN events' = 1..(Len(events) + Len(emitted') + Len(t))
      /\ \A n \in DOMAIN events : events'[n] = events[n]
      /\ \A n \in DOMAIN emitted' : events'[Len(events) + n] = emitted'[n]
      /\ \A n \in DOMAIN events' : n \notin DOMAIN events =>
           \/ n - Len(events) \in DOMAIN emitted' /\ events'[n] = emitted'[n - Len(events)]
           \/ n - Len(events) - Len(emitted') \in DOMAIN t
              /\ events'[n] = t[n - Len(events) - Len(emitted')]
  BY <1>1, Batched
<1>t. \A n \in DOMAIN t : t[n].kind \in TrailerKinds
  BY <1>1 DEF Kinds
<1>w. worker \notin {"theme", "apply"} /\ worker' = "consume"
  BY DEF TakeInput
<1>g. PICK state \in PageStates : PageWillShow(state) /\ Fits(state)
  BY <1>w DEF SInv, PageFollows
<1> SUFFICES \E new \in PageStates : (PageWillShow(new) /\ Fits(new))'
  BY <1>w DEF PageFollows
<1>3. CASE /\ Kinds(emitted') \cap (Transporting \union {"TrackLoaded"}) = {}
           /\ phase' \in {phase, "Starting"}
           /\ variant_switch_pending' = variant_switch_pending
  <2>1. \A n \in DOMAIN emitted' : emitted'[n].kind \notin Transporting \union {"TrackLoaded"}
    BY <1>3 DEF Kinds
  <2>2. \A n \in DOMAIN events' : \A v : Heard(events'[n], v) => n \in DOMAIN events
    BY <1>2, <1>t, <2>1 DEF Heard, Transporting, TrailerKinds
  <2>3. \A n \in DOMAIN events : n \in DOMAIN events' /\ events'[n] = events[n]
    BY <1>2
  <2>4. PageWillShow(state)'
    BY <1>3, <1>g, <2>2, <2>3 DEF PageWillShow, NothingHeard, IsLastHeard, sinks
  <2>5. Fits(state)'
    BY <1>3, <1>g DEF Fits, PageFor
  <2> QED BY <2>4, <2>5
<1>4. CASE emitted' = <<Ev("TrackLoaded")>> /\ phase' = "Starting"
  <2>1. Len(emitted') = 1 /\ emitted'[1].kind = "TrackLoaded"
    <3>1. \A e : Len(<<e>>) = 1 /\ <<e>>[1] = e
      OBVIOUS
    <3>2. Ev("TrackLoaded").kind = "TrackLoaded"
      BY DEF Ev
    <3> QED BY <1>4, <3>1, <3>2
  <2>2. CASE variant_switch_pending'
    <3> PICK n : n = Len(events) + 1
      OBVIOUS
    <3>1. n \in DOMAIN events' /\ events'[n].kind = "TrackLoaded"
      BY <1>2, <2>1
    <3>2. \A m \in DOMAIN events' : Heard(events'[m], TRUE) => m <= n
      BY <1>2, <1>t, <2>1 DEF Heard, TrailerKinds
    <3>3. IsLastHeard(n, variant_switch_pending)'
      BY <2>2, <3>1, <3>2 DEF IsLastHeard, Heard
    <3>4. StateOf(events'[n]) = "paused"
      BY <3>1 DEF StateOf
    <3>5. PageWillShow("paused")'
      BY <3>1, <3>3, <3>4 DEF PageWillShow
    <3>6. Fits("paused")'
      BY <1>4 DEF Fits, PageFor, PageStates
    <3> QED BY <3>5, <3>6 DEF PageStates
  <2>3. CASE ~variant_switch_pending'
    <3> DEFINE heard == {n \in DOMAIN events' : Heard(events'[n], FALSE)}
    <3>1. CASE heard = {}
      <4>1. NothingHeard(variant_switch_pending)'
        BY <2>3, <3>1 DEF NothingHeard, Heard
      <4>2. PageWillShow(page)' /\ page' \in PageStates
        BY <4>1 DEF PageWillShow, SInv, sinks
      <4>3. Fits(page)'
        BY <1>4, <2>3, <4>2 DEF Fits, PageFor
      <4> QED BY <4>2, <4>3
    <3>2. CASE heard # {}
      <4>1. heard \in SUBSET (1..(Len(events) + Len(emitted') + Len(t)))
        BY <1>2
      <4>2. Len(events) + Len(emitted') + Len(t) \in Nat
        BY <1>2
      <4>3. \E n \in heard : \A m \in heard : m <= n
        <5> HIDE DEF heard
        <5> QED BY <3>2, <4>1, <4>2, LastOne
      <4>4. PICK n \in heard : \A m \in heard : m <= n
        BY <4>3
      <4>5. IsLastHeard(n, variant_switch_pending)'
        BY <2>3, <4>4 DEF IsLastHeard, Heard
      <4>6. PICK new \in PageStates : new = StateOf(events'[n])
        BY <4>4 DEF Heard, StateOf, PageStates
      <4>7. PageWillShow(new)'
        BY <4>4, <4>5, <4>6 DEF PageWillShow
      <4>8. Fits(new)'
        BY <1>4, <2>3, <4>6 DEF Fits, PageFor
      <4> QED BY <4>6, <4>7, <4>8
    <3> QED BY <3>1, <3>2
  <2> QED BY <2>2, <2>3
<1>5. ASSUME NEW kind \in Transporting, LastIs(kind),
             \/ kind = "Started" /\ phase' = "Playing" /\ ~variant_switch_pending'
             \/ kind = "Paused" /\ phase' = "Paused"
             \/ /\ kind \in {"Finished", "Canceled", "Error"}
                /\ phase' = "Stopped" /\ ~variant_switch_pending'
      PROVE  \E new \in PageStates : (PageWillShow(new) /\ Fits(new))'
  <2> PICK n : n = Len(events) + Len(emitted')
    OBVIOUS
  <2>1. n \in DOMAIN events' /\ events'[n].kind = kind
    BY <1>2, <1>5 DEF LastIs
  <2>8. ASSUME NEW m \in DOMAIN events', ~(m <= n)
        PROVE  events'[m].kind \in TrailerKinds
    BY <1>2, <1>t, <2>8
  <2>2. \A m \in DOMAIN events' : \A v : Heard(events'[m], v) => m <= n
    BY <2>8 DEF Heard, TrailerKinds
  <2>3. IsLastHeard(n, variant_switch_pending)'
    BY <1>5, <2>1, <2>2 DEF IsLastHeard, Heard, Transporting
  <2>5. PICK new : new = StateOf(events'[n])
    OBVIOUS
  <2>4. PageWillShow(new)'
    BY <2>1, <2>3, <2>5 DEF PageWillShow
  <2>6. new = CASE kind = "Started" -> "playing"
                [] kind = "Paused" -> "paused"
                [] kind = "Finished" -> "finished"
                [] kind = "Canceled" -> "canceled"
                [] kind = "Error" -> "error"
    BY <2>1, <2>5 DEF StateOf, Transporting
  <2>7. new \in PageStates /\ Fits(new)'
    BY <1>5, <2>6 DEF PageStates, Fits, PageFor
  <2> QED BY <2>4, <2>7
<1> QED BY <1>1, <1>3, <1>4, <1>5 DEF TellsPage, Transporting

(* So do the inhibition level and the maximized flag. *)
LEMMA LevelGrows ==
  ASSUME SInv, [CNext]_allvars, TakeInput, UNCHANGED sinks
  PROVE  LevelFollows' /\ MaximizedFollows'
<1>1. Kinds(emitted') \subseteq Kinds(events') /\ Kinds(events) \subseteq Kinds(events')
  BY GrownKinds DEF SInv
<1>2. TellsLevel /\ TellsMaximized
  BY BatchGrows DEF SInv, TellsSinks
<1>3. worker \notin {"browser", "theme", "apply"} /\ worker' = "consume"
  BY DEF TakeInput
<1>4. LevelFollows'
  <2> SUFFICES ASSUME Kinds(events') \cap IdleKinds = {}, phase' # "Starting"
               PROVE  idle_level' = LevelFor(Snapshot)'
    BY <1>3 DEF LevelFollows
  <2>1. phase' = phase /\ media_type' = media_type
    BY <1>1, <1>2 DEF TellsLevel
  <2>2. Kinds(events) \cap IdleKinds = {}
    BY <1>1
  <2>3. LevelFor(Snapshot)' = LevelFor(Snapshot)
    BY <2>1 DEF LevelFor, Snapshot
  <2> QED BY <2>1, <2>2, <2>3 DEF SInv, LevelFollows, sinks
<1>5. MaximizedFollows'
  BY <1>1, <1>2, <1>3 DEF SInv, MaximizedFollows, TellsMaximized, sinks
<1> QED BY <1>4, <1>5

(* The worker's stages in their order.                                     *)
LEMMA StageSteps ==
  ASSUME NEW stage \in Dispatching, Advance(stage)
  PROVE  /\ worker = stage /\ vars' = vars /\ published' = published
         /\ worker' = CASE stage = "media"   -> "idle"
                        [] stage = "idle"    -> "browser"
                        [] stage = "browser" -> "theme"
                        [] stage = "theme"   -> "apply"
                        [] stage = "apply"   -> "recv"
         /\ IF stage = "apply" THEN events' = <<>> ELSE events' = events
<1>1. CASE stage = "apply"
  BY <1>1, StageOrder DEF Advance
<1>2. CASE stage # "apply"
  <2>1. Last(Stages) # stage
    BY <1>2, StageOrder
  <2>2. /\ worker' = Stages[(CHOOSE n \in DOMAIN Stages : Stages[n] = stage) + 1]
        /\ events' = events
    BY <2>1, Zenon DEF Advance
  <2>3. Stages[(CHOOSE n \in DOMAIN Stages : Stages[n] = stage) + 1]
          = CASE stage = "media"   -> "idle"
              [] stage = "idle"    -> "browser"
              [] stage = "browser" -> "theme"
              [] stage = "theme"   -> "apply"
              [] stage = "apply"   -> "recv"
    <3>1. stage \in {"media", "idle", "browser", "theme"}
      BY <1>2, StageOrder
    <3>2. CASE stage = "media"
      BY <3>2, StageOrder
    <3>3. CASE stage = "idle"
      BY <3>3, StageOrder
    <3>4. CASE stage = "browser"
      BY <3>4, StageOrder
    <3>5. CASE stage = "theme"
      BY <3>5, StageOrder
    <3> QED BY <3>1, <3>2, <3>3, <3>4, <3>5
  <2>4. worker = stage /\ vars' = vars /\ published' = published
    BY DEF Advance
  <2> QED BY <1>2, <2>2, <2>3, <2>4
<1> QED BY <1>1, <1>2

(* Steps that leave the state, the batch and the sinks alone keep what the *)
(* sinks show and what they are about to show.                             *)
LEMMA FitsKept ==
  ASSUME NEW state, UNCHANGED <<phase, variant_switch_pending>>
  PROVE  Fits(state)' <=> Fits(state)
<1>1. state \in PageFor(phase') <=> state \in PageFor(phase)
  OBVIOUS
<1> QED BY <1>1 DEF Fits

LEMMA WillShowKept ==
  ASSUME NEW state, UNCHANGED <<page, events, variant_switch_pending>>
  PROVE  PageWillShow(state)' <=> PageWillShow(state)
<1>1. NothingHeard(variant_switch_pending)' <=> NothingHeard(variant_switch_pending)
  BY DEF NothingHeard
<1>2. \A n : IsLastHeard(n, variant_switch_pending)' <=> IsLastHeard(n, variant_switch_pending)
  BY DEF IsLastHeard
<1>3. \A n : StateOf(events'[n]) = StateOf(events[n])
  OBVIOUS
<1> QED BY <1>1, <1>2, <1>3 DEF PageWillShow

LEMMA ShownPageKept ==
  ASSUME SInv, UNCHANGED <<phase, variant_switch_pending, page>>,
         worker \in {"theme", "apply"}
  PROVE  Fits(page)'
<1>1. Fits(page)
  BY DEF SInv, PageFollows
<1>2. PICK st : st = page
  OBVIOUS
<1>3. Fits(st)'
  BY <1>1, <1>2, FitsKept
<1> QED BY <1>2, <1>3 DEF Fits

LEMMA ComingPageKept ==
  ASSUME SInv, UNCHANGED <<phase, variant_switch_pending, events, page>>,
         worker \notin {"theme", "apply"}, worker' \notin {"theme", "apply"}
  PROVE  PageFollows'
<1>1. PICK state \in PageStates : PageWillShow(state) /\ Fits(state)
  BY DEF SInv, PageFollows
<1>2. PageWillShow(state)' /\ Fits(state)'
  BY <1>1, FitsKept, WillShowKept
<1> QED BY <1>2 DEF PageFollows

LEMMA PageKept ==
  ASSUME SInv, UNCHANGED <<phase, variant_switch_pending, events, page>>,
         worker \in {"theme", "apply"} <=> worker' \in {"theme", "apply"}
  PROVE  PageFollows'
<1>1. CASE worker \in {"theme", "apply"}
  BY <1>1, ShownPageKept DEF PageFollows
<1>2. CASE worker \notin {"theme", "apply"}
  BY <1>2, ComingPageKept
<1> QED BY <1>1, <1>2

LEMMA LevelForKept ==
  ASSUME UNCHANGED <<phase, media_type>>
  PROVE  LevelFor(Snapshot)' = LevelFor(Snapshot)
BY DEF LevelFor, Snapshot

LEMMA SinksKeep ==
  ASSUME SInv, UNCHANGED <<phase, variant_switch_pending, media_type,
                           maximized_before_fullscreen, events, sinks>>,
         worker = worker' \/ {worker, worker'} \cap {"browser", "theme", "apply"} = {}
  PROVE  (PageFollows /\ LevelFollows /\ MaximizedFollows /\ page \in PageStates)'
<1>1. PageFollows'
  BY PageKept DEF sinks
<1>2. LevelFollows'
  BY LevelForKept DEF SInv, LevelFollows, sinks
<1>3. MaximizedFollows' /\ page' \in PageStates
  BY DEF SInv, MaximizedFollows, sinks
<1> QED BY <1>1, <1>2, <1>3

(* The composition only refines when the dispatch reaches which sink. *)
LEMMA CoordinatorSteps == SNext => CNext
BY DEF SNext, CNext, IdleInhibit, Browser, OtherStage, Dispatching, Stages

(* The sinks' invariant, action by action. *)
LEMMA SinksStep ==
  ASSUME SInv, [SNext]_svars
  PROVE  (PageFollows /\ LevelFollows /\ MaximizedFollows /\ page \in PageStates)'
<1> DEFINE Goal == (PageFollows /\ LevelFollows /\ MaximizedFollows /\ page \in PageStates)'
<1>c. CInv /\ [CNext]_allvars
  BY CoordinatorSteps DEF SInv, svars
<1>p. worker \in Dispatching => published = Snapshot
  BY <1>c DEF CInv, SinksSeePublished
<1>k. page \in PageStates
  BY DEF SInv
<1>v. vars' = vars => UNCHANGED <<phase, variant_switch_pending, media_type,
                                  maximized_before_fullscreen>> /\ Snapshot' = Snapshot
  BY DEF vars, transport, gates, window, Snapshot
<1>1. CASE TakeInput /\ UNCHANGED sinks
  BY <1>1, <1>c, PageGrows, LevelGrows DEF SInv, sinks
<1>2. CASE TakeActions /\ UNCHANGED sinks
  BY <1>2, SinksKeep DEF TakeActions, transport, gates, window
<1>3. CASE BatchComplete /\ UNCHANGED sinks
  BY <1>3, <1>v, SinksKeep DEF BatchComplete
<1>4. CASE Publish /\ UNCHANGED sinks
  BY <1>4, <1>v, SinksKeep, StageOrder DEF Publish
<1>5. CASE WorkerExit /\ UNCHANGED sinks
  BY <1>5, <1>v, SinksKeep DEF WorkerExit
<1>6. ASSUME UNCHANGED <<vars, iteration, sinks>> PROVE Goal
  <2>1. worker' = worker /\ events' = events
    BY <1>6 DEF iteration
  <2> QED BY <1>6, <1>v, <2>1, SinksKeep
<1>7. CASE Post /\ UNCHANGED sinks
  BY <1>7, <1>6 DEF Post, PostClone, PostSend
<1>8. CASE Shutdown /\ UNCHANGED sinks
  BY <1>8, <1>6 DEF Shutdown, ShutdownTake, StopSender, StopJoin
<1>9. CASE (Finished /\ UNCHANGED sinks) \/ UNCHANGED svars
  BY <1>9, <1>6 DEF Finished, svars, allvars, cvars
<1>10. CASE IdleInhibit
  <2>1. /\ worker = "idle" /\ worker' = "browser" /\ vars' = vars /\ events' = events
        /\ published = Snapshot /\ UNCHANGED <<page, was_maximized>>
    BY <1>10, <1>p, StageOrder, StageSteps DEF IdleInhibit
  <2>2. LevelFor(Snapshot)' = LevelFor(Snapshot)
    BY <1>v, <2>1 DEF LevelFor
  <2>3. LevelFollows'
    BY <1>10, <1>v, <2>1, <2>2 DEF IdleInhibit, LevelFollows, SInv
  <2>4. PageFollows'
    BY <1>v, <2>1, PageKept
  <2>5. MaximizedFollows'
    BY <1>v, <2>1 DEF SInv, MaximizedFollows
  <2> QED BY <1>k, <2>1, <2>3, <2>4, <2>5
<1>11. CASE Browser
  <2>1. /\ worker = "browser" /\ worker' = "theme" /\ vars' = vars /\ events' = events
        /\ published = Snapshot /\ UNCHANGED idle_level
    BY <1>11, <1>p, StageOrder, StageSteps DEF Browser
  <2>2. LevelFollows'
    BY <1>v, <2>1 DEF LevelFollows, SInv, LevelFor
  <2>3. /\ published.variant = variant_switch_pending
        /\ published.maximized = maximized_before_fullscreen
    BY <2>1 DEF Snapshot
  <2>4. MaximizedFollows'
    BY <1>11, <1>v, <2>1, <2>3 DEF Browser, MaximizedFollows, SInv
  <2>5. PICK state \in PageStates : PageWillShow(state) /\ Fits(state)
    BY <2>1 DEF SInv, PageFollows
  <2>6. page' = state
    <3>1. CASE NothingHeard(variant_switch_pending)
      BY <1>11, <2>3, <2>5, <3>1 DEF Browser, PageWillShow, NothingHeard, IsLastHeard
    <3>2. CASE ~NothingHeard(variant_switch_pending)
      <4>1. PICK n \in DOMAIN events :
              IsLastHeard(n, variant_switch_pending) /\ state = StateOf(events[n])
        BY <2>5, <3>2 DEF PageWillShow
      <4>2. PICK m \in DOMAIN events :
              IsLastHeard(m, variant_switch_pending) /\ page' = StateOf(events[m])
        BY <1>11, <2>3, <3>2 DEF Browser
      <4>3. n <= m /\ m <= n /\ n \in Nat /\ m \in Nat
        <5>1. DOMAIN events \subseteq Nat
          BY <1>c DEF CInv, CTypeOK
        <5> QED BY <4>1, <4>2, <5>1 DEF IsLastHeard
      <4> QED BY <4>1, <4>2, <4>3
    <3> QED BY <3>1, <3>2
  <2>7. Fits(page)'
    <3>1. Fits(state)'
      BY <1>v, <2>1, <2>5, FitsKept
    <3> QED BY <2>6, <3>1 DEF Fits
  <2>8. PageFollows' /\ page' \in PageStates
    BY <2>1, <2>5, <2>6, <2>7 DEF PageFollows
  <2> QED BY <2>2, <2>4, <2>8
<1>12. CASE OtherStage
  <2>1. UNCHANGED sinks
    BY <1>12 DEF OtherStage
  <2>2. CASE Advance("media")
    <3>1. worker = "media" /\ worker' = "idle" /\ vars' = vars /\ events' = events
      BY <2>2, StageOrder, StageSteps
    <3> QED BY <1>v, <2>1, <3>1, SinksKeep
  <2>3. CASE Advance("theme")
    <3>1. worker = "theme" /\ worker' = "apply" /\ vars' = vars /\ events' = events
      BY <2>3, StageOrder, StageSteps
    <3>2. PageFollows'
      BY <1>v, <2>1, <3>1, PageKept DEF sinks
    <3>3. LevelFollows'
      BY <1>v, <2>1, <3>1, LevelForKept DEF SInv, LevelFollows, sinks
    <3>4. MaximizedFollows' /\ page' \in PageStates
      BY <1>v, <2>1, <3>1 DEF SInv, MaximizedFollows, sinks
    <3> QED BY <3>2, <3>3, <3>4
  <2>4. CASE Advance("apply")
    <3>1. worker = "apply" /\ worker' = "recv" /\ vars' = vars /\ events' = <<>>
      BY <2>4, StageOrder, StageSteps
    <3>2. LevelFor(Snapshot)' = LevelFor(Snapshot)
      BY <1>v, <3>1 DEF LevelFor
    <3>3. LevelFollows' /\ MaximizedFollows'
      BY <1>v, <2>1, <3>1, <3>2 DEF SInv, LevelFollows, MaximizedFollows, sinks
    <3>4. PICK st \in PageStates : st = page
      BY <1>k
    <3>6. st = page' /\ Fits(page)'
      BY <1>v, <2>1, <3>1, <3>4, ShownPageKept DEF sinks
    <3>7. Fits(st)'
      BY <3>6 DEF Fits
    <3>8. NothingHeard(variant_switch_pending)'
      BY <3>1 DEF NothingHeard
    <3>9. PageWillShow(st)'
      BY <3>6, <3>8 DEF PageWillShow
    <3>5. PageFollows' /\ page' \in PageStates
      BY <3>1, <3>4, <3>6, <3>7, <3>9 DEF PageFollows
    <3> QED BY <3>3, <3>5
  <2> QED BY <1>12, <2>2, <2>3, <2>4 DEF OtherStage
<1> QED BY <1>1, <1>2, <1>3, <1>4, <1>5, <1>7, <1>8, <1>9, <1>10, <1>11, <1>12
        DEF SNext, WorkerStep

(* The sinks start as the player does: nothing plays. *)
LEMMA SInitInv == SInit => SInv
<1> SUFFICES ASSUME SInit PROVE SInv
  OBVIOUS
<1>1. /\ CInv /\ phase = "Stopped" /\ ~variant_switch_pending /\ ~maximized_before_fullscreen
      /\ events = <<>> /\ worker = "recv" /\ page = "idle" /\ idle_level = "None"
      /\ was_maximized = FALSE /\ maximized_before_fullscreen = FALSE
  BY CInitInv DEF SInit, CInit, Init
<1>2. PageWillShow(page) /\ Fits(page) /\ page \in PageStates
  BY <1>1 DEF PageWillShow, NothingHeard, Fits, PageFor, PageStates
<1>3. LevelFor(Snapshot) = "None"
  BY <1>1 DEF LevelFor, Snapshot
<1> QED BY <1>1, <1>2, <1>3 DEF SInv, PageFollows, LevelFollows, MaximizedFollows

(* Between batches the idle inhibition, the page and the maximized flag     *)
(* agree with the player (idle_inhibit_sink.rs, browser_sink.rs), for any   *)
(* inputs in any batches of any length.                                     *)
THEOREM SinksFollow == SSpec => []SinksAgree
<1>1. SInv /\ [SNext]_svars => SInv'
  <2> SUFFICES ASSUME SInv, [SNext]_svars PROVE SInv'
    OBVIOUS
  <2>1. CInv /\ [CNext]_allvars
    BY CoordinatorSteps DEF SInv, svars
  <2>2. CInv'
    BY <2>1, MachineStep, CTypeStep, StopStep DEF CInv
  <2> QED BY <2>2, SinksStep DEF SInv
<1>2. SInv => SinksAgree
  <2> SUFFICES ASSUME SInv, Quiet PROVE SinksAgree
    BY DEF SinksAgree
  <2>1. events = <<>> /\ worker \in {"recv", "exited"}
    BY DEF SInv, CInv, BetweenBatches, Quiet
  <2>2. Kinds(events) = {} /\ DOMAIN events = {}
    BY <2>1, KindsOfOne
  <2>3. Fits(page)
    BY <2>1, <2>2 DEF SInv, PageFollows, PageWillShow
  <2> QED BY <2>2, <2>3 DEF SInv, SinksAgree, Fits, LevelFollows, MaximizedFollows
<1> QED BY SInitInv, <1>1, <1>2, PTL DEF SSpec

(* The composition with the sinks implements the coordinator alone, but for *)
(* its fairness: what is proved of the worker's safety holds under it.      *)
THEOREM SinksRefineCoordinator == SSpec => CInit /\ [][CNext]_allvars
<1>1. SInit => CInit
  BY DEF SInit
<1>2. [SNext]_svars => [CNext]_allvars
  BY CoordinatorSteps DEF svars
<1> QED BY <1>1, <1>2, PTL DEF SSpec
-----------------------------------------------------------------------------
(* MediaSession: the session agrees with the player once it has caught up.  *)
(* Nothing is said of a session behind a swallowed end.  Otherwise what the *)
(* OS will show is told by the events on their way: of MPRIS the last that  *)
(* surely recomputes, its snapshot being the present; of the others the     *)
(* last transport event.                                                    *)

Shown == [item : MediaItems \union {NoMedia}, art : MediaItems \union {NoMedia}]
SessionKinds == EventKinds \union {"MetadataChanged", "ArtworkChanged"}
Announced == [kind : SessionKinds, about : Shown]
Snapshots == [phase : Phases, seeking : BOOLEAN, buffering : BOOLEAN]
Queued == [kind : SessionKinds, about : Shown, snapshot : Snapshots]
Statuses == {"Playing", "Paused", "Stopped"}

SessionTyped ==
  /\ ms_api \in Apis /\ ms_left \in 0 .. InputBudget
  /\ ms_announcing \in BOOLEAN /\ ms_lost \in BOOLEAN
  /\ ms_batch \in Seq(Announced) /\ (ms_announcing => ms_batch # <<>>)
  /\ ms_queue \in Seq(Queued) /\ (ms_api # "mpris" => Len(ms_queue) <= QueueCap)
  /\ ms_held \in Shown /\ ms_page \in Shown
  /\ ms_os \in [status : Statuses, rolling : BOOLEAN, shown : Shown]

(* Every one of these events makes MPRIS recompute its properties. *)
Sure == Transports \union {"SeekingChanged", "BufferingChanged"}

NoneAfter(q, n, kinds) == \A k \in DOMAIN q : k > n => q[k].kind \notin kinds
IsLastTransport(q, n) == q[n].kind \in Transports /\ NoneAfter(q, n, Transports)

MprisFollows ==
  ms_api = "mpris" /\ ~end_eaten /\ Kinds(ms_batch) \cap Sure = {} =>
    /\ \A n \in DOMAIN ms_queue :
         NoneAfter(ms_queue, n, Sure) => ms_queue[n].snapshot = SnapshotNow
    /\ Kinds(ms_queue) \cap Sure = {} =>
         ms_os.status = StatusFor(phase) /\ ms_os.rolling = Rolling(SnapshotNow)

HarnessFollows ==
  ms_api # "mpris" /\ ~end_eaten =>
    /\ \A n \in DOMAIN ms_batch :
         IsLastTransport(ms_batch, n) => MapKindToPhase(ms_batch[n].kind) = ShownStatus
    /\ Kinds(ms_batch) \cap Transports = {} /\ ~ms_lost =>
         /\ \A n \in DOMAIN ms_queue :
              IsLastTransport(ms_queue, n) => MapKindToPhase(ms_queue[n].kind) = ShownStatus
         /\ Kinds(ms_queue) \cap Transports = {} => ms_os.status = ShownStatus

ShowsTheHeld ==
  /\ ms_api = "mpris" =>
       ms_os.shown = IF ms_os.status = "Stopped" THEN NoItemShown ELSE ms_held
  /\ ms_api = "smtc" /\ ms_os.status = "Stopped" => ms_os.shown.item = NoMedia

(* The consumer's copy of the metadata after one more event of MPRIS.      *)
Content(held, ev) ==
  CASE ev.kind = "MetadataChanged" /\ ev.about.item # held.item -> ev.about
    [] ev.kind = "ArtworkChanged" -> [held EXCEPT !.art = ev.about.art]
    [] OTHER -> held

(* The events queued and those of the batch lead, one after the other, from *)
(* the consumer's copy to what the page announced last.                     *)
Way(tr, held, q, lq, b, lb, last) ==
  /\ tr[0] = held /\ tr[lq + lb] = last
  /\ \A n \in 1..lq : tr[n] = Content(tr[n - 1], q[n])
  /\ \A n \in 1..lb : tr[lq + n] = Content(tr[lq + n - 1], b[n])
Leads(tr, held, q, b, last) == Way(tr, held, q, Len(q), b, Len(b), last)

ContentFollows ==
  ms_api = "mpris" => \E tr : Leads(tr, ms_held, ms_queue, ms_batch, ms_page)

SessionInv ==
  /\ IInv /\ SessionTyped /\ MprisFollows /\ HarnessFollows /\ ShowsTheHeld /\ ContentFollows
-----------------------------------------------------------------------------
LEMMA SessionInitInv == SessionInit => SessionInv
<1> SUFFICES ASSUME SessionInit PROVE SessionInv
  OBVIOUS
<1>1. IInv
  BY InitIInv DEF SessionInit
<1>2. NoItemShown \in Shown
  BY DEF NoItemShown, Shown
<1>3. ms_os \in [status : Statuses, rolling : BOOLEAN, shown : Shown]
  <2>1. "Stopped" \in Statuses
    BY DEF Statuses
  <2> QED BY <1>2, <2>1 DEF SessionInit
<1>4. SessionTyped
  <2>1. /\ ms_batch = <<>> /\ ms_queue = <<>> /\ ms_left = InputBudget /\ ms_api \in Apis
        /\ ms_announcing = FALSE /\ ms_lost = FALSE
        /\ ms_held = NoItemShown /\ ms_page = NoItemShown
    BY DEF SessionInit
  <2>2. /\ ms_left \in 0 .. InputBudget
        /\ ms_batch \in Seq(Announced) /\ ms_queue \in Seq(Queued)
        /\ Len(ms_queue) <= QueueCap
    BY <2>1, QueueCapAssumption
  <2> QED BY <1>2, <1>3, <2>1, <2>2 DEF SessionTyped
<1>5. Kinds(<<>>) = {} /\ DOMAIN <<>> = {} /\ Len(<<>>) = 0
  BY KindsOfOne
<1>6. phase = "Stopped" /\ ms_os.status = "Stopped" /\ ms_os.rolling = FALSE
      /\ ms_os.shown = NoItemShown /\ ms_batch = <<>> /\ ms_queue = <<>>
  BY DEF SessionInit, Init
<1>7. StatusFor(phase) = "Stopped" /\ ShownStatus = "Stopped" /\ Rolling(SnapshotNow) = FALSE
  BY <1>6 DEF StatusFor, ShownStatus, Rolling, SnapshotNow
<1>8. MprisFollows /\ HarnessFollows
  BY <1>5, <1>6, <1>7 DEF MprisFollows, HarnessFollows
<1>9. ShowsTheHeld
  BY <1>6 DEF ShowsTheHeld, NoItemShown
<1>10. Leads([n \in {0} |-> NoItemShown], ms_held, ms_queue, ms_batch, ms_page)
  <2>1. ms_held = NoItemShown /\ ms_page = NoItemShown
    BY DEF SessionInit
  <2>2. DOMAIN ms_queue = {} /\ DOMAIN ms_batch = {} /\ Len(ms_queue) = 0 /\ Len(ms_batch) = 0
    BY <1>5, <1>6
  <2> QED BY <2>1, <2>2 DEF Leads, Way
<1> QED BY <1>1, <1>4, <1>8, <1>9, <1>10 DEF SessionInv, ContentFollows
-----------------------------------------------------------------------------
(* The worker collects *)

(* What an input tells the session: its transport event comes last and     *)
(* names the phase; without one, and without one of the indicators', there *)
(* is nothing to tell, unless an end was swallowed.                        *)
TellsSession ==
  /\ Kinds(emitted') \cap Transports = {} => end_eaten' \/ UNCHANGED <<phase, end_eaten>>
  /\ Kinds(emitted') \cap Sure = {} => UNCHANGED <<seeking, buffering>>
  /\ Kinds(emitted') \cap Transports # {} =>
       /\ Len(emitted') \in DOMAIN emitted'
       /\ emitted'[Len(emitted')].kind \in Transports
       /\ ms_api # "mpris" => MapKindToPhase(emitted'[Len(emitted')].kind) = ShownStatus'

LEMMA SessionTold ==
  ASSUME IInv, Handled, [Next]_vars \/ Ignored, UNCHANGED ms_api, emitted' \in Seq(Event)
  PROVE  TellsSession
<1>1. TellsPage
  BY HandledTells DEF TellsSinks
<1>2. Transports = Transporting \union {"TrackLoaded"}
  BY DEF Transports, Transporting, TerminalKinds
<1>3. Kinds(emitted') \cap Sure = {} => UNCHANGED <<seeking, buffering>>
  <2>1. CASE [Next]_vars
    <3>1. IndicatorsTold
      BY <2>1, TellsStep
    <3>2. \A f : \A k \in {"SeekingChanged", "BufferingChanged"} :
            Told(k, f) => Kinds(emitted') \cap Sure # {}
      <4> SUFFICES ASSUME NEW k \in {"SeekingChanged", "BufferingChanged"}, NEW f, Told(k, f)
                   PROVE  Kinds(emitted') \cap Sure # {}
        OBVIOUS
      <4>1. Flagged(k, f).kind = k
        BY DEF Flagged
      <4>2. k \in Kinds(emitted') \/ "TrackLoaded" \in Kinds(emitted')
        BY <4>1 DEF Told, Kinds
      <4> QED BY <4>2 DEF Sure, Transports
    <3> QED BY <3>1, <3>2 DEF IndicatorsTold
  <2>2. CASE Ignored
    BY <2>2 DEF Ignored
  <2> QED BY <2>1, <2>2
<1>4. CASE Kinds(emitted') \cap Transports = {}
  <2>1. /\ emitted' # <<Ev("TrackLoaded")>>
        /\ \A k \in Transports : ~LastIs(k)
    <3>1. Kinds(<<Ev("TrackLoaded")>>) = {"TrackLoaded"}
      BY KindsOfOne DEF Ev
    <3>2. \A k : LastIs(k) => k \in Kinds(emitted')
      <4>1. DOMAIN emitted' = 1..Len(emitted')
        OBVIOUS
      <4> QED BY <4>1 DEF LastIs, Kinds
    <3> QED BY <1>4, <3>1, <3>2 DEF Transports
  <2>2. end_eaten' \/ UNCHANGED <<phase, end_eaten>>
    BY <1>1, <1>2, <2>1 DEF TellsPage, Transporting
  <2> QED BY <1>3, <1>4, <2>2 DEF TellsSession
<1>5. CASE Kinds(emitted') \cap Transports # {}
  <2>1. \E k \in Transports :
          /\ LastIs(k)
          /\ k = "TrackLoaded" => phase' = "Starting"
          /\ k = "Started" => phase' = "Playing"
          /\ k = "Paused" => phase' = "Paused"
          /\ k \in TerminalKinds => phase' = "Stopped"
    <3>1. emitted' = <<Ev("TrackLoaded")>> => LastIs("TrackLoaded")
      BY DEF LastIs, Ev
    <3>2. "TrackLoaded" \in Transports /\ Transporting \subseteq Transports
      BY <1>2
    <3> QED BY <1>1, <1>2, <1>5, <3>1, <3>2 DEF TellsPage, Transporting, TerminalKinds
  <2>2. PICK k \in Transports :
          /\ LastIs(k)
          /\ k = "TrackLoaded" => phase' = "Starting"
          /\ k = "Started" => phase' = "Playing"
          /\ k = "Paused" => phase' = "Paused"
          /\ k \in TerminalKinds => phase' = "Stopped"
    BY <2>1
  <2>3. Len(emitted') \in DOMAIN emitted' /\ emitted'[Len(emitted')].kind = k
    <3>1. DOMAIN emitted' = 1..Len(emitted')
      OBVIOUS
    <3> QED BY <2>2, <3>1 DEF LastIs
  <2>4. ms_api # "mpris" => MapKindToPhase(k) = ShownStatus'
    BY <2>2 DEF MapKindToPhase, ShownStatus, Transports, TerminalKinds
  <2> QED BY <1>3, <1>5, <2>3, <2>4 DEF TellsSession
<1> QED BY <1>4, <1>5
-----------------------------------------------------------------------------
(* The way from the consumer's copy to the page: one more input, one event  *)
(* announced, one consumed.                                                *)
ContentKinds == {"MetadataChanged", "ArtworkChanged"}

(* A batch goes on: la events tell no metadata, and one more, if there is   *)
(* one more, leads the page's from p to p2.                                *)
GoesOn(b, lb, r, la, lt, p, p2) ==
  /\ DOMAIN r = 1 .. (lb + la + lt) /\ \A n \in 1..lb : r[n] = b[n]
  /\ \A n \in lb + 1 .. lb + la : r[n].kind \notin ContentKinds
  /\ lt \in {0, 1} /\ (lt = 0 => p2 = p)
  /\ lt = 1 => p2 = Content(p, r[lb + la + 1])

LEMMA WayFurther ==
  ASSUME NEW lq \in Nat, NEW lb \in Nat, NEW la \in Nat, NEW lt \in Nat,
         NEW tr, NEW held, NEW q, NEW b, NEW r, NEW p, NEW p2,
         Way(tr, held, q, lq, b, lb, p), GoesOn(b, lb, r, la, lt, p, p2)
  PROVE  \E tr2 : Way(tr2, held, q, lq, r, lb + la + lt, p2)
<1>1. PICK tr2 : tr2 = [n \in 0 .. lq + lb + la + lt |->
                          IF n <= lq + lb THEN tr[n]
                          ELSE IF n <= lq + lb + la THEN p ELSE p2]
  OBVIOUS
<1>2. \A n \in 0 .. lq + lb : tr2[n] = tr[n]
  BY <1>1
<1>3. \A n \in lq + lb .. lq + lb + la : tr2[n] = p
  <2>1. tr[lq + lb] = p
    BY DEF Way
  <2> QED BY <1>1, <2>1
<1>4. tr2[lq + lb + la + lt] = p2
  <2>1. CASE lt = 0
    BY <1>3, <2>1 DEF GoesOn
  <2>2. CASE lt = 1
    BY <1>1, <2>2
  <2> QED BY <2>1, <2>2 DEF GoesOn
<1>5. ASSUME NEW n \in 1..lq PROVE tr2[n] = Content(tr2[n - 1], q[n])
  <2>1. n \in 0 .. lq + lb /\ n - 1 \in 0 .. lq + lb
    OBVIOUS
  <2>2. tr2[n] = tr[n] /\ tr2[n - 1] = tr[n - 1]
    BY <1>2, <2>1
  <2> QED BY <2>2 DEF Way
<1>6. ASSUME NEW n \in 1 .. lb + la + lt
      PROVE  tr2[lq + n] = Content(tr2[lq + n - 1], r[n])
  <2>1. CASE n \in 1..lb
    <3>1. lq + n \in 0 .. lq + lb /\ lq + n - 1 \in 0 .. lq + lb
      BY <2>1
    <3>2. tr2[lq + n] = tr[lq + n] /\ tr2[lq + n - 1] = tr[lq + n - 1]
      BY <1>2, <3>1
    <3> QED BY <2>1, <3>2 DEF Way, GoesOn
  <2>2. CASE n \in lb + 1 .. lb + la
    <3>1. lq + n \in lq + lb .. lq + lb + la /\ lq + n - 1 \in lq + lb .. lq + lb + la
      BY <2>2
    <3>2. tr2[lq + n] = p /\ tr2[lq + n - 1] = p
      BY <1>3, <3>1
    <3> QED BY <2>2, <3>2 DEF Content, ContentKinds, GoesOn
  <2>3. CASE n = lb + la + 1 /\ lt = 1
    <3>1. lq + n = lq + lb + la + lt /\ lq + n - 1 \in lq + lb .. lq + lb + la
      BY <2>3
    <3> QED BY <1>3, <1>4, <2>3, <3>1 DEF GoesOn
  <2> QED BY <2>1, <2>2, <2>3 DEF GoesOn
<1>7. tr2[0] = held /\ tr2[lq + (lb + la + lt)] = p2
  <2>1. 0 \in 0 .. lq + lb /\ lq + (lb + la + lt) = lq + lb + la + lt
    OBVIOUS
  <2> QED BY <1>2, <1>4, <2>1 DEF Way
<1> QED BY <1>5, <1>6, <1>7 DEF Way

LEMMA LeadsFurther ==
  ASSUME NEW S, NEW Q, NEW q \in Seq(Q), NEW b \in Seq(S), NEW r \in Seq(S),
         NEW la \in Nat, NEW lt \in Nat,
         NEW tr, NEW held, NEW p, NEW p2, Leads(tr, held, q, b, p),
         GoesOn(b, Len(b), r, la, lt, p, p2)
  PROVE  \E tr2 : Leads(tr2, held, q, r, p2)
<1>1. /\ Len(q) \in Nat /\ DOMAIN q = 1..Len(q) /\ Len(b) \in Nat /\ DOMAIN b = 1..Len(b)
      /\ Len(r) \in Nat /\ DOMAIN r = 1..Len(r)
  OBVIOUS
<1>2. PICK lq \in Nat, lb \in Nat : lq = Len(q) /\ lb = Len(b)
  BY <1>1
<1>3. Len(r) = lb + la + lt
  <2>1. DOMAIN r = 1 .. (lb + la + lt)
    BY <1>2 DEF GoesOn
  <2>2. PICK m \in Nat, n \in Nat : m = Len(r) /\ n = lb + la + lt
    <3>1. Len(r) \in Nat
      BY <1>1
    <3>2. lb + la + lt \in Nat
      OBVIOUS
    <3> QED BY <3>1, <3>2
  <2>3. 1..m = 1..n
    BY <1>1, <2>1, <2>2
  <2>4. (m \in 1..m => m \in 1..n) /\ (n \in 1..n => n \in 1..m)
    BY <2>3
  <2> QED BY <2>2, <2>4
<1>4. Way(tr, held, q, lq, b, lb, p) /\ GoesOn(b, lb, r, la, lt, p, p2)
  BY <1>2 DEF Leads
<1>5. PICK tr2 : Way(tr2, held, q, lq, r, lb + la + lt, p2)
  BY <1>4, WayFurther, Zenon
<1>6. Leads(tr2, held, q, r, p2)
  BY <1>2, <1>3, <1>5 DEF Leads
<1> QED BY <1>6

LEMMA LeadsAnnounced ==
  ASSUME NEW S, NEW Q, NEW q \in Seq(Q), NEW b \in Seq(S), b # <<>>, NEW e \in Q,
         e.kind = Head(b).kind, e.about = Head(b).about,
         NEW tr, NEW held, NEW p, Leads(tr, held, q, b, p)
  PROVE  Leads(tr, held, Append(q, e), Tail(b), p)
<1>1. /\ Len(q) \in Nat /\ DOMAIN q = 1..Len(q) /\ Len(b) \in Nat \ {0} /\ DOMAIN b = 1..Len(b)
      /\ Len(Append(q, e)) = Len(q) + 1 /\ DOMAIN Append(q, e) = 1 .. Len(q) + 1
      /\ \A n \in 1..Len(q) : Append(q, e)[n] = q[n]
      /\ Append(q, e)[Len(q) + 1] = e
  OBVIOUS
<1>2. /\ Len(Tail(b)) = Len(b) - 1 /\ DOMAIN Tail(b) = 1 .. Len(b) - 1
      /\ \A n \in 1 .. Len(b) - 1 : Tail(b)[n] = b[n + 1]
      /\ Head(b) = b[1]
  OBVIOUS
<1>3. PICK q2, b2 : q2 = Append(q, e) /\ b2 = Tail(b)
  OBVIOUS
<1>4. PICK lq \in Nat, lb \in Nat : lq = Len(q) /\ lb = Len(b) /\ lb # 0
  BY <1>1
<1>5. /\ tr[0] = held /\ tr[lq + lb] = p
      /\ \A n \in 1..lq : tr[n] = Content(tr[n - 1], q[n])
      /\ \A n \in 1..lb : tr[lq + n] = Content(tr[lq + n - 1], b[n])
  BY <1>1, <1>4 DEF Leads, Way
<1>6. \A c : Content(c, e) = Content(c, b[1])
  BY <1>2 DEF Content
<1>7. /\ DOMAIN q2 = 1 .. lq + 1 /\ Len(q2) = lq + 1
      /\ \A n \in 1..lq : q2[n] = q[n]
      /\ q2[lq + 1] = e
      /\ DOMAIN b2 = 1 .. lb - 1 /\ Len(b2) = lb - 1
      /\ \A n \in 1 .. lb - 1 : b2[n] = b[n + 1]
  BY <1>1, <1>2, <1>3, <1>4
<1>8. \A n \in 1 .. lq + 1 : tr[n] = Content(tr[n - 1], q2[n])
  <2>1. tr[lq + 1] = Content(tr[lq], e)
    <3>1. tr[lq + 1] = Content(tr[lq + 1 - 1], b[1])
      BY <1>4, <1>5
    <3> QED BY <1>6, <3>1
  <2>2. \A n \in 1 .. lq + 1 : n \in 1..lq \/ (n = lq + 1 /\ n - 1 = lq)
    OBVIOUS
  <2> QED BY <1>5, <1>7, <2>1, <2>2
<1>9. ASSUME NEW n \in 1 .. lb - 1
      PROVE  tr[lq + 1 + n] = Content(tr[lq + 1 + n - 1], b2[n])
  <2>1. n + 1 \in 1..lb /\ lq + (n + 1) = lq + 1 + n /\ lq + (n + 1) - 1 = lq + 1 + n - 1
    OBVIOUS
  <2>2. tr[lq + (n + 1)] = Content(tr[lq + (n + 1) - 1], b[n + 1]) /\ b2[n] = b[n + 1]
    BY <1>5, <1>7, <2>1
  <2> QED BY <2>1, <2>2
<1>10. tr[lq + 1 + (lb - 1)] = p
  BY <1>5
<1>11. Leads(tr, held, q2, b2, p)
  BY <1>5, <1>7, <1>8, <1>9, <1>10 DEF Leads, Way
<1> QED BY <1>3, <1>11

LEMMA LeadsConsumed ==
  ASSUME NEW S, NEW Q, NEW q \in Seq(Q), NEW b \in Seq(S), q # <<>>,
         NEW tr, NEW held, NEW p, Leads(tr, held, q, b, p)
  PROVE  \E tr2 : Leads(tr2, Content(held, Head(q)), Tail(q), b, p)
<1>1. /\ Len(q) \in Nat \ {0} /\ DOMAIN q = 1..Len(q) /\ Len(b) \in Nat /\ DOMAIN b = 1..Len(b)
      /\ Len(Tail(q)) = Len(q) - 1 /\ DOMAIN Tail(q) = 1 .. Len(q) - 1
      /\ \A n \in 1 .. Len(q) - 1 : Tail(q)[n] = q[n + 1]
      /\ Head(q) = q[1]
  OBVIOUS
<1>2. PICK lq \in Nat, lb \in Nat : lq = Len(q) /\ lb = Len(b) /\ lq # 0
  BY <1>1
<1>3. /\ tr[0] = held /\ tr[lq + lb] = p
      /\ \A n \in 1..lq : tr[n] = Content(tr[n - 1], q[n])
      /\ \A n \in 1..lb : tr[lq + n] = Content(tr[lq + n - 1], b[n])
  BY <1>1, <1>2 DEF Leads, Way
<1>4. PICK tr2 : tr2 = [n \in 0 .. lq + lb - 1 |-> tr[n + 1]]
  OBVIOUS
<1>5. tr2[0] = Content(held, Head(q))
  <2>1. tr[1] = Content(tr[1 - 1], q[1])
    BY <1>2, <1>3
  <2> QED BY <1>1, <1>2, <1>3, <1>4, <2>1
<1>6. \A n \in 0 .. lq + lb - 1 : tr2[n] = tr[n + 1]
  BY <1>4
<1>7. PICK q2 : q2 = Tail(q)
  OBVIOUS
<1>8. DOMAIN q2 = 1 .. lq - 1 /\ Len(q2) = lq - 1 /\ \A n \in 1 .. lq - 1 : q2[n] = q[n + 1]
  BY <1>1, <1>2, <1>7
<1>9. \A n \in 1 .. lq - 1 : tr2[n] = Content(tr2[n - 1], q2[n])
  <2>1. \A n \in 1 .. lq - 1 : /\ n + 1 \in 1..lq /\ (n + 1) - 1 = n /\ (n - 1) + 1 = n
                               /\ n \in 0 .. lq + lb - 1 /\ n - 1 \in 0 .. lq + lb - 1
    BY <1>2
  <2> QED BY <1>3, <1>6, <1>8, <2>1
<1>10. \A n \in 1..lb : tr2[lq - 1 + n] = Content(tr2[lq - 1 + n - 1], b[n])
  <2>1. \A n \in 1..lb : /\ lq - 1 + n \in 0 .. lq + lb - 1 /\ (lq - 1 + n) + 1 = lq + n
                         /\ lq - 1 + n - 1 \in 0 .. lq + lb - 1
                         /\ (lq - 1 + n - 1) + 1 = lq + n - 1
    BY <1>2
  <2> QED BY <1>3, <1>6, <2>1
<1>11. tr2[lq - 1 + lb] = p
  <2>1. lq - 1 + lb \in 0 .. lq + lb - 1 /\ (lq - 1 + lb) + 1 = lq + lb
    BY <1>2
  <2> QED BY <1>3, <1>6, <2>1
<1>12. Leads(tr2, Content(held, Head(q)), q2, b, p)
  BY <1>1, <1>2, <1>5, <1>8, <1>9, <1>10, <1>11 DEF Leads, Way
<1> QED BY <1>7, <1>12
-----------------------------------------------------------------------------
(* A batch after an input, in numbers. *)
Joins(b, lb, a, la, t, lt, r) ==
  /\ DOMAIN b = 1..lb /\ DOMAIN a = 1..la /\ DOMAIN t = 1..lt
  /\ DOMAIN r = 1..(lb + la + lt)
  /\ \A n \in 1..lb : r[n] = b[n]
  /\ \A n \in 1..la : r[lb + n] = a[n]
  /\ \A n \in 1..lt : r[lb + la + n] = t[n]
  /\ \A n \in DOMAIN r : n \notin DOMAIN b =>
       \/ n - lb \in DOMAIN a /\ r[n] = a[n - lb]
       \/ n - lb - la \in DOMAIN t /\ r[n] = t[n - lb - la]

LEMMA BatchJoins ==
  ASSUME NEW S, NEW b \in Seq(S), NEW a \in Seq(S), NEW t \in Seq(S)
  PROVE  b \o a \o t \in Seq(S) /\ Joins(b, Len(b), a, Len(a), t, Len(t), b \o a \o t)
<1> PICK r : r = b \o a \o t
  OBVIOUS
<1>1. /\ r \in Seq(S) /\ Len(b) \in Nat /\ Len(a) \in Nat /\ Len(t) \in Nat
      /\ DOMAIN b = 1..Len(b) /\ DOMAIN a = 1..Len(a) /\ DOMAIN t = 1..Len(t)
      /\ DOMAIN r = 1..(Len(b) + Len(a) + Len(t))
      /\ \A n \in DOMAIN b : r[n] = b[n]
      /\ \A n \in DOMAIN a : r[Len(b) + n] = a[n]
      /\ \A n \in DOMAIN t : r[Len(b) + Len(a) + n] = t[n]
      /\ \A n \in DOMAIN r : n \notin DOMAIN b =>
           \/ n - Len(b) \in DOMAIN a /\ r[n] = a[n - Len(b)]
           \/ n - Len(b) - Len(a) \in DOMAIN t /\ r[n] = t[n - Len(b) - Len(a)]
  BY Batched, SMTT(60)
<1>2. PICK lb, la, lt : lb = Len(b) /\ la = Len(a) /\ lt = Len(t)
  OBVIOUS
<1>3. /\ DOMAIN b = 1..lb /\ DOMAIN a = 1..la /\ DOMAIN t = 1..lt
      /\ DOMAIN r = 1..(lb + la + lt)
      /\ \A n \in DOMAIN b : r[n] = b[n]
      /\ \A n \in DOMAIN a : r[lb + n] = a[n]
      /\ \A n \in DOMAIN t : r[lb + la + n] = t[n]
      /\ \A n \in DOMAIN r : n \notin DOMAIN b =>
           \/ n - lb \in DOMAIN a /\ r[n] = a[n - lb]
           \/ n - lb - la \in DOMAIN t /\ r[n] = t[n - lb - la]
  BY <1>1, <1>2
<1>4. Joins(b, lb, a, la, t, lt, r)
  BY <1>3, Zenon DEF Joins
<1> QED BY <1>1, <1>2, <1>4

(* What the page announces is what the input's own event, if any, tells.   *)
Announces(t) ==
  \/ Len(t) = 0 /\ ms_page' = ms_page
  \/ Len(t) = 1 /\ ms_page' = Content(ms_page, t[1])

(* An input is collected: the handler's events, then the input's own. *)
LEMMA CollectKeeps ==
  ASSUME SessionInv, Handled, [Next]_vars \/ Ignored,
         NEW t \in Seq(Announced), Collect(t), Announces(t),
         Kinds(t) \cap Sure = {}, ms_page' \in Shown
  PROVE  SessionInv'
<1>l. PICK lt \in {0, 1} : /\ Len(t) = lt
                           /\ lt = 0 => ms_page' = ms_page
                           /\ lt = 1 => ms_page' = Content(ms_page, t[1])
  BY DEF Announces
<1> DEFINE a == Announcements(emitted')
<1>i. IInv /\ TypeOK /\ SessionTyped
  BY DEF SessionInv, IInv
<1>1. IInv'
  BY <1>i, IgnoredKeeps, TypeStep, SafetyStep DEF IInv, Safety
<1>2. emitted' \in Seq(Event)
  BY <1>1 DEF IInv, TypeOK
<1>3. TellsSession
  BY <1>i, <1>2, SessionTold DEF Collect
<1>4. /\ a \in Seq(Announced) /\ Len(a) = Len(emitted') /\ DOMAIN a = DOMAIN emitted'
      /\ \A n \in DOMAIN a : a[n].kind = emitted'[n].kind /\ a[n].kind \notin ContentKinds
  <2>1. /\ DOMAIN emitted' = 1..Len(emitted') /\ Len(emitted') \in Nat
        /\ \A n \in DOMAIN emitted' : emitted'[n] \in Event
    BY <1>2
  <2>2. NoItemShown \in Shown
    BY DEF NoItemShown, Shown
  <2>3. \A n \in DOMAIN emitted' :
          /\ Announcement(emitted'[n].kind, NoItemShown) \in Announced
          /\ Announcement(emitted'[n].kind, NoItemShown).kind = emitted'[n].kind
          /\ emitted'[n].kind \notin ContentKinds
    <3> SUFFICES ASSUME NEW n \in DOMAIN emitted'
                 PROVE  /\ Announcement(emitted'[n].kind, NoItemShown) \in Announced
                        /\ Announcement(emitted'[n].kind, NoItemShown).kind = emitted'[n].kind
                        /\ emitted'[n].kind \notin ContentKinds
      OBVIOUS
    <3>1. emitted'[n].kind \in EventKinds
      <4>1. emitted'[n] \in Event
        BY <2>1
      <4> HIDE DEF EventKinds
      <4> QED BY <4>1 DEF Event
    <3>2. emitted'[n].kind \in SessionKinds /\ emitted'[n].kind \notin ContentKinds
      BY <3>1, SMT DEF SessionKinds, ContentKinds, TerminalKinds, EventKinds, TransportKinds
    <3> HIDE DEF EventKinds
    <3> QED BY <2>2, <3>1, <3>2 DEF Announcement, Announced
  <2>4. a = [n \in 1..Len(emitted') |-> Announcement(emitted'[n].kind, NoItemShown)]
    BY <2>1 DEF Announcements
  <2> HIDE DEF a
  <2> QED BY <2>1, <2>3, <2>4
<1> HIDE DEF a
<1>5. /\ ms_batch' = ms_batch \o a \o t
      /\ UNCHANGED <<ms_api, ms_announcing, ms_queue, ms_held, ms_os, ms_lost>>
      /\ ~ms_announcing /\ ms_left > 0 /\ ms_left' = ms_left - 1
  BY DEF Collect, msconsumer, a
<1>6. PICK b, r : b = ms_batch /\ r = ms_batch'
  OBVIOUS
<1>7. /\ b \in Seq(Announced) /\ r = b \o a \o t
  BY <1>5, <1>6, <1>i DEF SessionTyped
<1>8. r \in Seq(Announced) /\ Joins(b, Len(b), a, Len(a), t, Len(t), r)
  <2>1. a \in Seq(Announced)
    BY <1>4
  <2>2. b \o a \o t \in Seq(Announced)
        /\ Joins(b, Len(b), a, Len(a), t, Len(t), b \o a \o t)
    BY <1>7, <2>1, BatchJoins, Zenon
  <2> QED BY <1>7, <2>2, Zenon
<1>9. PICK lb \in Nat, la \in Nat : lb = Len(b) /\ la = Len(a)
  <2>1. Len(b) \in Nat /\ Len(a) \in Nat
    BY <1>4, <1>7
  <2> QED BY <2>1
<1>10. Joins(b, lb, a, la, t, lt, r)
  BY <1>8, <1>9, <1>l
<1> USE DEF Joins
<1>k. /\ \A n \in DOMAIN a : a[n].kind \in Kinds(emitted')
      /\ \A n \in DOMAIN t : t[n].kind \notin Sure
      /\ Transports \subseteq Sure
  BY <1>4 DEF Kinds, Sure
<1>11. Kinds(b) \subseteq Kinds(r) /\ Kinds(emitted') \subseteq Kinds(r)
  <2>1. \A n \in DOMAIN b : n \in DOMAIN r /\ r[n] = b[n]
    BY <1>10
  <2>2. \A n \in DOMAIN emitted' : lb + n \in DOMAIN r /\ r[lb + n].kind = emitted'[n].kind
    BY <1>4, <1>10
  <2> QED BY <2>1, <2>2 DEF Kinds
<1>12. SessionTyped'
  <2>1. r # <<>> \/ ~ms_announcing'
    BY <1>5
  <2>2. ms_left' \in 0 .. InputBudget
    BY <1>5, <1>i, QueueCapAssumption DEF SessionTyped
  <2> QED BY <1>5, <1>6, <1>8, <1>i, <2>1, <2>2 DEF SessionTyped
<1>13. MprisFollows'
  <2> SUFFICES ASSUME (ms_api = "mpris")', ~end_eaten', Kinds(r) \cap Sure = {}
               PROVE  /\ \A n \in DOMAIN ms_queue :
                           NoneAfter(ms_queue, n, Sure) => ms_queue[n].snapshot = SnapshotNow'
                      /\ Kinds(ms_queue) \cap Sure = {} =>
                           ms_os.status = StatusFor(phase') /\ ms_os.rolling = Rolling(SnapshotNow')
    BY <1>5, <1>6 DEF MprisFollows
  <2>1. UNCHANGED <<phase, end_eaten, seeking, buffering>>
    BY <1>3, <1>11, <1>k DEF TellsSession
  <2>2. SnapshotNow' = SnapshotNow /\ StatusFor(phase') = StatusFor(phase)
    BY <2>1 DEF SnapshotNow
  <2>3. ms_api = "mpris" /\ ~end_eaten /\ Kinds(ms_batch) \cap Sure = {}
    BY <1>5, <1>6, <1>11, <2>1
  <2> QED BY <2>2, <2>3 DEF SessionInv, MprisFollows
<1>14. HarnessFollows'
  <2> SUFFICES ASSUME ms_api # "mpris", ~end_eaten'
               PROVE  /\ \A n \in DOMAIN r :
                           IsLastTransport(r, n) => MapKindToPhase(r[n].kind) = ShownStatus'
                      /\ Kinds(r) \cap Transports = {} /\ ~ms_lost =>
                           /\ \A n \in DOMAIN ms_queue : IsLastTransport(ms_queue, n) =>
                                MapKindToPhase(ms_queue[n].kind) = ShownStatus'
                           /\ Kinds(ms_queue) \cap Transports = {} => ms_os.status = ShownStatus'
    BY <1>5, <1>6 DEF HarnessFollows
  <2>1. CASE Kinds(emitted') \cap Transports # {}
    <3>1. /\ la \in DOMAIN a /\ a[la].kind \in Transports
          /\ MapKindToPhase(a[la].kind) = ShownStatus'
      BY <1>3, <1>4, <1>9, <2>1 DEF TellsSession
    <3>2. lb + la \in DOMAIN r /\ r[lb + la] = a[la]
      BY <1>10, <3>1
    <3>3. ASSUME NEW n \in DOMAIN r, IsLastTransport(r, n)
          PROVE  n = lb + la
      <4>1. ~(lb + la > n)
        BY <3>1, <3>2, <3>3 DEF IsLastTransport, NoneAfter
      <4>2. CASE n > lb + la
        <5>1. n - lb - la \in 1..lt /\ lb + la + (n - lb - la) = n
          BY <1>10, <4>2
        <5>2. r[n] = t[n - lb - la]
          BY <1>10, <5>1
        <5> QED BY <1>10, <1>k, <3>3, <5>1, <5>2 DEF IsLastTransport
      <4> QED BY <1>10, <4>1, <4>2
    <3>4. Kinds(r) \cap Transports # {}
      BY <1>11, <2>1
    <3> QED BY <3>1, <3>2, <3>3, <3>4
  <2>2. CASE Kinds(emitted') \cap Transports = {}
    <3>1. UNCHANGED <<phase, end_eaten, ms_api>>
      BY <1>3, <1>5, <2>2 DEF TellsSession
    <3>2. ShownStatus' = ShownStatus /\ ~end_eaten
      BY <3>1 DEF ShownStatus
    <3>3. ASSUME NEW n \in DOMAIN r, IsLastTransport(r, n)
          PROVE  n \in DOMAIN b /\ IsLastTransport(b, n) /\ r[n] = b[n]
      <4>1. n \in DOMAIN b
        BY <1>10, <1>k, <2>2, <3>3 DEF IsLastTransport
      <4>2. \A k \in DOMAIN b : k \in DOMAIN r /\ r[k] = b[k]
        BY <1>10
      <4> QED BY <3>3, <4>1, <4>2 DEF IsLastTransport, NoneAfter
    <3>4. /\ \A n \in DOMAIN b :
               IsLastTransport(b, n) => MapKindToPhase(b[n].kind) = ShownStatus
          /\ Kinds(b) \cap Transports = {} /\ ~ms_lost =>
               /\ \A n \in DOMAIN ms_queue : IsLastTransport(ms_queue, n) =>
                    MapKindToPhase(ms_queue[n].kind) = ShownStatus
               /\ Kinds(ms_queue) \cap Transports = {} => ms_os.status = ShownStatus
      BY <1>6, <3>2 DEF SessionInv, HarnessFollows
    <3>5. Kinds(r) \cap Transports = {} => Kinds(b) \cap Transports = {}
      BY <1>11
    <3> QED BY <3>2, <3>3, <3>4, <3>5
  <2> QED BY <2>1, <2>2
<1>15. ShowsTheHeld'
  BY <1>5 DEF SessionInv, ShowsTheHeld
<1>16. ContentFollows'
  <2> SUFFICES ASSUME ms_api = "mpris"
               PROVE  \E tr : Leads(tr, ms_held, ms_queue, r, ms_page')
    BY <1>5, <1>6 DEF ContentFollows
  <2>1. PICK tr : Leads(tr, ms_held, ms_queue, b, ms_page)
    BY <1>6 DEF SessionInv, ContentFollows
  <2>2. GoesOn(b, Len(b), r, la, lt, ms_page, ms_page')
    <3>1. \A n \in lb + 1 .. lb + la : r[n].kind \notin ContentKinds
      <4> SUFFICES ASSUME NEW n \in lb + 1 .. lb + la PROVE r[n].kind \notin ContentKinds
        OBVIOUS
      <4>1. n - lb \in 1..la /\ lb + (n - lb) = n
        OBVIOUS
      <4>2. r[n] = a[n - lb]
        BY <1>10, <4>1
      <4> QED BY <1>4, <1>10, <4>1, <4>2
    <3>2. lt = 1 => r[lb + la + 1] = t[1]
      BY <1>10
    <3> QED BY <1>9, <1>10, <1>l, <3>1, <3>2 DEF GoesOn
  <2>3. ms_queue \in Seq(Queued)
    BY <1>i DEF SessionTyped
  <2>4. la \in Nat /\ lt \in Nat
    BY <1>9
  <2>5. b \in Seq(Announced) /\ r \in Seq(Announced)
    BY <1>7, <1>8
  <2> QED BY <2>1, <2>2, <2>3, <2>4, <2>5, LeadsFurther
<1> QED BY <1>1, <1>12, <1>13, <1>14, <1>15, <1>16 DEF SessionInv

LEMMA InputKeeps ==
  ASSUME SessionInv, MpvInput \/ (\E item \in MediaItems : MetadataInput(item)) \/ ArtworkInput
  PROVE  SessionInv'
<1>t. SessionTyped /\ TypeOK
  BY DEF SessionInv, IInv
<1>1. CASE MpvInput
  <2>1. Handled /\ Next
    BY <1>1 DEF MpvInput, Handled, Next
  <2>2. Collect(<<>>) /\ ms_page' = ms_page
    BY <1>1 DEF MpvInput
  <2>3. <<>> \in Seq(Announced) /\ Len(<<>>) = 0 /\ Kinds(<<>>) = {}
    BY KindsOfOne
  <2>4. ms_page' \in Shown
    BY <1>t, <2>2 DEF SessionTyped
  <2>5. Kinds(<<>>) \cap Sure = {} /\ [Next]_vars /\ Announces(<<>>)
    BY <2>1, <2>2, <2>3 DEF Announces
  <2> QED BY <2>1, <2>2, <2>3, <2>4, <2>5, CollectKeeps, Zenon
<1>2. ASSUME NEW item \in MediaItems, MetadataInput(item) PROVE SessionInv'
  <2>1. Handled /\ Next
    BY <1>2 DEF MetadataInput, Handled, Next, MediaTypes
  <2>2. PICK e : e = Announcement("MetadataChanged", [item |-> item, art |-> NoMedia])
    OBVIOUS
  <2>3. e \in Announced /\ e.kind = "MetadataChanged" /\ e.about = [item |-> item, art |-> NoMedia]
    BY <2>2 DEF Announcement, Announced, SessionKinds, Shown
  <2>4. Collect(<<e>>)
        /\ ms_page' = IF item = ms_page.item THEN ms_page ELSE [item |-> item, art |-> NoMedia]
    BY <1>2, <2>2 DEF MetadataInput
  <2>5. ms_page' = Content(ms_page, e) /\ ms_page' \in Shown
    BY <1>t, <2>3, <2>4 DEF Content, SessionTyped, Shown
  <2>6. <<e>> \in Seq(Announced) /\ Len(<<e>>) = 1 /\ <<e>>[1] = e
    BY <2>3
  <2>7. Kinds(<<e>>) \cap Sure = {}
    BY <2>3, KindsOfOne DEF Sure, Transports, TerminalKinds
  <2>8. Announces(<<e>>) /\ [Next]_vars
    BY <2>1, <2>5, <2>6 DEF Announces
  <2> QED BY <2>1, <2>4, <2>5, <2>6, <2>7, <2>8, CollectKeeps, Zenon
<1>3. CASE ArtworkInput
  <2>1. Handled /\ Ignored
    BY <1>3 DEF ArtworkInput, Handled
  <2>2. PICK e : e = Announcement("ArtworkChanged", [item |-> NoMedia, art |-> ms_page.item])
    OBVIOUS
  <2>3. /\ e \in Announced /\ e.kind = "ArtworkChanged"
        /\ e.about = [item |-> NoMedia, art |-> ms_page.item]
    BY <1>t, <2>2 DEF Announcement, Announced, SessionKinds, Shown, SessionTyped
  <2>4. Collect(<<e>>) /\ ms_page' = [ms_page EXCEPT !.art = ms_page.item]
    BY <1>3, <2>2 DEF ArtworkInput
  <2>5. ms_page' = Content(ms_page, e) /\ ms_page' \in Shown
    BY <1>t, <2>3, <2>4 DEF Content, SessionTyped, Shown
  <2>6. <<e>> \in Seq(Announced) /\ Len(<<e>>) = 1 /\ <<e>>[1] = e
    BY <2>3
  <2>7. Kinds(<<e>>) \cap Sure = {}
    BY <2>3, KindsOfOne DEF Sure, Transports, TerminalKinds
  <2>8. Announces(<<e>>)
    BY <2>5, <2>6 DEF Announces
  <2> QED BY <2>1, <2>4, <2>5, <2>6, <2>7, <2>8, CollectKeeps, Zenon
<1> QED BY <1>1, <1>2, <1>3
-----------------------------------------------------------------------------
(* The batch is announced *)

LEMMA QueueFacts ==
  /\ \A S : \A q \in Seq(S) : q # <<>> =>
       /\ Head(q) \in S /\ Head(q) = q[1] /\ Tail(q) \in Seq(S)
       /\ Len(q) \in Nat \ {0} /\ DOMAIN q = 1..Len(q)
       /\ DOMAIN Tail(q) = 1 .. Len(q) - 1 /\ Len(Tail(q)) = Len(q) - 1
       /\ \A n \in 1 .. Len(q) - 1 : Tail(q)[n] = q[n + 1]
  /\ \A S : \A q \in Seq(S), e \in S :
       /\ Append(q, e) \in Seq(S) /\ Len(Append(q, e)) = Len(q) + 1 /\ Len(q) \in Nat
       /\ DOMAIN q = 1..Len(q) /\ DOMAIN Append(q, e) = 1 .. Len(q) + 1
       /\ \A n \in 1..Len(q) : Append(q, e)[n] = q[n]
       /\ Append(q, e)[Len(q) + 1] = e
OBVIOUS

(* Kinds, and what is last of its kind, as a queue loses its head... *)
LEMMA KindsOfTail ==
  ASSUME NEW S, NEW q \in Seq(S), q # <<>>, NEW kinds
  PROVE  /\ Kinds(q) = Kinds(Tail(q)) \union {Head(q).kind}
         /\ Kinds(Tail(q)) \cap kinds = {} => NoneAfter(q, 1, kinds)
         /\ \A n \in DOMAIN Tail(q) : /\ n + 1 \in DOMAIN q /\ Tail(q)[n] = q[n + 1]
                                      /\ NoneAfter(Tail(q), n, kinds) => NoneAfter(q, n + 1, kinds)
<1>1. /\ Head(q) = q[1] /\ Len(q) \in Nat \ {0} /\ DOMAIN q = 1..Len(q)
      /\ DOMAIN Tail(q) = 1 .. Len(q) - 1
      /\ \A n \in 1 .. Len(q) - 1 : Tail(q)[n] = q[n + 1]
  BY QueueFacts
<1> PICK t : t = Tail(q)
  OBVIOUS
<1>2. PICK l \in Nat : l = Len(q) /\ l # 0
  BY <1>1
<1>3. /\ DOMAIN q = 1..l /\ DOMAIN t = 1 .. l - 1 /\ \A n \in 1 .. l - 1 : t[n] = q[n + 1]
  BY <1>1, <1>2
<1>4. \A k \in 2..l : k - 1 \in DOMAIN t /\ t[k - 1] = q[k] /\ k \in DOMAIN q
  <2> SUFFICES ASSUME NEW k \in 2..l PROVE k - 1 \in DOMAIN t /\ t[k - 1] = q[k] /\ k \in DOMAIN q
    OBVIOUS
  <2>1. k - 1 \in 1 .. l - 1 /\ (k - 1) + 1 = k /\ k \in 1..l
    BY <1>2
  <2> QED BY <1>3, <2>1
<1>5. \A n \in DOMAIN t : n + 1 \in DOMAIN q /\ t[n] = q[n + 1]
  BY <1>3
<1>6. \A k \in DOMAIN q : k = 1 \/ k \in 2..l
  BY <1>3
<1>7. 1 \in DOMAIN q
  BY <1>2, <1>3
<1>8. Kinds(q) = Kinds(t) \union {q[1].kind}
  <2>1. \A k \in 2..l : q[k].kind \in Kinds(t)
    BY <1>4 DEF Kinds
  <2>2. Kinds(q) \subseteq Kinds(t) \union {q[1].kind}
    BY <1>6, <2>1 DEF Kinds
  <2>3. Kinds(t) \subseteq Kinds(q)
    BY <1>5 DEF Kinds
  <2>4. q[1].kind \in Kinds(q)
    BY <1>7 DEF Kinds
  <2> QED BY <2>2, <2>3, <2>4
<1>9. ASSUME Kinds(t) \cap kinds = {} PROVE NoneAfter(q, 1, kinds)
  <2>1. \A k \in DOMAIN q : k > 1 => k \in 2..l
    BY <1>6
  <2>2. \A k \in 2..l : q[k].kind \in Kinds(t)
    BY <1>4 DEF Kinds
  <2> QED BY <1>9, <2>1, <2>2 DEF NoneAfter
<1>10. ASSUME NEW n \in DOMAIN t, NoneAfter(t, n, kinds)
       PROVE  NoneAfter(q, n + 1, kinds)
  <2>1. ASSUME NEW k \in DOMAIN q, k > n + 1 PROVE q[k].kind \notin kinds
    <3>1. n \in 1 .. l - 1 /\ k \in 1..l
      BY <1>3, <1>10
    <3>2. k \in 2..l /\ k - 1 > n
      BY <2>1, <3>1
    <3> QED BY <1>4, <1>10, <3>2 DEF NoneAfter
  <2> QED BY <2>1 DEF NoneAfter
<1> QED BY <1>1, <1>5, <1>8, <1>9, <1>10

(* ...and as one gets one more. *)
LEMMA KindsOfQueue ==
  ASSUME NEW S, NEW q \in Seq(S), NEW e \in S, NEW kinds
  PROVE  /\ Kinds(Append(q, e)) = Kinds(q) \union {e.kind}
         /\ \A n \in DOMAIN Append(q, e) :
              \/ n = Len(q) + 1 /\ Append(q, e)[n] = e
              \/ /\ n \in DOMAIN q /\ Append(q, e)[n] = q[n]
                 /\ NoneAfter(Append(q, e), n, kinds) =>
                      e.kind \notin kinds /\ NoneAfter(q, n, kinds)
<1>1. /\ Len(q) \in Nat /\ DOMAIN q = 1..Len(q) /\ DOMAIN Append(q, e) = 1 .. Len(q) + 1
      /\ \A n \in 1..Len(q) : Append(q, e)[n] = q[n]
      /\ Append(q, e)[Len(q) + 1] = e
  BY QueueFacts
<1> PICK r : r = Append(q, e)
  OBVIOUS
<1>2. PICK l \in Nat : l = Len(q)
  BY <1>1
<1>3. /\ DOMAIN q = 1..l /\ DOMAIN r = 1 .. l + 1
      /\ \A n \in 1..l : r[n] = q[n]
      /\ r[l + 1] = e
  BY <1>1, <1>2
<1>4. \A n \in DOMAIN q : n \in DOMAIN r /\ r[n] = q[n]
  BY <1>3
<1>5. l + 1 \in DOMAIN r /\ \A n \in DOMAIN r : n = l + 1 \/ n \in DOMAIN q
  BY <1>3
<1>6. Kinds(r) = Kinds(q) \union {e.kind}
  BY <1>3, <1>4, <1>5 DEF Kinds
<1>7. ASSUME NEW n \in DOMAIN q, NoneAfter(r, n, kinds)
      PROVE  e.kind \notin kinds /\ NoneAfter(q, n, kinds)
  <2>1. l + 1 > n
    BY <1>3
  <2> QED BY <1>3, <1>4, <1>5, <1>7, <2>1 DEF NoneAfter
<1>8. \A n \in DOMAIN r :
        \/ n = l + 1 /\ r[n] = e
        \/ /\ n \in DOMAIN q /\ r[n] = q[n]
           /\ NoneAfter(r, n, kinds) => e.kind \notin kinds /\ NoneAfter(q, n, kinds)
  BY <1>3, <1>4, <1>5, <1>7
<1> QED BY <1>2, <1>6, <1>8

LEMMA BatchDoneKeeps == ASSUME SessionInv, BatchDone PROVE SessionInv'
<1>1. /\ UNCHANGED <<transport, gates, window, seeking, buffering, position_us, scalar,
                     end_eaten, ms_api, ms_left, ms_page, ms_batch, ms_queue, ms_held, ms_os,
                     ms_lost>>
      /\ pending_actions' = <<>> /\ emitted' = <<>> /\ ms_announcing' = TRUE /\ ms_batch # <<>>
  BY DEF BatchDone, msinput, msconsumer
<1>2. IInv'
  <2>1. /\ emitted' \in Seq(Event) /\ pending_actions' \in Seq({ApplyTracks})
        /\ Len(pending_actions') <= MaxActions
    BY <1>1, MaxActionsAssumption
  <2> QED BY <1>1, <2>1 DEF SessionInv, IInv, TypeOK, transport, gates, window, StoppedIsClean,
       IntentMatchesPhase, PromotionNotMissed, BufferingIsExact,
       VariantOfRememberedItem, IsActivePhase
<1>3. SessionTyped'
  BY <1>1 DEF SessionInv, SessionTyped
<1>4. SnapshotNow' = SnapshotNow /\ ShownStatus' = ShownStatus /\ UNCHANGED phase
  BY <1>1 DEF SnapshotNow, ShownStatus, transport
<1>5. MprisFollows' /\ HarnessFollows'
  BY <1>1, <1>4 DEF SessionInv, MprisFollows, HarnessFollows
<1>6. ShowsTheHeld' /\ ContentFollows'
  BY <1>1 DEF SessionInv, ShowsTheHeld, ContentFollows
<1> QED BY <1>2, <1>3, <1>5, <1>6 DEF SessionInv

(* The machine does not move while the batch is told and consumed. *)
LEMMA MachineRests ==
  ASSUME SessionInv, UNCHANGED <<vars, ms_api>>
  PROVE  /\ IInv' /\ UNCHANGED <<phase, seeking, buffering, end_eaten>>
         /\ SnapshotNow' = SnapshotNow /\ ShownStatus' = ShownStatus /\ SnapshotNow \in Snapshots
<1>1. UNCHANGED <<phase, seeking, buffering, end_eaten, transport, gates, window, position_us,
                  scalar, pending_actions, emitted>>
  BY DEF vars, transport
<1>2. IInv'
  BY <1>1 DEF SessionInv, IInv, TypeOK, transport, gates, window, StoppedIsClean,
       IntentMatchesPhase, PromotionNotMissed, BufferingIsExact,
       VariantOfRememberedItem, IsActivePhase
<1>3. SnapshotNow \in Snapshots
  BY DEF SessionInv, IInv, TypeOK, SnapshotNow, Snapshots
<1>4. SnapshotNow' = SnapshotNow /\ ShownStatus' = ShownStatus
  BY <1>1 DEF SnapshotNow, ShownStatus
<1> QED BY <1>1, <1>2, <1>3, <1>4

LEMMA AnnounceKeeps == ASSUME SessionInv, Announce PROVE SessionInv'
<1> PICK ev : ev = [kind |-> Head(ms_batch).kind, about |-> Head(ms_batch).about,
                    snapshot |-> SnapshotNow]
  OBVIOUS
<1> PICK b, q, b2 : b = ms_batch /\ q = ms_queue /\ b2 = ms_batch'
  OBVIOUS
<1>t. SessionTyped
  BY DEF SessionInv
<1>1. /\ UNCHANGED <<vars, ms_api, ms_left, ms_page, ms_held, ms_os>>
      /\ EventSink(ev) /\ ms_batch' = Tail(ms_batch)
      /\ ms_announcing' = (Tail(ms_batch) # <<>>) /\ ms_announcing
  BY DEF Announce, msinput, msconsumer
<1>2. /\ IInv' /\ UNCHANGED <<phase, seeking, buffering, end_eaten>>
      /\ SnapshotNow' = SnapshotNow /\ ShownStatus' = ShownStatus /\ SnapshotNow \in Snapshots
  BY <1>1, MachineRests
<1>3. /\ b \in Seq(Announced) /\ b # <<>> /\ b2 = Tail(b)
      /\ Head(b) \in Announced /\ Head(b) = b[1] /\ b2 \in Seq(Announced)
      /\ ev \in Queued /\ ev.kind = Head(b).kind /\ ev.about = Head(b).about
      /\ ev.snapshot = SnapshotNow
  <2>1. b \in Seq(Announced) /\ b # <<>> /\ b2 = Tail(b)
    BY <1>t, <1>1 DEF SessionTyped
  <2>2. Head(b) \in Announced /\ Head(b) = b[1] /\ b2 \in Seq(Announced)
    BY <2>1, QueueFacts
  <2>3. /\ ev \in Queued /\ ev.kind = Head(b).kind /\ ev.about = Head(b).about
        /\ ev.snapshot = SnapshotNow
    BY <1>2, <2>2 DEF Queued, Announced
  <2> QED BY <2>1, <2>2, <2>3
<1>4. /\ \A kinds : Kinds(b) = Kinds(b2) \union {ev.kind}
      /\ \A kinds : Kinds(b2) \cap kinds = {} => NoneAfter(b, 1, kinds)
      /\ \A kinds : \A n \in DOMAIN b2 :
           /\ n + 1 \in DOMAIN b /\ b2[n] = b[n + 1]
           /\ NoneAfter(b2, n, kinds) => NoneAfter(b, n + 1, kinds)
  BY <1>3, KindsOfTail
<1>5. 1 \in DOMAIN b /\ b[1].kind = ev.kind
  <2>1. Len(b) \in Nat \ {0} /\ DOMAIN b = 1..Len(b)
    BY <1>3, QueueFacts
  <2> QED BY <1>3, <2>1
<1>q. q \in Seq(Queued)
  BY <1>t DEF SessionTyped
<1>6. /\ \A kinds : Kinds(Append(q, ev)) = Kinds(q) \union {ev.kind}
      /\ \A kinds : \A n \in DOMAIN Append(q, ev) :
           \/ n = Len(q) + 1 /\ Append(q, ev)[n] = ev
           \/ /\ n \in DOMAIN q /\ Append(q, ev)[n] = q[n]
              /\ NoneAfter(Append(q, ev), n, kinds) =>
                   ev.kind \notin kinds /\ NoneAfter(q, n, kinds)
  BY <1>3, <1>q, KindsOfQueue
<1>7. \/ /\ ms_api = "mpris" \/ Len(q) < QueueCap
         /\ ms_queue' = Append(q, ev) /\ ms_lost' = (ms_lost /\ ev.kind \notin Transports)
      \/ /\ ms_api # "mpris"
         /\ ms_queue' = q /\ ms_lost' = (ms_lost \/ ev.kind \in Transports)
  BY <1>1 DEF EventSink
<1>8. SessionTyped'
  <2>1. ms_lost' \in BOOLEAN
    BY <1>7
  <2>2. ms_queue' \in Seq(Queued) /\ (ms_api # "mpris" => Len(ms_queue') <= QueueCap)
    <3>1. Append(q, ev) \in Seq(Queued) /\ Len(Append(q, ev)) = Len(q) + 1 /\ Len(q) \in Nat
      BY <1>3, <1>q, QueueFacts
    <3>2. ms_api # "mpris" => Len(q) <= QueueCap
      BY <1>t DEF SessionTyped
    <3> QED BY <1>7, <1>q, <3>1, <3>2, QueueCapAssumption
  <2>3. ms_announcing' \in BOOLEAN /\ (ms_announcing' => ms_batch' # <<>>)
    BY <1>1
  <2>4. ms_batch' \in Seq(Announced)
    BY <1>3
  <2> QED BY <1>t, <1>1, <2>1, <2>2, <2>3, <2>4 DEF SessionTyped
<1>9. MprisFollows'
  <2> SUFFICES ASSUME ms_api = "mpris", ~end_eaten, Kinds(b2) \cap Sure = {}
               PROVE  /\ \A n \in DOMAIN Append(q, ev) :
                           NoneAfter(Append(q, ev), n, Sure) =>
                             Append(q, ev)[n].snapshot = SnapshotNow
                      /\ Kinds(Append(q, ev)) \cap Sure = {} =>
                           ms_os.status = StatusFor(phase) /\ ms_os.rolling = Rolling(SnapshotNow)
    BY <1>1, <1>2, <1>7 DEF MprisFollows
  <2>1. ev.kind \notin Sure =>
          /\ \A n \in DOMAIN q : NoneAfter(q, n, Sure) => q[n].snapshot = SnapshotNow
          /\ Kinds(q) \cap Sure = {} =>
               ms_os.status = StatusFor(phase) /\ ms_os.rolling = Rolling(SnapshotNow)
    BY <1>4 DEF SessionInv, MprisFollows
  <2>2. Kinds(Append(q, ev)) = Kinds(q) \union {ev.kind}
    BY <1>6
  <2>3. ASSUME NEW n \in DOMAIN Append(q, ev), NoneAfter(Append(q, ev), n, Sure)
        PROVE  Append(q, ev)[n].snapshot = SnapshotNow
    BY <1>3, <1>6, <2>1, <2>3
  <2> QED BY <2>1, <2>2, <2>3
<1>10. HarnessFollows'
  <2> SUFFICES ASSUME ms_api # "mpris", ~end_eaten
               PROVE  /\ \A n \in DOMAIN b2 :
                           IsLastTransport(b2, n) => MapKindToPhase(b2[n].kind) = ShownStatus
                      /\ Kinds(b2) \cap Transports = {} /\ ~ms_lost' =>
                           /\ \A n \in DOMAIN ms_queue' : IsLastTransport(ms_queue', n) =>
                                MapKindToPhase(ms_queue'[n].kind) = ShownStatus
                           /\ Kinds(ms_queue') \cap Transports = {} => ms_os.status = ShownStatus
    BY <1>1, <1>2 DEF HarnessFollows
  <2>1. /\ \A n \in DOMAIN b :
             IsLastTransport(b, n) => MapKindToPhase(b[n].kind) = ShownStatus
        /\ Kinds(b) \cap Transports = {} /\ ~ms_lost =>
             /\ \A n \in DOMAIN q : IsLastTransport(q, n) =>
                  MapKindToPhase(q[n].kind) = ShownStatus
             /\ Kinds(q) \cap Transports = {} => ms_os.status = ShownStatus
    BY DEF SessionInv, HarnessFollows
  <2>2. ASSUME NEW n \in DOMAIN b2, IsLastTransport(b2, n)
        PROVE  MapKindToPhase(b2[n].kind) = ShownStatus
    <3>1. /\ n + 1 \in DOMAIN b /\ b2[n] = b[n + 1]
          /\ NoneAfter(b, n + 1, Transports)
      BY <1>4, <2>2 DEF IsLastTransport
    <3> QED BY <2>1, <2>2, <3>1 DEF IsLastTransport
  <2>3. ASSUME Kinds(b2) \cap Transports = {}, ~ms_lost'
        PROVE  /\ \A n \in DOMAIN ms_queue' : IsLastTransport(ms_queue', n) =>
                    MapKindToPhase(ms_queue'[n].kind) = ShownStatus
               /\ Kinds(ms_queue') \cap Transports = {} => ms_os.status = ShownStatus
    <3>1. ev.kind \in Transports => MapKindToPhase(ev.kind) = ShownStatus
      BY <1>4, <1>5, <2>1, <2>3 DEF IsLastTransport
    <3>2. CASE ev.kind \in Transports
      <4>1. ms_queue' = Append(q, ev)
        BY <1>7, <2>3, <3>2
      <4>2. Kinds(ms_queue') \cap Transports # {}
        BY <1>6, <3>2, <4>1
      <4>3. \A n \in DOMAIN ms_queue' : IsLastTransport(ms_queue', n) => ms_queue'[n] = ev
        BY <1>6, <3>2, <4>1 DEF IsLastTransport
      <4> QED BY <3>1, <3>2, <4>2, <4>3
    <3>3. CASE ev.kind \notin Transports
      <4>1. Kinds(b) \cap Transports = {} /\ ~ms_lost
        BY <1>4, <1>7, <2>3, <3>3
      <4>2. CASE ms_queue' = q
        BY <2>1, <4>1, <4>2
      <4>3. CASE ms_queue' = Append(q, ev)
        <5>1. \A n \in DOMAIN ms_queue' : IsLastTransport(ms_queue', n) =>
                n \in DOMAIN q /\ ms_queue'[n] = q[n] /\ IsLastTransport(q, n)
          BY <1>6, <3>3, <4>3 DEF IsLastTransport
        <5>2. Kinds(q) \subseteq Kinds(ms_queue')
          BY <1>6, <4>3
        <5> QED BY <2>1, <4>1, <5>1, <5>2
      <4> QED BY <1>7, <4>2, <4>3
    <3> QED BY <3>2, <3>3
  <2> QED BY <2>2, <2>3
<1>11. ShowsTheHeld'
  BY <1>1 DEF SessionInv, ShowsTheHeld
<1>12. ContentFollows'
  <2> SUFFICES ASSUME ms_api = "mpris"
               PROVE  \E tr : Leads(tr, ms_held, Append(q, ev), b2, ms_page)
    BY <1>1, <1>7 DEF ContentFollows
  <2>1. PICK tr : Leads(tr, ms_held, q, b, ms_page)
    BY DEF SessionInv, ContentFollows
  <2>2. Leads(tr, ms_held, Append(q, ev), Tail(b), ms_page)
    BY <1>3, <1>q, <2>1, LeadsAnnounced
  <2> QED BY <1>3, <2>2
<1> QED BY <1>2, <1>8, <1>9, <1>10, <1>11, <1>12 DEF SessionInv
-----------------------------------------------------------------------------
(* The consumer tells the OS *)
OsShown == [status : Statuses, rolling : BOOLEAN, shown : Shown]

MprisTold(ev) ==
  /\ ms_held' = Content(ms_held, ev) /\ ms_held' \in Shown /\ ms_os' \in OsShown
  /\ ms_os'.shown = IF ms_os'.status = "Stopped" THEN NoItemShown ELSE ms_held'
  /\ \/ /\ ms_os'.status = StatusFor(ev.snapshot.phase)
        /\ ms_os'.rolling = Rolling(ev.snapshot)
     \/ ev.kind \notin Sure /\ UNCHANGED ms_os

HarnessTold(ev) ==
  /\ ms_held' \in Shown /\ ms_os' \in OsShown
  /\ ms_os'.status = IF ev.kind \in Transports THEN MapKindToPhase(ev.kind) ELSE ms_os.status
  /\ ms_api = "smtc" /\ ms_os'.status = "Stopped" => ms_os'.shown.item = NoMedia

LEMMA MprisTells ==
  ASSUME NEW ev \in Queued, ms_api = "mpris", ms_held \in Shown, ms_os \in OsShown,
         ShowsTheHeld, MprisHandle(ev)
  PROVE  MprisTold(ev)
<1>1. PICK c : c = Content(ms_held, ev)
  OBVIOUS
<1>2. ev.about \in Shown /\ ev.snapshot \in Snapshots
  BY DEF Queued
<1>3. c \in Shown
  <2>1. ev.about.art \in MediaItems \union {NoMedia}
    BY <1>2 DEF Shown
  <2>2. [ms_held EXCEPT !.art = ev.about.art] \in Shown
    BY <2>1 DEF Shown
  <2> QED BY <1>1, <1>2, <2>2 DEF Content
<1>4. MprisContent(ev) = c
  BY <1>1 DEF MprisContent, Content
<1>5. ms_held' = c
  BY <1>4 DEF MprisHandle
<1>6. CASE Recomputes(ev.kind) /\ ~(ev.kind = "MetadataChanged" /\ ev.about.item = ms_held.item)
  <2>1. ms_os' = Project(ev.snapshot, c)
    BY <1>4, <1>6 DEF MprisHandle
  <2>2. ev.snapshot.phase \in Phases
    BY <1>2 DEF Snapshots
  <2>3. PICK st, ro, sh : /\ st = StatusFor(ev.snapshot.phase) /\ ro = Rolling(ev.snapshot)
                          /\ sh = IF ev.snapshot.phase = "Stopped" THEN NoItemShown ELSE c
    OBVIOUS
  <2>4. ms_os' = [status |-> st, rolling |-> ro, shown |-> sh]
    BY <2>1, <2>3 DEF Project
  <2>5. st \in Statuses /\ (st = "Stopped" <=> ev.snapshot.phase = "Stopped")
    BY <2>2, <2>3 DEF StatusFor, Statuses, Phases
  <2>6. ro \in BOOLEAN
    BY <2>3 DEF Rolling
  <2>7. sh \in Shown
    BY <1>3, <2>3 DEF NoItemShown, Shown
  <2>8. ms_os' \in OsShown /\ ms_os'.status = st /\ ms_os'.rolling = ro /\ ms_os'.shown = sh
    BY <2>4, <2>5, <2>6, <2>7 DEF OsShown
  <2> QED BY <1>1, <1>3, <1>5, <2>3, <2>5, <2>8 DEF MprisTold
<1>7. CASE ~Recomputes(ev.kind) \/ (ev.kind = "MetadataChanged" /\ ev.about.item = ms_held.item)
  <2>1. ms_os' = ms_os
    BY <1>7 DEF MprisHandle
  <2>2. ev.kind \notin Sure
    BY <1>7 DEF Recomputes, Sure, Transports, TerminalKinds
  <2>3. c = ms_held
    BY <1>1, <1>7 DEF Content, Recomputes
  <2>4. ms_os.shown = IF ms_os.status = "Stopped" THEN NoItemShown ELSE ms_held
    BY DEF ShowsTheHeld
  <2> QED BY <1>1, <1>3, <1>5, <2>1, <2>2, <2>3, <2>4 DEF MprisTold
<1> QED BY <1>6, <1>7

LEMMA HarnessTells ==
  ASSUME NEW ev \in Queued, ms_held \in Shown, ms_os \in OsShown, ShowsTheHeld,
         \/ ms_api = "smtc" /\ SmtcDeliver(ev)
         \/ ms_api = "nowplaying" /\ NowPlayingDeliver(ev)
  PROVE  HarnessTold(ev)
<1>1. /\ ev.about \in Shown /\ ev.about.item \in MediaItems \union {NoMedia}
      /\ ev.about.art \in MediaItems \union {NoMedia} /\ NoItemShown \in Shown
  BY DEF Queued, Shown, NoItemShown
<1>2. PICK st : st = MapKindToPhase(ev.kind)
  OBVIOUS
<1>3. /\ st \in Statuses /\ (ev.kind \in TerminalKinds => st = "Stopped")
      /\ (ev.kind \in Transports \ TerminalKinds => st # "Stopped")
  BY <1>2 DEF MapKindToPhase, Statuses, Transports, TerminalKinds
<1>4. /\ [ms_held EXCEPT !.item = ev.about.item] \in Shown
      /\ [ms_held EXCEPT !.art = ev.about.art] \in Shown
  BY <1>1 DEF Shown
<1>5. \A sh \in Shown :
        /\ [ms_os EXCEPT !.shown = sh] \in OsShown
        /\ [ms_os EXCEPT !.shown = sh].status = ms_os.status
        /\ [ms_os EXCEPT !.status = st, !.shown = sh] \in OsShown
        /\ [ms_os EXCEPT !.status = st, !.shown = sh].status = st
        /\ [ms_os EXCEPT !.status = st, !.shown = sh].shown = sh
  BY <1>3 DEF OsShown
<1>6. /\ [ms_os EXCEPT !.status = st] \in OsShown
      /\ [ms_os EXCEPT !.status = st].status = st
  BY <1>3 DEF OsShown
<1>7. PICK pic : pic = [ms_os EXCEPT !.shown.art = ev.about.art]
  OBVIOUS
<1>8. pic \in OsShown /\ pic.status = ms_os.status /\ pic.shown.item = ms_os.shown.item
  BY <1>1, <1>7 DEF OsShown, Shown
<1>9. ms_api = "smtc" /\ ms_os.status = "Stopped" => ms_os.shown.item = NoMedia
  BY DEF ShowsTheHeld
<1>10. NoItemShown.item = NoMedia
  BY DEF NoItemShown
<1>11. \A h \in Shown, o \in OsShown :
         /\ ms_held' = h /\ ms_os' = o
         /\ o.status = IF ev.kind \in Transports THEN st ELSE ms_os.status
         /\ ms_api = "smtc" /\ o.status = "Stopped" => o.shown.item = NoMedia
         => HarnessTold(ev)
  BY <1>2 DEF HarnessTold
<1>12. CASE ms_api = "smtc" /\ SmtcDeliver(ev)
  <2>1. CASE ev.kind = "MetadataChanged"
    <3>1. ms_held' = [ms_held EXCEPT !.item = ev.about.item] /\ ms_os' = ms_os
      BY <1>12, <2>1 DEF SmtcDeliver, TerminalKinds
    <3>2. ev.kind \notin Transports
      BY <2>1 DEF Transports, TerminalKinds
    <3> QED BY <1>4, <1>9, <1>11, <3>1, <3>2
  <2>2. CASE ev.kind = "ArtworkChanged"
    <3>1. ms_held' = [ms_held EXCEPT !.art = ev.about.art] /\ ms_os' = pic
      BY <1>7, <1>12, <2>2 DEF SmtcDeliver, TerminalKinds
    <3>2. ev.kind \notin Transports
      BY <2>2 DEF Transports, TerminalKinds
    <3> QED BY <1>4, <1>8, <1>9, <1>11, <3>1, <3>2
  <2>3. CASE ev.kind = "Started"
    <3>1. ms_held' = ms_held /\ ms_os' = [ms_os EXCEPT !.status = st, !.shown = ms_held]
      BY <1>2, <1>12, <2>3 DEF SmtcDeliver, TerminalKinds
    <3>2. ev.kind \in Transports /\ st # "Stopped"
      BY <1>3, <2>3 DEF Transports, TerminalKinds
    <3>3. ms_os' \in OsShown /\ ms_os'.status = st
      BY <1>5, <3>1
    <3> QED BY <1>11, <3>1, <3>2, <3>3
  <2>4. CASE ev.kind \in {"Paused", "TrackLoaded"}
    <3>1. ms_held' = ms_held /\ ms_os' = [ms_os EXCEPT !.status = st]
      BY <1>2, <1>12, <2>4 DEF SmtcDeliver, TerminalKinds
    <3>2. ev.kind \in Transports /\ st # "Stopped"
      BY <1>3, <2>4 DEF Transports, TerminalKinds
    <3>3. ms_os' \in OsShown /\ ms_os'.status = st
      BY <1>6, <3>1
    <3> QED BY <1>11, <3>1, <3>2, <3>3
  <2>5. CASE ev.kind \in TerminalKinds
    <3>1. /\ ms_held' = NoItemShown
          /\ ms_os' = [ms_os EXCEPT !.status = st, !.shown = NoItemShown]
      BY <1>2, <1>12, <2>5 DEF SmtcDeliver, TerminalKinds
    <3>2. ev.kind \in Transports
      BY <2>5 DEF Transports
    <3>3. ms_os' \in OsShown /\ ms_os'.status = st /\ ms_os'.shown = NoItemShown
      BY <1>1, <1>5, <3>1
    <3> QED BY <1>1, <1>10, <1>11, <3>1, <3>2, <3>3
  <2>6. CASE ev.kind \notin Transports \union {"MetadataChanged", "ArtworkChanged"}
    <3>1. ms_held' = ms_held /\ ms_os' = ms_os
      BY <1>12, <2>6 DEF SmtcDeliver, Transports, TerminalKinds, msconsumer
    <3> QED BY <1>9, <1>11, <2>6, <3>1
  <2> QED BY <2>1, <2>2, <2>3, <2>4, <2>5, <2>6 DEF Transports
<1>13. CASE ms_api = "nowplaying" /\ NowPlayingDeliver(ev)
  <2>1. CASE ev.kind = "MetadataChanged" /\ ev.about.item # ms_held.item
    <3>1. ms_held' = ev.about /\ ms_os' = [ms_os EXCEPT !.shown = ev.about]
      BY <1>13, <2>1 DEF NowPlayingDeliver, Transports, TerminalKinds
    <3>2. ev.kind \notin Transports
      BY <2>1 DEF Transports, TerminalKinds
    <3>3. ms_os' \in OsShown /\ ms_os'.status = ms_os.status
      BY <1>1, <1>5, <3>1
    <3> QED BY <1>1, <1>11, <1>13, <3>1, <3>2, <3>3
  <2>2. CASE ev.kind = "ArtworkChanged"
    <3>1. /\ ms_held' = [ms_held EXCEPT !.art = ev.about.art]
          /\ ms_os' = ms_os \/ ms_os' = pic
      BY <1>7, <1>13, <2>2 DEF NowPlayingDeliver, Transports, TerminalKinds
    <3>2. ev.kind \notin Transports
      BY <2>2 DEF Transports, TerminalKinds
    <3> QED BY <1>4, <1>8, <1>11, <1>13, <3>1, <3>2
  <2>3. CASE ev.kind \in TerminalKinds
    <3>1. /\ ms_held' = NoItemShown
          /\ ms_os' = [ms_os EXCEPT !.status = st, !.shown = NoItemShown]
      BY <1>2, <1>13, <2>3 DEF NowPlayingDeliver, Transports, TerminalKinds
    <3>2. ev.kind \in Transports
      BY <2>3 DEF Transports
    <3>3. ms_os' \in OsShown /\ ms_os'.status = st
      BY <1>1, <1>5, <3>1
    <3> QED BY <1>1, <1>11, <1>13, <3>1, <3>2, <3>3
  <2>4. CASE ev.kind \in Transports \ TerminalKinds
    <3>1. ms_held' = ms_held /\ ms_os' = [ms_os EXCEPT !.status = st]
      BY <1>2, <1>13, <2>4 DEF NowPlayingDeliver, Transports, TerminalKinds
    <3>2. ms_os' \in OsShown /\ ms_os'.status = st
      BY <1>6, <3>1
    <3> QED BY <1>11, <1>13, <2>4, <3>1, <3>2
  <2>5. CASE /\ ev.kind \notin Transports \union {"ArtworkChanged"}
             /\ ~(ev.kind = "MetadataChanged" /\ ev.about.item # ms_held.item)
    <3>1. ms_held' = ms_held /\ ms_os' = ms_os
      BY <1>13, <2>5 DEF NowPlayingDeliver, Transports, TerminalKinds, msconsumer
    <3> QED BY <1>11, <1>13, <2>5, <3>1
  <2> QED BY <2>1, <2>2, <2>3, <2>4, <2>5
<1> QED BY <1>12, <1>13

LEMMA ConsumeKeeps == ASSUME SessionInv, Consume PROVE SessionInv'
<1> PICK q, q2, ev : q = ms_queue /\ q2 = ms_queue' /\ ev = Head(ms_queue)
  OBVIOUS
<1>t. SessionTyped
  BY DEF SessionInv
<1>1. /\ UNCHANGED <<vars, ms_api, ms_left, ms_page, ms_batch, ms_announcing, ms_lost>>
      /\ q # <<>> /\ q2 = Tail(q)
      /\ \/ ms_api = "mpris" /\ MprisHandle(ev)
         \/ ms_api = "smtc" /\ SmtcDeliver(ev)
         \/ ms_api = "nowplaying" /\ NowPlayingDeliver(ev)
  BY DEF Consume, msinput, msworker
<1>2. /\ IInv' /\ UNCHANGED <<phase, seeking, buffering, end_eaten>>
      /\ SnapshotNow' = SnapshotNow /\ ShownStatus' = ShownStatus /\ SnapshotNow \in Snapshots
  BY <1>1, MachineRests
<1>3. /\ q \in Seq(Queued) /\ ev \in Queued /\ ev = q[1] /\ 1 \in DOMAIN q
      /\ q2 \in Seq(Queued) /\ Len(q2) = Len(q) - 1 /\ Len(q) \in Nat
  <2>1. q \in Seq(Queued)
    BY <1>t DEF SessionTyped
  <2> QED BY <1>1, <2>1, QueueFacts
<1>4. /\ Kinds(q) = Kinds(q2) \union {ev.kind}
      /\ \A kinds : Kinds(q2) \cap kinds = {} => NoneAfter(q, 1, kinds)
      /\ \A kinds : \A n \in DOMAIN q2 :
           /\ n + 1 \in DOMAIN q /\ q2[n] = q[n + 1]
           /\ NoneAfter(q2, n, kinds) => NoneAfter(q, n + 1, kinds)
  BY <1>1, <1>3, KindsOfTail
<1>5. ms_held \in Shown /\ ms_os \in OsShown /\ ShowsTheHeld
  BY <1>t DEF SessionInv, SessionTyped, OsShown
<1>6. \/ ms_api = "mpris" /\ MprisTold(ev)
      \/ ms_api # "mpris" /\ HarnessTold(ev)
  <2>1. CASE ms_api = "mpris" /\ MprisHandle(ev)
    BY <1>3, <1>5, <2>1, MprisTells
  <2>2. CASE \/ ms_api = "smtc" /\ SmtcDeliver(ev)
             \/ ms_api = "nowplaying" /\ NowPlayingDeliver(ev)
    BY <1>3, <1>5, <2>2, HarnessTells
  <2> QED BY <1>1, <2>1, <2>2
<1>7. SessionTyped'
  <2>1. ms_held' \in Shown /\ ms_os' \in OsShown
    BY <1>6 DEF MprisTold, HarnessTold
  <2>2. ms_api # "mpris" => Len(q2) <= QueueCap
    BY <1>t, <1>3, QueueCapAssumption DEF SessionTyped
  <2> QED BY <1>t, <1>1, <1>3, <2>1, <2>2 DEF SessionTyped, OsShown
<1>8. MprisFollows'
  <2> SUFFICES ASSUME ms_api = "mpris", ~end_eaten, Kinds(ms_batch) \cap Sure = {}
               PROVE  /\ \A n \in DOMAIN q2 :
                           NoneAfter(q2, n, Sure) => q2[n].snapshot = SnapshotNow
                      /\ Kinds(q2) \cap Sure = {} =>
                           ms_os'.status = StatusFor(phase) /\ ms_os'.rolling = Rolling(SnapshotNow)
    BY <1>1, <1>2 DEF MprisFollows
  <2>1. /\ \A n \in DOMAIN q : NoneAfter(q, n, Sure) => q[n].snapshot = SnapshotNow
        /\ Kinds(q) \cap Sure = {} =>
             ms_os.status = StatusFor(phase) /\ ms_os.rolling = Rolling(SnapshotNow)
    BY DEF SessionInv, MprisFollows
  <2>2. \A n \in DOMAIN q2 : NoneAfter(q2, n, Sure) => q2[n].snapshot = SnapshotNow
    BY <1>4, <2>1
  <2>3. ASSUME Kinds(q2) \cap Sure = {}
        PROVE  ms_os'.status = StatusFor(phase) /\ ms_os'.rolling = Rolling(SnapshotNow)
    <3>1. ev.snapshot = SnapshotNow
      BY <1>3, <1>4, <2>1, <2>3
    <3>2. SnapshotNow.phase = phase
      BY DEF SnapshotNow
    <3>3. CASE ms_os'.status = StatusFor(ev.snapshot.phase) /\ ms_os'.rolling = Rolling(ev.snapshot)
      BY <3>1, <3>2, <3>3
    <3>4. CASE ev.kind \notin Sure /\ ms_os' = ms_os
      BY <1>4, <2>1, <2>3, <3>4
    <3> QED BY <1>6, <3>3, <3>4 DEF MprisTold
  <2> QED BY <2>2, <2>3
<1>9. HarnessFollows'
  <2> SUFFICES ASSUME ms_api # "mpris", ~end_eaten
               PROVE  /\ \A n \in DOMAIN ms_batch :
                           IsLastTransport(ms_batch, n) =>
                             MapKindToPhase(ms_batch[n].kind) = ShownStatus
                      /\ Kinds(ms_batch) \cap Transports = {} /\ ~ms_lost =>
                           /\ \A n \in DOMAIN q2 : IsLastTransport(q2, n) =>
                                MapKindToPhase(q2[n].kind) = ShownStatus
                           /\ Kinds(q2) \cap Transports = {} => ms_os'.status = ShownStatus
    BY <1>1, <1>2 DEF HarnessFollows
  <2>1. /\ \A n \in DOMAIN ms_batch :
             IsLastTransport(ms_batch, n) => MapKindToPhase(ms_batch[n].kind) = ShownStatus
        /\ Kinds(ms_batch) \cap Transports = {} /\ ~ms_lost =>
             /\ \A n \in DOMAIN q : IsLastTransport(q, n) =>
                  MapKindToPhase(q[n].kind) = ShownStatus
             /\ Kinds(q) \cap Transports = {} => ms_os.status = ShownStatus
    BY DEF SessionInv, HarnessFollows
  <2>2. ASSUME Kinds(ms_batch) \cap Transports = {}, ~ms_lost
        PROVE  /\ \A n \in DOMAIN q2 : IsLastTransport(q2, n) =>
                    MapKindToPhase(q2[n].kind) = ShownStatus
               /\ Kinds(q2) \cap Transports = {} => ms_os'.status = ShownStatus
    <3>1. ASSUME NEW n \in DOMAIN q2, IsLastTransport(q2, n)
          PROVE  MapKindToPhase(q2[n].kind) = ShownStatus
      <4>1. n + 1 \in DOMAIN q /\ q2[n] = q[n + 1] /\ NoneAfter(q, n + 1, Transports)
        BY <1>4, <3>1 DEF IsLastTransport
      <4> QED BY <2>1, <2>2, <3>1, <4>1 DEF IsLastTransport
    <3>2. ASSUME Kinds(q2) \cap Transports = {} PROVE ms_os'.status = ShownStatus
      <4>1. CASE ev.kind \in Transports
        <5>1. IsLastTransport(q, 1)
          BY <1>3, <1>4, <3>2, <4>1 DEF IsLastTransport
        <5> QED BY <1>3, <1>6, <2>1, <2>2, <4>1, <5>1 DEF HarnessTold
      <4>2. CASE ev.kind \notin Transports
        BY <1>4, <1>6, <2>1, <2>2, <3>2, <4>2 DEF HarnessTold
      <4> QED BY <4>1, <4>2
    <3> QED BY <3>1, <3>2
  <2> QED BY <2>1, <2>2
<1>10. ShowsTheHeld'
  BY <1>1, <1>6 DEF MprisTold, HarnessTold, ShowsTheHeld
<1>11. ContentFollows'
  <2> SUFFICES ASSUME ms_api = "mpris"
               PROVE  \E tr : Leads(tr, ms_held', q2, ms_batch, ms_page)
    BY <1>1 DEF ContentFollows
  <2>1. PICK tr : Leads(tr, ms_held, q, ms_batch, ms_page)
    BY DEF SessionInv, ContentFollows
  <2>2. ms_batch \in Seq(Announced)
    BY <1>t DEF SessionTyped
  <2>3. \E tr2 : Leads(tr2, Content(ms_held, Head(q)), Tail(q), ms_batch, ms_page)
    BY <1>1, <1>3, <2>1, <2>2, LeadsConsumed
  <2>4. ms_held' = Content(ms_held, Head(q))
    BY <1>6 DEF MprisTold
  <2> QED BY <1>1, <2>3, <2>4
<1> QED BY <1>2, <1>7, <1>8, <1>9, <1>10, <1>11 DEF SessionInv

LEMMA SessionStep == ASSUME SessionInv, [SessionNext]_msvars PROVE SessionInv'
<1>1. CASE SessionNext
  BY <1>1, InputKeeps, BatchDoneKeeps, AnnounceKeeps, ConsumeKeeps DEF SessionNext
<1>2. CASE UNCHANGED msvars
  <2>1. UNCHANGED <<vars, ms_api, ms_left, ms_page, ms_batch, ms_announcing, ms_queue, ms_held,
                    ms_os, ms_lost>>
    BY <1>2 DEF msvars, msinput, msworker, msconsumer
  <2>2. /\ IInv' /\ UNCHANGED <<phase, seeking, buffering, end_eaten>>
        /\ SnapshotNow' = SnapshotNow /\ ShownStatus' = ShownStatus
    BY <2>1, MachineRests
  <2>3. SessionTyped'
    BY <2>1 DEF SessionInv, SessionTyped
  <2>4. MprisFollows' /\ HarnessFollows'
    BY <2>1, <2>2 DEF SessionInv, MprisFollows, HarnessFollows
  <2>5. ShowsTheHeld' /\ ContentFollows'
    BY <2>1 DEF SessionInv, ShowsTheHeld, ContentFollows
  <2> QED BY <2>2, <2>3, <2>4, <2>5 DEF SessionInv
<1> QED BY <1>1, <1>2

(* The session's inductive invariant holds throughout. *)
THEOREM SessionInvariance == SessionSpec => []SessionInv
<1> QED BY SessionInitInv, SessionStep, PTL DEF SessionSpec

(* The media session agrees with the player once it has caught up: the last *)
(* event that tells decided by its kind, or by the snapshot it carried,     *)
(* exactly what the state machine is in now (sink_core.rs and the sinks).   *)
THEOREM SessionFollows == SessionSpec => []SessionAgrees
<1>1. SessionInv => SessionAgrees
  <2> SUFFICES ASSUME SessionInv, ms_batch = <<>>, ms_queue = <<>>, ~ms_lost, ~end_eaten
               PROVE  /\ ms_os.status = ShownStatus
                      /\ ms_api = "mpris" =>
                           /\ ms_os.rolling = Rolling(SnapshotNow)
                           /\ phase # "Stopped" => ms_os.shown = ms_page
                      /\ phase = "Stopped" /\ ms_api # "nowplaying" =>
                           ms_os.shown.item = NoMedia
    BY DEF SessionAgrees, SessionSettled
  <2>1. Kinds(ms_batch) = {} /\ Kinds(ms_queue) = {} /\ Len(ms_queue) = 0 /\ Len(ms_batch) = 0
    BY KindsOfOne
  <2>2. ms_api \in Apis /\ phase \in Phases
    BY DEF SessionInv, SessionTyped, IInv, TypeOK
  <2>3. ms_os.status = ShownStatus
    <3>1. ms_api = "mpris" => ms_os.status = StatusFor(phase)
      BY <2>1 DEF SessionInv, MprisFollows
    <3>2. ms_api # "mpris" => ms_os.status = ShownStatus
      BY <2>1 DEF SessionInv, HarnessFollows
    <3> QED BY <3>1, <3>2 DEF ShownStatus
  <2>4. ShownStatus = "Stopped" <=> phase = "Stopped"
    BY <2>2 DEF ShownStatus, StatusFor, Phases
  <2>5. ms_api = "mpris" => ms_os.rolling = Rolling(SnapshotNow)
    BY <2>1 DEF SessionInv, MprisFollows
  <2>6. ms_api = "mpris" => ms_held = ms_page
    BY <2>1 DEF SessionInv, ContentFollows, Leads, Way
  <2>7. NoItemShown.item = NoMedia
    BY DEF NoItemShown
  <2>8. ShowsTheHeld
    BY DEF SessionInv
  <2> QED BY <2>2, <2>3, <2>4, <2>5, <2>6, <2>7, <2>8 DEF ShowsTheHeld, Apis
<1> QED BY <1>1, SessionInvariance, PTL
=============================================================================
