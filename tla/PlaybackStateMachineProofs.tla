--------------------- MODULE PlaybackStateMachineProofs ---------------------
(***************************************************************************)
(* Proofs about the playback state machine, for every set of items, every  *)
(* position bound and every set of scalar fields.                          *)
(*                                                                         *)
(* IInv is the conjunction of the type invariant with the five safety      *)
(* invariants.  None of the five is inductive alone: StoppedIsClean is     *)
(* what lets PromotionNotMissed and IntentMatchesPhase survive the         *)
(* handlers that are guarded by the phase only.                            *)
(***************************************************************************)
EXTENDS PlaybackStateMachine, TLAPS

IInv ==
  /\ TypeOK
  /\ StoppedIsClean
  /\ IntentMatchesPhase
  /\ PromotionNotMissed
  /\ BufferingIsExact
  /\ VariantOfRememberedItem

Safety == /\ StoppedIsClean /\ IntentMatchesPhase /\ PromotionNotMissed
          /\ BufferingIsExact /\ VariantOfRememberedItem

(* The events a handler can return are events. *)
LEMMA EventTyping ==
  ASSUME NEW kind \in EventKinds, NEW flag \in BOOLEAN
  PROVE  Ev(kind) \in Event /\ Flagged(kind, flag) \in Event
  BY DEF Ev, Flagged, Event

USE DEF EventKinds, TransportKinds

LEMMA InitIInv == Init => IInv
  <1> SUFFICES ASSUME Init PROVE IInv
    OBVIOUS
  <1>1. TypeOK
    <2>1. scalar \in [ScalarFields -> ScalarValues] /\ position_us \in Positions
      BY MaxPositionAssumption DEF Init, ScalarValues, Positions
    <2>2. /\ pending_actions \in Seq({ApplyTracks}) /\ emitted \in Seq(Event)
          /\ Len(pending_actions) <= MaxActions
      BY MaxActionsAssumption DEF Init
    <2>3. QED
      BY <2>1, <2>2 DEF Init, TypeOK, Presences, Phases, MediaTypes
  <1>2. Safety
    BY DEF Init, Safety, StoppedIsClean, IntentMatchesPhase,
           PromotionNotMissed, BufferingIsExact, VariantOfRememberedItem,
           IsActivePhase
  <1>3. QED
    BY <1>1, <1>2 DEF IInv, Safety

(* What a handler returns is a sequence of events. *)
LEMMA EmittedStep == TypeOK /\ [Next]_vars => emitted' \in Seq(Event)
  <1> SUFFICES ASSUME TypeOK, [Next]_vars PROVE emitted' \in Seq(Event)
    OBVIOUS
  <1> USE DEF StayInPhase, TransitionToPlaying
  <1>e. /\ <<>> \in Seq(Event)
        /\ \A k \in EventKinds, b \in BOOLEAN :
             /\ <<Ev(k)>> \in Seq(Event) /\ <<Flagged(k, b)>> \in Seq(Event)
    BY EventTyping
  <1>a. \A s \in Seq(Event), k \in EventKinds : Append(s, Ev(k)) \in Seq(Event)
    <2>1. \A s \in Seq(Event), e \in Event : Append(s, e) \in Seq(Event)
      OBVIOUS
    <2>2. \A k \in EventKinds : Ev(k) \in Event
      BY EventTyping
    <2>3. QED
      BY <2>1, <2>2
  <1>o. \A s, t \in Seq(Event) : s \o t \in Seq(Event)
    OBVIOUS
  <1>t. /\ seeking \in BOOLEAN /\ buffering \in BOOLEAN
        /\ emitted \in Seq(Event)
    BY DEF TypeOK
  <1>0. CASE Ignored
    BY <1>0, <1>e DEF Ignored
  <1>1. CASE OnFileLoaded
    BY <1>1, <1>e DEF OnFileLoaded
  <1>2. ASSUME NEW id \in Items \union {NoItem}, OnLoadStarting(id)
        PROVE emitted' \in Seq(Event)
    BY <1>2, <1>e DEF OnLoadStarting
  <1>3. ASSUME NEW reason \in EndReasons, OnEndFile(reason)
        PROVE emitted' \in Seq(Event)
    <2>1. IndicatorsCleared \in Seq(Event)
      BY <1>e, <1>o, <1>t DEF IndicatorsCleared
    <2>2. TerminalEvent(reason) \in Event
      BY EventTyping DEF TerminalEvent, EndReasons
    <2>3. QED
      BY <1>3, <2>1, <2>2 DEF OnEndFile, EatEndFile, Terminate
  <1>4. ASSUME NEW paused \in BOOLEAN, OnPauseChanged(paused)
        PROVE emitted' \in Seq(Event)
    BY <1>4, <1>0, <1>e, <1>a DEF OnPauseChanged, PauseWhileActive
  <1>5. ASSUME NEW on \in BOOLEAN, OnSeekingChanged(on)
        PROVE emitted' \in Seq(Event)
    BY <1>5, <1>0, <1>e DEF OnSeekingChanged
  <1>6. ASSUME NEW b \in BOOLEAN, ApplyBufferingChange(b)
        PROVE emitted' \in Seq(Event)
    BY <1>6, <1>e, <1>a DEF ApplyBufferingChange
  <1>7. ASSUME NEW pfc \in BOOLEAN, OnPausedForCache(pfc)
        PROVE emitted' \in Seq(Event)
    BY <1>7, <1>6, <1>0, <1>t DEF OnPausedForCache, TypeOK
  <1>8. ASSUME NEW idle \in BOOLEAN, OnCoreIdle(idle)
        PROVE emitted' \in Seq(Event)
    BY <1>8, <1>6, <1>0, <1>t DEF OnCoreIdle, TypeOK
  <1>9. ASSUME NEW p \in Positions, OnPosition(p)
        PROVE emitted' \in Seq(Event)
    <2>1. (IF seeking THEN <<Flagged("SeekingChanged", FALSE)>> ELSE <<>>)
            \in Seq(Event)
      BY <1>e
    <2>2. <<Ev("PositionChanged")>> \in Seq(Event)
      BY <1>e
    <2>3. QED
      BY <1>9, <2>1, <2>2, <1>o, <1>0 DEF OnPosition
  <1>10. ASSUME NEW ty \in MediaTypes, OnMediaType(ty)
         PROVE emitted' \in Seq(Event)
    BY <1>10, <1>0, <1>e, <1>a DEF OnMediaType
  <1>11. ASSUME NEW av \in BOOLEAN, OnVideoFrameAvailable(av)
         PROVE emitted' \in Seq(Event)
    BY <1>11, <1>0, <1>e, <1>a DEF OnVideoFrameAvailable
  <1>12. ASSUME NEW f \in ScalarFields, NEW v \in ScalarValues, OnScalar(f, v)
         PROVE emitted' \in Seq(Event)
    BY <1>12, <1>0, <1>e DEF OnScalar
  <1>13. ASSUME NEW on \in BOOLEAN, NEW wm \in BOOLEAN, OnFullscreen(on, wm)
         PROVE emitted' \in Seq(Event)
    BY <1>13, <1>0, <1>e DEF OnFullscreen
  <1>14. CASE ConsumeActions \/ UNCHANGED vars
    BY <1>14, <1>t DEF ConsumeActions, vars
  <1>15. QED
    BY <1>1, <1>2, <1>3, <1>4, <1>5, <1>7, <1>8, <1>9, <1>10, <1>11, <1>12,
       <1>13, <1>14 DEF Next

(* The pending actions stay within their bound and of their type. *)
LEMMA ActionsStep ==
  TypeOK /\ [Next]_vars => /\ pending_actions' \in Seq({ApplyTracks})
                           /\ Len(pending_actions') <= MaxActions
  <1> SUFFICES ASSUME TypeOK, [Next]_vars
               PROVE  /\ pending_actions' \in Seq({ApplyTracks})
                      /\ Len(pending_actions') <= MaxActions
    OBVIOUS
  <1>1. /\ pending_actions \in Seq({ApplyTracks})
        /\ Len(pending_actions) <= MaxActions
    BY DEF TypeOK
  <1>2. CASE OnFileLoaded
    BY <1>1, <1>2, MaxActionsAssumption DEF OnFileLoaded
  <1>3. CASE ConsumeActions
    BY <1>3, MaxActionsAssumption DEF ConsumeActions
  <1>4. CASE UNCHANGED pending_actions
    BY <1>1, <1>4
  <1>5. QED
    BY <1>2, <1>3, <1>4
    DEF Next, vars, Ignored, OnLoadStarting, OnEndFile, EatEndFile, Terminate,
        OnPauseChanged, PauseWhileActive, OnSeekingChanged, OnPausedForCache,
        OnCoreIdle, OnPosition, OnMediaType, OnVideoFrameAvailable, OnScalar,
        OnFullscreen

(* Type correctness: the two sequences above, and one step per handler for *)
(* the other variables.                                                    *)
LEMMA TypeStep == TypeOK /\ [Next]_vars => TypeOK'
  <1> SUFFICES ASSUME TypeOK, [Next]_vars PROVE TypeOK'
    OBVIOUS
  <1> DEFINE Rest ==
        /\ presence' \in Presences /\ phase' \in Phases
        /\ seeking' \in BOOLEAN /\ buffering' \in BOOLEAN
        /\ media_type' \in MediaTypes /\ position_us' \in Positions
        /\ variant_switch_pending' \in BOOLEAN
        /\ fullscreen' \in BOOLEAN /\ maximized_before_fullscreen' \in BOOLEAN
        /\ scalar' \in [ScalarFields -> ScalarValues]
        /\ pending_load' \in BOOLEAN /\ pause_requested' \in BOOLEAN
        /\ paused_for_cache' \in BOOLEAN /\ core_idle' \in BOOLEAN
        /\ frame_available' \in BOOLEAN
        /\ last_known_item_id' \in Items \union {NoItem}
        /\ end_eaten' \in BOOLEAN
  <1>z. 0 \in Positions
    BY MaxPositionAssumption DEF Positions
  <1>rest. SUFFICES Rest
    BY EmittedStep, ActionsStep DEF TypeOK
  <1> USE DEF TypeOK, transport, gates, window, Presences, Phases, MediaTypes
  <1>s. ASSUME NEW out, StayInPhase(out) \/ TransitionToPlaying(out)
        PROVE  phase' \in Phases /\ variant_switch_pending' \in BOOLEAN
    BY <1>s DEF StayInPhase, TransitionToPlaying
  <1>0. CASE Ignored
    BY <1>0 DEF Ignored
  <1>1. CASE OnFileLoaded
    BY <1>1 DEF OnFileLoaded
  <1>2. ASSUME NEW id \in Items \union {NoItem}, OnLoadStarting(id) PROVE Rest
    BY <1>2 DEF OnLoadStarting
  <1>3. ASSUME NEW reason \in EndReasons, OnEndFile(reason) PROVE Rest
    BY <1>3, <1>z DEF OnEndFile, EatEndFile, Terminate
  <1>4. ASSUME NEW paused \in BOOLEAN, OnPauseChanged(paused) PROVE Rest
    <2>1. CASE PauseWhileActive(paused)
      <3>1. phase' \in Phases /\ variant_switch_pending' \in BOOLEAN
        BY <2>1, <1>s DEF PauseWhileActive
      <3>2. pause_requested' \in BOOLEAN
        BY <2>1 DEF PauseWhileActive
      <3>3. QED
        BY <2>1, <3>1, <3>2 DEF PauseWhileActive
    <2>2. QED
      BY <1>4, <2>1, <1>0 DEF OnPauseChanged
  <1>5. ASSUME NEW on \in BOOLEAN, OnSeekingChanged(on) PROVE Rest
    BY <1>5, <1>0 DEF OnSeekingChanged
  <1>6. ASSUME NEW pfc \in BOOLEAN, OnPausedForCache(pfc) PROVE Rest
    BY <1>6, <1>0, <1>s DEF OnPausedForCache, ApplyBufferingChange
  <1>7. ASSUME NEW idle \in BOOLEAN, OnCoreIdle(idle) PROVE Rest
    BY <1>7, <1>0, <1>s DEF OnCoreIdle, ApplyBufferingChange
  <1>8. ASSUME NEW p \in Positions, OnPosition(p) PROVE Rest
    <2>1. CASE ~(position_us = p /\ ~seeking)
      <3>1. position_us' \in Positions /\ seeking' \in BOOLEAN
        BY <1>8, <2>1 DEF OnPosition
      <3>2. UNCHANGED <<transport, gates, window, buffering, scalar, end_eaten>>
        BY <1>8, <2>1 DEF OnPosition
      <3>3. QED
        BY <3>1, <3>2
    <2>2. QED
      BY <1>8, <2>1, <1>0 DEF OnPosition
  <1>9. ASSUME NEW ty \in MediaTypes, OnMediaType(ty) PROVE Rest
    <2>1. CASE media_type # ty
      <3>1. phase' \in Phases /\ variant_switch_pending' \in BOOLEAN
        BY <1>9, <2>1, <1>s DEF OnMediaType
      <3>2. QED
        BY <1>9, <2>1, <3>1 DEF OnMediaType
    <2>2. QED
      BY <1>9, <2>1, <1>0 DEF OnMediaType
  <1>10. ASSUME NEW av \in BOOLEAN, OnVideoFrameAvailable(av) PROVE Rest
    BY <1>10, <1>0, <1>s DEF OnVideoFrameAvailable
  <1>11. ASSUME NEW f \in ScalarFields, NEW v \in ScalarValues, OnScalar(f, v)
         PROVE Rest
    BY <1>11, <1>0 DEF OnScalar
  <1>12. ASSUME NEW on \in BOOLEAN, NEW wm \in BOOLEAN, OnFullscreen(on, wm)
         PROVE Rest
    BY <1>12, <1>0 DEF OnFullscreen
  <1>13. CASE ConsumeActions \/ UNCHANGED vars
    BY <1>13 DEF ConsumeActions, vars
  <1>14. QED
    BY <1>1, <1>2, <1>3, <1>4, <1>5, <1>6, <1>7, <1>8, <1>9, <1>10, <1>11,
       <1>12, <1>13 DEF Next

(* The safety invariants are preserved together.  The handlers fall in     *)
(* four groups: those that load a file, end it, move a gate or the pause   *)
(* flag, and those that touch none of the variables Safety mentions.       *)
LEMMA SafetyStep == IInv /\ [Next]_vars => Safety'
  <1> SUFFICES ASSUME TypeOK, Safety, [Next]_vars PROVE Safety'
    BY DEF IInv, Safety
  <1> USE DEF Safety, StoppedIsClean, IntentMatchesPhase, PromotionNotMissed,
              BufferingIsExact, VariantOfRememberedItem, IsActivePhase,
              transport, gates
  <1>t. /\ phase \in Phases /\ buffering \in BOOLEAN
        /\ pause_requested \in BOOLEAN /\ frame_available \in BOOLEAN
        /\ variant_switch_pending \in BOOLEAN /\ end_eaten \in BOOLEAN
        /\ paused_for_cache \in BOOLEAN /\ core_idle \in BOOLEAN
    BY DEF TypeOK
  <1>s. ASSUME NEW out, StayInPhase(out)
        PROVE  phase' = phase /\ variant_switch_pending' = variant_switch_pending
    BY <1>s DEF StayInPhase
  <1>p. ASSUME NEW out, TransitionToPlaying(out)
        PROVE  phase' = "Playing" /\ ~variant_switch_pending'
    BY <1>p DEF TransitionToPlaying
  <1>u. ASSUME UNCHANGED <<transport, gates, buffering, end_eaten>>,
               ~IsActivePhase => ~seeking'
        PROVE Safety'
    BY <1>u, <1>t DEF Phases, ReadyToPlay
  <1>0. CASE Ignored
    BY <1>0, <1>u, <1>t DEF Ignored, Phases
  <1>1. CASE OnFileLoaded
    BY <1>1, <1>t DEF OnFileLoaded
  <1>2. ASSUME NEW id \in Items \union {NoItem}, OnLoadStarting(id)
        PROVE Safety'
    BY <1>2, <1>t DEF OnLoadStarting
  <1>3. ASSUME NEW reason \in EndReasons, OnEndFile(reason) PROVE Safety'
    BY <1>3, <1>t DEF OnEndFile, EatEndFile, Terminate
  <1>4. ASSUME NEW paused \in BOOLEAN, OnPauseChanged(paused) PROVE Safety'
    BY <1>4, <1>0, <1>s, <1>p, <1>t DEF OnPauseChanged, PauseWhileActive, Phases
  <1>5. ASSUME NEW on \in BOOLEAN, OnSeekingChanged(on) PROVE Safety'
    BY <1>5, <1>0, <1>u DEF OnSeekingChanged
  <1>6. ASSUME NEW pfc \in BOOLEAN, OnPausedForCache(pfc) PROVE Safety'
    BY <1>6, <1>0, <1>s, <1>p, <1>t
    DEF OnPausedForCache, ApplyBufferingChange, Phases, ReadyToPlay
  <1>7. ASSUME NEW idle \in BOOLEAN, OnCoreIdle(idle) PROVE Safety'
    BY <1>7, <1>0, <1>s, <1>p, <1>t
    DEF OnCoreIdle, ApplyBufferingChange, Phases, ReadyToPlay
  <1>8. ASSUME NEW p \in Positions, OnPosition(p) PROVE Safety'
    BY <1>8, <1>0, <1>u DEF OnPosition
  <1>9. ASSUME NEW ty \in MediaTypes, OnMediaType(ty) PROVE Safety'
    BY <1>9, <1>0, <1>s, <1>p, <1>t DEF OnMediaType, Phases
  <1>10. ASSUME NEW av \in BOOLEAN, OnVideoFrameAvailable(av) PROVE Safety'
    BY <1>10, <1>0, <1>s, <1>p, <1>t DEF OnVideoFrameAvailable, Phases, ReadyToPlay
  <1>11. ASSUME NEW f \in ScalarFields, NEW v \in ScalarValues, OnScalar(f, v)
         PROVE Safety'
    BY <1>11, <1>0, <1>u, <1>t DEF OnScalar, Phases
  <1>12. ASSUME NEW on \in BOOLEAN, NEW wm \in BOOLEAN, OnFullscreen(on, wm)
         PROVE Safety'
    BY <1>12, <1>0, <1>u, <1>t DEF OnFullscreen, Phases
  <1>13. CASE ConsumeActions \/ UNCHANGED vars
    BY <1>13, <1>u, <1>t DEF ConsumeActions, vars, Phases
  <1>14. QED
    BY <1>1, <1>2, <1>3, <1>4, <1>5, <1>6, <1>7, <1>8, <1>9, <1>10, <1>11,
       <1>12, <1>13 DEF Next

LEMMA Invariance == Spec => []IInv
  <1>1. Init => IInv
    BY InitIInv
  <1>2. IInv /\ [Next]_vars => IInv'
    BY TypeStep, SafetyStep DEF IInv, Safety
  <1>3. QED
    BY <1>1, <1>2, PTL DEF Spec

(* Every reachable state is of its type. *)
THEOREM TypeCorrect == Spec => []TypeOK
  BY Invariance, PTL DEF IInv

(* A stopped player carries nothing over into the next session.            *)
THEOREM StoppedCarriesNothing == Spec => []StoppedIsClean
  BY Invariance, PTL DEF IInv

(* The remembered play intent never contradicts the phase. *)
THEOREM IntentAgrees == Spec => []IntentMatchesPhase
  BY Invariance, PTL DEF IInv

(* No promotion to Playing is missed, whichever input opens the last gate. *)
THEOREM NoMissedPromotion == Spec => []PromotionNotMissed
  BY Invariance, PTL DEF IInv

(* The published buffering flag is exact while a file is active.           *)
THEOREM BufferingExact == Spec => []BufferingIsExact
  BY Invariance, PTL DEF IInv

(* A pending variant switch is one of the remembered item, before playback. *)
THEOREM VariantRemembered == Spec => []VariantOfRememberedItem
  BY Invariance, PTL DEF IInv

(* Playback of a new file is announced only when it was asked for, nothing *)
(* buffers and a video has a frame, whichever handler announces it.        *)
THEOREM StartGated == Spec => StartIsGated
  <1> DEFINE Gated ==
        phase = "Starting" /\ phase' = "Playing" =>
          /\ pause_requested' /\ ~buffering'
          /\ ReadyToPlay(media_type', frame_available')
  <1>1. IInv /\ [Next]_vars => [Gated]_vars
    <2> SUFFICES ASSUME TypeOK, Next, phase = "Starting", phase' = "Playing"
                 PROVE  /\ pause_requested' /\ ~buffering'
                        /\ ReadyToPlay(media_type', frame_available')
      BY DEF IInv
    <2> USE DEF transport, gates
    <2>s. ASSUME NEW out, StayInPhase(out) PROVE phase' = phase
      BY <2>s DEF StayInPhase
    <2>t. /\ buffering \in BOOLEAN /\ pause_requested \in BOOLEAN
          /\ frame_available \in BOOLEAN
      BY DEF TypeOK
    <2>0. CASE Ignored
      BY <2>0 DEF Ignored
    <2>1. CASE \/ OnFileLoaded \/ ConsumeActions
               \/ \E id \in Items \union {NoItem} : OnLoadStarting(id)
               \/ \E reason \in EndReasons : OnEndFile(reason)
      BY <2>1 DEF OnFileLoaded, ConsumeActions, OnLoadStarting, OnEndFile,
                  EatEndFile, Terminate
    <2>2. ASSUME NEW paused \in BOOLEAN, OnPauseChanged(paused)
          PROVE  /\ pause_requested' /\ ~buffering'
                 /\ ReadyToPlay(media_type', frame_available')
      <3>1. CASE PauseWhileActive(paused)
        <4>1. ~paused /\ ~buffering /\ ReadyToPlay(media_type, frame_available)
          BY <2>2, <3>1, <2>s, <2>t DEF PauseWhileActive
        <4>2. UNCHANGED <<buffering, media_type, frame_available>>
          BY <3>1 DEF PauseWhileActive
        <4>3. pause_requested' = ~paused
          BY <3>1 DEF PauseWhileActive
        <4>4. QED
          BY <4>1, <4>2, <4>3 DEF ReadyToPlay
      <3>2. QED
        BY <2>2, <3>1, <2>0 DEF OnPauseChanged
    <2>3. ASSUME NEW pfc \in BOOLEAN, OnPausedForCache(pfc)
          PROVE  /\ pause_requested' /\ ~buffering'
                 /\ ReadyToPlay(media_type', frame_available')
      BY <2>3, <2>0, <2>s, <2>t DEF OnPausedForCache, ApplyBufferingChange
    <2>4. ASSUME NEW idle \in BOOLEAN, OnCoreIdle(idle)
          PROVE  /\ pause_requested' /\ ~buffering'
                 /\ ReadyToPlay(media_type', frame_available')
      BY <2>4, <2>0, <2>s, <2>t DEF OnCoreIdle, ApplyBufferingChange
    <2>5. ASSUME NEW ty \in MediaTypes, OnMediaType(ty)
          PROVE  /\ pause_requested' /\ ~buffering'
                 /\ ReadyToPlay(media_type', frame_available')
      BY <2>5, <2>0, <2>s, <2>t DEF OnMediaType
    <2>6. ASSUME NEW av \in BOOLEAN, OnVideoFrameAvailable(av)
          PROVE  /\ pause_requested' /\ ~buffering'
                 /\ ReadyToPlay(media_type', frame_available')
      <3>1. CASE frame_available # av
        <4>1. av /\ pause_requested /\ ~buffering
          BY <2>6, <3>1, <2>s DEF OnVideoFrameAvailable
        <4>2. frame_available' = av /\ UNCHANGED <<pause_requested, buffering>>
          BY <2>6, <3>1 DEF OnVideoFrameAvailable
        <4>3. QED
          BY <4>1, <4>2 DEF ReadyToPlay
      <3>2. QED
        BY <2>6, <3>1, <2>0 DEF OnVideoFrameAvailable
    <2>7. CASE \/ \E on \in BOOLEAN : OnSeekingChanged(on)
               \/ \E p \in Positions : OnPosition(p)
               \/ \E f \in ScalarFields, v \in ScalarValues : OnScalar(f, v)
               \/ \E on, wm \in BOOLEAN : OnFullscreen(on, wm)
      BY <2>7, <2>0 DEF OnSeekingChanged, OnPosition, OnScalar, OnFullscreen
    <2>8. QED
      BY <2>1, <2>2, <2>3, <2>4, <2>5, <2>6, <2>7 DEF Next
  <1>2. QED
    BY <1>1, Invariance, PTL DEF StartIsGated, Spec
-----------------------------------------------------------------------------
(* The events a handler returns, seen as kinds.                            *)
LEMMA KindsOf ==
  /\ \A e \in Event : Kinds(<<e>>) = {e.kind}
  /\ \A s \in Seq(Event), e \in Event :
       /\ e.kind \in Kinds(Append(s, e))
       /\ \A i \in DOMAIN s : i \in DOMAIN Append(s, e) /\ Append(s, e)[i] = s[i]
       /\ \E i \in DOMAIN Append(s, e) : Append(s, e)[i] = e
  <1>1. ASSUME NEW s \in Seq(Event), NEW e \in Event
        PROVE  /\ Len(s) + 1 \in DOMAIN Append(s, e)
               /\ Append(s, e)[Len(s) + 1] = e
               /\ \A i \in DOMAIN s :
                    i \in DOMAIN Append(s, e) /\ Append(s, e)[i] = s[i]
    OBVIOUS
  <1>2. ASSUME NEW e \in Event PROVE Kinds(<<e>>) = {e.kind}
    BY DEF Kinds
  <1>3. QED
    BY <1>1, <1>2 DEF Kinds

(* The end of a file clears every indicator that is lit, with its event.   *)
LEMMA ClearedIndicators ==
  ASSUME TypeOK
  PROVE  /\ IndicatorsCleared \in Seq(Event)
         /\ seeking => \E i \in DOMAIN IndicatorsCleared :
                         IndicatorsCleared[i] = Flagged("SeekingChanged", FALSE)
         /\ buffering => \E i \in DOMAIN IndicatorsCleared :
                           IndicatorsCleared[i] = Flagged("BufferingChanged", FALSE)
  <1> DEFINE s == Flagged("SeekingChanged", FALSE)
             b == Flagged("BufferingChanged", FALSE)
  <1>1. s \in Event /\ b \in Event
    BY EventTyping
  <1> HIDE DEF s, b
  <1>2. CASE seeking /\ buffering
    <2>1. IndicatorsCleared = <<s>> \o <<b>>
      BY <1>2 DEF IndicatorsCleared, s, b
    <2>2. /\ <<s>> \o <<b>> \in Seq(Event)
          /\ 1 \in DOMAIN (<<s>> \o <<b>>) /\ (<<s>> \o <<b>>)[1] = s
          /\ 2 \in DOMAIN (<<s>> \o <<b>>) /\ (<<s>> \o <<b>>)[2] = b
      BY <1>1
    <2>3. QED
      BY <2>1, <2>2 DEF s, b
  <1>3. CASE seeking /\ ~buffering
    <2>1. IndicatorsCleared = <<s>> \o <<>>
      BY <1>3 DEF IndicatorsCleared, s
    <2>2. /\ <<s>> \o <<>> \in Seq(Event)
          /\ 1 \in DOMAIN (<<s>> \o <<>>) /\ (<<s>> \o <<>>)[1] = s
      BY <1>1
    <2>3. QED
      BY <2>1, <2>2, <1>3 DEF s
  <1>4. CASE ~seeking /\ buffering
    <2>1. IndicatorsCleared = <<>> \o <<b>>
      BY <1>4 DEF IndicatorsCleared, b
    <2>2. /\ <<>> \o <<b>> \in Seq(Event)
          /\ 1 \in DOMAIN (<<>> \o <<b>>) /\ (<<>> \o <<b>>)[1] = b
      BY <1>1
    <2>3. QED
      BY <2>1, <2>2, <1>4 DEF b
  <1>5. CASE ~seeking /\ ~buffering
    BY <1>5 DEF IndicatorsCleared
  <1>6. seeking \in BOOLEAN /\ buffering \in BOOLEAN
    BY DEF TypeOK
  <1>7. QED
    BY <1>2, <1>3, <1>4, <1>5, <1>6

(* Whatever handler runs, a consumer of the events learns of the change.   *)
LEMMA TellsStep == IInv /\ [Next]_vars => PhaseTold /\ IndicatorsTold
  <1> SUFFICES ASSUME TypeOK, StoppedIsClean, [Next]_vars
               PROVE  PhaseTold /\ IndicatorsTold
    BY DEF IInv
  <1> DEFINE Goal == PhaseTold /\ IndicatorsTold
  <1> USE DEF transport, gates
  <1>t. /\ phase \in Phases /\ seeking \in BOOLEAN /\ buffering \in BOOLEAN
        /\ pending_load \in BOOLEAN
    BY DEF TypeOK
  <1>e. /\ \A k \in EventKinds : Kinds(<<Ev(k)>>) = {k}
        /\ \A k \in EventKinds, f \in BOOLEAN :
             /\ Flagged(k, f) \in Event /\ Kinds(<<Flagged(k, f)>>) = {k}
             /\ \E i \in DOMAIN <<Flagged(k, f)>> :
                  <<Flagged(k, f)>>[i] = Flagged(k, f)
    <2>1. ASSUME NEW k \in EventKinds, NEW f \in BOOLEAN
          PROVE  /\ Ev(k) \in Event /\ Flagged(k, f) \in Event
                 /\ Ev(k).kind = k /\ Flagged(k, f).kind = k
      BY <2>1, EventTyping DEF Ev, Flagged
    <2>2. \A e \in Event : \E i \in DOMAIN <<e>> : <<e>>[i] = e
      OBVIOUS
    <2>3. QED
      BY <2>1, <2>2, KindsOf
  <1>q. /\ <<>> \in Seq(Event)
        /\ \A e \in Event : <<e>> \in Seq(Event) /\ 1 \in DOMAIN <<e>> /\ <<e>>[1] = e
    OBVIOUS
  <1>u. ASSUME UNCHANGED <<phase, seeking, buffering>> PROVE Goal
    BY <1>u DEF PhaseTold, IndicatorsTold
  <1>l. ASSUME phase' = "Starting", emitted' = <<Ev("TrackLoaded")>> PROVE Goal
    BY <1>l, <1>e DEF PhaseTold, IndicatorsTold, Told
  <1>p. ASSUME NEW out \in Seq(Event), TransitionToPlaying(out)
        PROVE  PhaseTold /\ \A i \in DOMAIN out : \E j \in DOMAIN emitted' :
                              emitted'[j] = out[i]
    <2>1. Ev("Started") \in Event /\ Ev("Started").kind = "Started"
      BY EventTyping DEF Ev
    <2>2. QED
      BY <1>p, <2>1, KindsOf DEF TransitionToPlaying, PhaseTold
  <1>0. CASE Ignored
    BY <1>0, <1>u DEF Ignored
  <1>1. CASE OnFileLoaded \/ \E id \in Items \union {NoItem} : OnLoadStarting(id)
    BY <1>1, <1>l DEF OnFileLoaded, OnLoadStarting
  <1>3. ASSUME NEW reason \in EndReasons, OnEndFile(reason) PROVE Goal
    <2>1. CASE EatEndFile(reason)
      <3>1. IndicatorsTold
        BY <1>3, <2>1, <1>t, ClearedIndicators
        DEF OnEndFile, EatEndFile, IndicatorsTold, Told
      <3>2. QED
        BY <2>1, <3>1 DEF EatEndFile, PhaseTold
    <2>2. CASE Terminate(reason)
      <3> DEFINE e == TerminalEvent(reason)
      <3>1. e \in Event /\ e.kind \in TerminalKinds
        <4>1. e.kind \in TerminalKinds
          BY DEF TerminalEvent, EndReasons, Ev, TerminalKinds
        <4>2. QED
          BY <4>1, EventTyping DEF TerminalEvent, EndReasons
      <3> HIDE DEF e
      <3>2. emitted' = Append(IndicatorsCleared, e) /\ phase' = "Stopped"
        BY <2>2 DEF Terminate, e
      <3>3. PhaseTold
        BY <3>1, <3>2, ClearedIndicators, KindsOf DEF PhaseTold
      <3>4. \A i \in DOMAIN IndicatorsCleared : \E j \in DOMAIN emitted' :
              emitted'[j] = IndicatorsCleared[i]
        BY <3>1, <3>2, ClearedIndicators, KindsOf
      <3>5. ~seeking' /\ ~buffering' /\ seeking' \in BOOLEAN /\ buffering' \in BOOLEAN
        BY <1>3 DEF OnEndFile
      <3>6. IndicatorsTold
        BY <3>4, <3>5, <1>t, ClearedIndicators DEF IndicatorsTold, Told
      <3>7. QED
        BY <3>3, <3>6
    <2>3. QED
      BY <1>3, <2>1, <2>2 DEF OnEndFile
  <1>4. ASSUME NEW paused \in BOOLEAN, OnPauseChanged(paused) PROVE Goal
    <2>1. CASE PauseWhileActive(paused)
      <3>1. UNCHANGED <<seeking, buffering>>
        BY <2>1 DEF PauseWhileActive
      <3>2. PhaseTold
        <4>1. \/ phase' = phase
              \/ phase' = "Paused" /\ emitted' = <<Ev("Paused")>>
              \/ TransitionToPlaying(<<>>)
          BY <2>1 DEF PauseWhileActive, StayInPhase
        <4>2. Kinds(<<Ev("Paused")>>) = {"Paused"}
          BY <1>e
        <4>3. TransitionToPlaying(<<>>) => PhaseTold
          BY <1>p, <1>q
        <4>4. QED
          BY <4>1, <4>2, <4>3 DEF PhaseTold
      <3>3. QED
        BY <3>1, <3>2 DEF IndicatorsTold
    <2>2. QED
      BY <1>4, <2>1, <1>0 DEF OnPauseChanged
  <1>5. ASSUME NEW on \in BOOLEAN, OnSeekingChanged(on) PROVE Goal
    BY <1>5, <1>0, <1>e DEF OnSeekingChanged, PhaseTold, IndicatorsTold, Told
  <1>6. ASSUME NEW b \in BOOLEAN, ApplyBufferingChange(b), UNCHANGED seeking PROVE Goal
    <2> DEFINE e == Flagged("BufferingChanged", b)
    <2>0. e \in Event
      BY EventTyping
    <2>1. CASE UNCHANGED buffering /\ StayInPhase(<<>>)
      BY <2>1, <1>6, <1>u DEF StayInPhase
    <2>2. CASE buffering' = b /\ StayInPhase(<<e>>)
      BY <2>2, <1>6, <1>e DEF StayInPhase, PhaseTold, IndicatorsTold, Told
    <2>3. CASE buffering' = b /\ TransitionToPlaying(<<e>>)
      <3> HIDE DEF e
      <3>1. PhaseTold /\ \E j \in DOMAIN emitted' : emitted'[j] = e
        BY <2>3, <2>0, <1>p, <1>q
      <3>2. QED
        BY <3>1, <2>3, <1>6 DEF IndicatorsTold, Told, e
    <2>4. QED
      BY <1>6, <2>1, <2>2, <2>3 DEF ApplyBufferingChange
  <1>7. ASSUME NEW pfc \in BOOLEAN, OnPausedForCache(pfc) PROVE Goal
    BY <1>7, <1>6, <1>0 DEF OnPausedForCache, TypeOK
  <1>8. ASSUME NEW idle \in BOOLEAN, OnCoreIdle(idle) PROVE Goal
    BY <1>8, <1>6, <1>0 DEF OnCoreIdle, TypeOK
  <1>9. ASSUME NEW p \in Positions, OnPosition(p) PROVE Goal
    <2>1. CASE ~seeking
      BY <1>9, <2>1, <1>0, <1>u, <1>t DEF OnPosition
    <2>2. CASE seeking
      <3> DEFINE e == Flagged("SeekingChanged", FALSE)
                 f == Ev("PositionChanged")
      <3>1. e \in Event /\ f \in Event
        BY EventTyping
      <3> HIDE DEF e, f
      <3>2. 1 \in DOMAIN (<<e>> \o <<f>>) /\ (<<e>> \o <<f>>)[1] = e
        BY <3>1
      <3>3. emitted' = <<e>> \o <<f>> /\ ~seeking' /\ seeking' \in BOOLEAN
        BY <1>9, <2>2 DEF OnPosition, e, f
      <3>4. UNCHANGED <<phase, buffering>>
        BY <1>9, <2>2 DEF OnPosition
      <3>5. QED
        BY <3>2, <3>3, <3>4 DEF PhaseTold, IndicatorsTold, Told, e
    <2>3. QED
      BY <2>1, <2>2, <1>t
  <1>10. ASSUME NEW ty \in MediaTypes, OnMediaType(ty) PROVE Goal
    <2>1. <<Ev("MediaTypeChanged")>> \in Seq(Event)
      BY EventTyping, <1>q
    <2>2. CASE media_type # ty
      <3>1. UNCHANGED <<seeking, buffering>>
        BY <1>10, <2>2 DEF OnMediaType
      <3>2. PhaseTold
        BY <1>10, <2>1, <2>2, <1>p DEF OnMediaType, StayInPhase, PhaseTold
      <3>3. QED
        BY <3>1, <3>2 DEF IndicatorsTold
    <2>3. QED
      BY <1>10, <2>2, <1>0 DEF OnMediaType
  <1>11. ASSUME NEW av \in BOOLEAN, OnVideoFrameAvailable(av) PROVE Goal
    <2>1. CASE frame_available # av
      <3>1. UNCHANGED <<seeking, buffering>>
        BY <1>11, <2>1 DEF OnVideoFrameAvailable
      <3>2. PhaseTold
        BY <1>11, <2>1, <1>p, <1>q DEF OnVideoFrameAvailable, StayInPhase, PhaseTold
      <3>3. QED
        BY <3>1, <3>2 DEF IndicatorsTold
    <2>2. QED
      BY <1>11, <2>1, <1>0 DEF OnVideoFrameAvailable
  <1>12. CASE \/ \E f \in ScalarFields, v \in ScalarValues : OnScalar(f, v)
              \/ \E on, wm \in BOOLEAN : OnFullscreen(on, wm)
              \/ ConsumeActions \/ UNCHANGED vars
    BY <1>12, <1>0, <1>u DEF OnScalar, OnFullscreen, ConsumeActions, vars
  <1>13. QED
    BY <1>1, <1>3, <1>4, <1>5, <1>7, <1>8, <1>9, <1>10, <1>11, <1>12 DEF Next

(* The events suffice: the phase and both indicators change only with an   *)
(* event that says so, or with a load in flight.                           *)
THEOREM EventsTellAll == Spec => EventsSuffice
  <1>1. IInv /\ [Next]_vars => [PhaseTold /\ IndicatorsTold]_vars
    BY TellsStep
  <1>2. QED
    BY <1>1, Invariance, PTL DEF Spec, EventsSuffice
=============================================================================
