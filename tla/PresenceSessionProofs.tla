------------------------ MODULE PresenceSessionProofs ------------------------
(***************************************************************************)
(* Proofs of what PresenceSession and PresenceSilence state about the      *)
(* presence path, for every value of their constants.                      *)
(***************************************************************************)
EXTENDS PresenceSession, PresenceSilence, PresencePipelineProofs

(***************************************************************************)
(* The inductive invariant.  It ties the flags and ages the fusion keeps   *)
(* to what an observer of the sensors has seen:                            *)
(*  - the reentry window is open only while presence is off, and at least  *)
(*    as old as the absence that is observed;                              *)
(*  - arming has lasted no longer than the observed overlap;               *)
(*  - an armed session has had its overlap;                                *)
(*  - when the exit veto is gone although nobody was seen since the exit,  *)
(*    the session was closed while PIR saw nothing, and only a track that  *)
(*    still coasts can have armed another one;                             *)
(*  - a retained coordinate is that of the only track there was.           *)
(***************************************************************************)
ObserverTypeOK ==
  /\ overlap \in Int /\ overlap >= -1 /\ overlap <= ArmTicks
  /\ established \in BOOLEAN /\ exited \in BOOLEAN
  /\ sinceOff \in Int /\ sinceOff >= -1

WindowFitsAbsence ==
  /\ previousStable <=> sinceOff = -1
  /\ assist.reentry => sinceOff >= 0 /\ sinceOff <= assist.reentryElapsed

ArmingFitsOverlap ==
  /\ assist.armed => ~assist.pending
  /\ assist.pending => overlap >= assist.armElapsed

ArmedIsEstablished == assist.armed => established

MotionIsPresence == previousPir => presence

LiftedVeto ==
  exited /\ ~assist.veto =>
    /\ ~previousPir
    /\ assist.armed => StableSlots(tracks) # {}

TargetIsOnly == spatialTarget => lastCount = 1

SessionInv ==
  /\ PipelineTypeOK
  /\ ObserverTypeOK
  /\ WindowFitsAbsence
  /\ ArmingFitsOverlap
  /\ ArmedIsEstablished
  /\ MotionIsPresence
  /\ LiftedVeto
  /\ TargetIsOnly
  /\ StaticNeedsSession
  /\ ExitVetoHolds
  /\ HeldTargetIsUnambiguous
LEMMA SessionInitInv == SessionInit => SessionInv
<1> SUFFICES ASSUME SessionInit PROVE SessionInv
  OBVIOUS
<1>1. PipelineInit /\ PipelineTypeOK
  BY PipelineInitType DEF SessionInit
<1>2. /\ assist = NoSession /\ ~previousPir /\ ~previousStable /\ ~spatialTarget
      /\ fused = [presence |-> FALSE, motion |-> FALSE, active |-> FALSE, held |-> FALSE]
      /\ presence = FALSE
  BY <1>1 DEF PipelineInit, FusionInit
<1>3. ~assist.armed /\ ~assist.pending /\ ~assist.reentry /\ ~fused.active /\ ~fused.held
  BY <1>2 DEF NoSession
<1>4. ObserverTypeOK /\ sinceOff # -1 /\ exited = FALSE
  <2>1. established \in BOOLEAN /\ exited \in BOOLEAN /\ exited = FALSE
    BY Zenon DEF SessionInit
  <2>2. overlap = -1 /\ sinceOff = ReentryTicks + 1
    BY DEF SessionInit, OffCap
  <2> QED
    BY <2>1, <2>2, FusionAssumption DEF ObserverTypeOK
<1> QED
  BY <1>1, <1>2, <1>3, <1>4
     DEF SessionInv, WindowFitsAbsence, ArmingFitsOverlap, ArmedIsEstablished, MotionIsPresence,
         LiftedVeto, TargetIsOnly, StaticNeedsSession, ExitVetoHolds, HeldTargetIsUnambiguous

LEMMA SessionTick ==
  ASSUME SessionInv,
         NEW ticks \in Elapses, NEW pir \in BOOLEAN, NEW blocked \in BOOLEAN,
         NEW static \in BOOLEAN, NEW valid \in SUBSET Targets,
         Tick(ticks, pir, blocked, static, valid),
         Observe(ticks, pir, blocked, static)
  PROVE  /\ SessionInv'
         /\ ~presence /\ presence' /\ fused'.active => sinceOff' < ReentryTicks
<1> DEFINE tr   == TrackerOutput(tracks', drop')
           s    == Session(ticks, presence, blocked)
           base == pir \/ (~blocked /\ tr.presence)
<1>1. /\ PipelineTypeOK'
      /\ FusionTypeOK /\ ticks \in Nat /\ presence \in BOOLEAN /\ OutputOK(tr)
      /\ DropOK(drop')
      /\ FuseOutcome(ticks, pir, blocked, presence, static, tr)
      /\ fused'.presence => presence'
  BY TickStep DEF SessionInv
<1>2. s \in AssistType /\ SessionOutcome(s, ticks, presence, blocked)
  BY <1>1, SessionStep
<1>3. \A q \in Slots : SlotStep(q)
  BY TickIsNext, NextStep DEF SessionInv, PipelineTypeOK
<1>4. /\ tr.newDrop = drop'.fresh
      /\ tr.exitDrop = (drop'.reason \in ExitDrops)
      /\ tr.presence = (StableSlots(tracks') # {})
      /\ tr.tracks = Cardinality(StableSlots(tracks'))
      /\ tr.confirmed = SomebodyConfirmed
  BY <1>1, OutputOfDrop DEF SomebodyConfirmed
<1>5. FuseOutcome(ticks, pir, blocked, presence, static, tr)
  BY <1>1
<1> HIDE DEF tr
<1>6. /\ previousPir' = pir /\ previousStable' = presence
      /\ assist'.veto = ((IF tr.newDrop THEN tr.exitDrop ELSE s.veto)
                         /\ ~(tr.confirmed \/ (pir /\ ~previousPir /\ presence)))
      /\ assist'.reentry = s.reentry /\ assist'.reentryElapsed = s.reentryElapsed
      /\ s.armed => /\ assist'.armed /\ assist'.pending = s.pending
                    /\ assist'.armElapsed = s.armElapsed
      /\ ~s.armed /\ assist'.armed =>
           /\ ~blocked /\ ~assist'.veto /\ base /\ static
           /\ s.pending /\ s.armElapsed >= ArmTicks /\ ~assist'.pending
      /\ ~s.armed /\ assist'.pending =>
           /\ ~blocked /\ base /\ static
           /\ assist'.armElapsed = 0 \/ (s.pending /\ assist'.armElapsed = s.armElapsed)
      /\ fused'.active => ~blocked /\ ~assist'.veto /\ assist'.armed /\ ~base
      /\ fused'.held => fused'.active /\ spatialTarget'
      /\ fused'.presence = (base \/ fused'.active)
      /\ spatialTarget' => /\ tr.tracks = 1 \/ (tr.tracks = 0 /\ spatialTarget)
                           /\ ~(tr.newDrop /\ tr.exitDrop)
  BY <1>5, Zenon DEF FuseOutcome
<1> HIDE DEF s, base
<1>7. base = BaseEvidence(pir, blocked)
  BY <1>4, Zenon DEF base, BaseEvidence
<1>8. assist \in AssistType /\ assist' \in AssistType
  BY <1>1 DEF FusionTypeOK, PipelineTypeOK
<1> DEFINE both == ~blocked /\ static /\ base
<1>9. /\ overlap' = IF ~both THEN -1
                    ELSE IF overlap = -1 THEN 0 ELSE Capped(overlap + ticks, ArmTicks)
      /\ sinceOff' = IF presence THEN -1
                     ELSE IF sinceOff = -1 THEN 0 ELSE Capped(sinceOff + ticks, OffCap)
  BY <1>7 DEF Observe
<1>10. /\ established' = (overlap' = ArmTicks \/ (established /\ ~Closed(blocked)))
       /\ exited' = ((IF drop'.fresh THEN ExitLoss ELSE exited)
                     /\ ~SomebodyConfirmed /\ ~(pir /\ ~previousPir))
       /\ lastCount' = IF ExitLoss THEN 0
                       ELSE IF Cardinality(StableSlots(tracks')) > 0
                       THEN Cardinality(StableSlots(tracks')) ELSE lastCount
  BY DEF Observe
<1> HIDE DEF both
<1>11. ObserverTypeOK'
  <2>1. overlap' \in Int /\ overlap' >= -1 /\ overlap' <= ArmTicks
    BY <1>1, <1>9, FusionAssumption DEF SessionInv, ObserverTypeOK, Capped
  <2>2. sinceOff' \in Int /\ sinceOff' >= -1
    BY <1>1, <1>9, FusionAssumption DEF SessionInv, ObserverTypeOK, Capped, OffCap
  <2>3. established' \in BOOLEAN /\ exited' \in BOOLEAN
    BY <1>10
  <2> QED
    BY <2>1, <2>2, <2>3 DEF ObserverTypeOK
<1> HIDE DEF Observe
<1>12. WindowFitsAbsence'
  <2>1. previousStable' <=> sinceOff' = -1
    BY <1>1, <1>6, <1>9, FusionAssumption
       DEF SessionInv, ObserverTypeOK, Capped, OffCap
  <2>2. ASSUME s.reentry
        PROVE  sinceOff' >= 0 /\ sinceOff' <= s.reentryElapsed
    <3>1. ~presence
      BY <1>1, <1>2, <2>2 DEF SessionOutcome
    <3>2. s.reentryElapsed \in Nat /\ s.reentryElapsed < ReentryTicks
      BY <1>2, <2>2, <3>1 DEF SessionOutcome, AssistType
    <3>3. CASE previousStable
      BY <1>9, <3>1, <3>2, <3>3 DEF SessionInv, WindowFitsAbsence
    <3>4. CASE ~previousStable
      <4>1. /\ assist.reentry
            /\ s.reentryElapsed = Capped(assist.reentryElapsed + ticks, ReentryTicks)
        BY <1>2, <2>2, <3>1, <3>4, Zenon DEF SessionOutcome
      <4>2. s.reentryElapsed = assist.reentryElapsed + ticks
        BY <3>2, <4>1 DEF Capped
      <4>3. sinceOff >= 0 /\ sinceOff <= assist.reentryElapsed
        BY <4>1 DEF SessionInv, WindowFitsAbsence
      <4>4. sinceOff' = Capped(sinceOff + ticks, OffCap)
        BY <1>9, <3>1, <4>3
      <4> QED
        BY <1>1, <1>8, <3>2, <4>2, <4>3, <4>4, FusionAssumption
           DEF AssistType, Capped, OffCap, SessionInv, ObserverTypeOK
    <3> QED
      BY <3>3, <3>4
  <2> QED
    BY <1>6, <2>1, <2>2 DEF WindowFitsAbsence
<1>13. ArmingFitsOverlap'
  <2>1. assist'.armed => ~assist'.pending
    BY <1>2, <1>6 DEF SessionInv, ArmingFitsOverlap, SessionOutcome
  <2>2. ASSUME assist'.pending
        PROVE  overlap' >= assist'.armElapsed
    <3>1. ~s.armed
      BY <1>6, <2>1, <2>2
    <3>2. both
      BY <1>6, <2>2, <3>1 DEF both
    <3>3. overlap' \in Nat
      BY <1>9, <1>1, <3>2, FusionAssumption DEF Capped, SessionInv, ObserverTypeOK
    <3>4. CASE assist'.armElapsed = 0
      BY <3>3, <3>4
    <3>5. CASE s.pending /\ assist'.armElapsed = s.armElapsed
      <4>1. /\ assist.pending
            /\ s.armElapsed = Capped(assist.armElapsed + ticks, ArmTicks)
        BY <1>2, <3>5 DEF SessionOutcome
      <4>2. overlap >= assist.armElapsed
        BY <4>1 DEF SessionInv, ArmingFitsOverlap
      <4> QED
        BY <1>1, <1>8, <1>9, <3>2, <3>5, <4>1, <4>2, FusionAssumption
           DEF Capped, SessionInv, ObserverTypeOK, AssistType
    <3> QED
      BY <1>6, <2>2, <3>1, <3>4, <3>5, Zenon
  <2> QED
    BY <2>1, <2>2 DEF ArmingFitsOverlap
<1>14. s.armed => assist.armed /\ (presence \/ (~blocked /\ sinceOff' < ReentryTicks))
  <2> SUFFICES ASSUME s.armed, ~presence
               PROVE  ~blocked /\ sinceOff' < ReentryTicks
    BY <1>2 DEF SessionOutcome
  <2>1. s.reentry /\ ~blocked /\ s.reentryElapsed < ReentryTicks
    BY <1>2, Zenon DEF SessionOutcome
  <2>2. sinceOff' <= s.reentryElapsed /\ s.reentryElapsed \in Nat
    BY <1>2, <1>6, <1>12, <2>1 DEF WindowFitsAbsence, AssistType
  <2> QED
    BY <1>11, <2>1, <2>2, FusionAssumption DEF ObserverTypeOK
<1>15. ArmedIsEstablished'
  <2>1. CASE s.armed
    <3>1. established
      BY <1>14, <2>1 DEF SessionInv, ArmedIsEstablished
    <3>2. ~Closed(blocked)
      BY <1>11, <1>14, <2>1, FusionAssumption DEF Closed, ObserverTypeOK
    <3> QED
      BY <1>10, <3>1, <3>2, Zenon DEF ArmedIsEstablished
  <2>2. CASE ~s.armed /\ assist'.armed
    <3>1. both /\ s.pending /\ s.armElapsed >= ArmTicks
      BY <1>6, <2>2, Zenon DEF both
    <3>2. /\ assist.pending
          /\ s.armElapsed = Capped(assist.armElapsed + ticks, ArmTicks)
      BY <1>2, <3>1 DEF SessionOutcome
    <3>3. overlap >= assist.armElapsed
      BY <3>2 DEF SessionInv, ArmingFitsOverlap
    <3>4. overlap' = ArmTicks
      BY <1>1, <1>8, <1>9, <3>1, <3>2, <3>3, FusionAssumption
         DEF Capped, SessionInv, ObserverTypeOK, AssistType
    <3> QED
      BY <1>10, <3>4, Zenon DEF ArmedIsEstablished
  <2> QED
    BY <2>1, <2>2 DEF ArmedIsEstablished
<1>16. MotionIsPresence'
  BY <1>1, <1>6 DEF MotionIsPresence, base
<1>17. LiftedVeto'
  <2> SUFFICES ASSUME exited', ~assist'.veto
               PROVE  ~pir /\ (assist'.armed => StableSlots(tracks') # {})
    BY <1>6 DEF LiftedVeto
  <2>1. ~tr.confirmed /\ ~(pir /\ ~previousPir) /\ (IF drop'.fresh THEN ExitLoss ELSE exited)
    BY <1>4, <1>10, Zenon
  <2>2. ~drop'.fresh
    BY <1>4, <1>6, <2>1, Zenon DEF ExitLoss
  <2>3. exited /\ ~s.veto
    BY <1>4, <1>6, <2>1, <2>2, Zenon
  <2>4. CASE s.armed
    <3>1. ~assist.veto /\ assist.armed
      BY <1>2, <2>3, <2>4, Zenon DEF SessionOutcome
    <3>2. ~previousPir /\ StableSlots(tracks) # {}
      BY <2>3, <3>1, Zenon DEF SessionInv, LiftedVeto
    <3>3. PICK q \in Slots : IsStable(tracks[q])
      BY <3>2 DEF StableSlots
    <3>4. IsStable(tracks'[q])
      BY <1>3, <2>2, <3>3 DEF SlotStep
    <3> QED
      BY <2>1, <3>2, <3>4 DEF StableSlots
  <2>5. CASE ~s.armed
    <3>1. ~previousPir
      <4>1. CASE ~presence
        BY <4>1, Zenon DEF SessionInv, MotionIsPresence
      <4>2. CASE presence
        <5>1. ~assist.veto
          BY <1>2, <2>3, <4>2, Zenon DEF SessionOutcome
        <5> QED
          BY <2>3, <5>1, Zenon DEF SessionInv, LiftedVeto
      <4> QED
        BY <4>1, <4>2
    <3>2. assist'.armed => tr.presence
      BY <1>6, <2>1, <2>5, <3>1, Zenon DEF base
    <3> QED
      BY <1>4, <2>1, <3>1, <3>2, Zenon
  <2> QED
    BY <2>4, <2>5
<1>18. TargetIsOnly'
  <2> SUFFICES ASSUME spatialTarget'
               PROVE  lastCount' = 1
    BY DEF TargetIsOnly
  <2>1. /\ tr.tracks = 1 \/ (tr.tracks = 0 /\ spatialTarget)
        /\ ~ExitLoss
    BY <1>4, <1>6, Zenon DEF ExitLoss
  <2> QED
    BY <1>4, <1>10, <2>1 DEF SessionInv, TargetIsOnly
<1>19. StaticNeedsSession'
  BY <1>6, <1>15, Zenon DEF StaticNeedsSession, ArmedIsEstablished
<1>20. ExitVetoHolds'
  BY <1>4, <1>6, <1>17, Zenon DEF ExitVetoHolds, LiftedVeto, base
<1>21. HeldTargetIsUnambiguous'
  BY <1>6, <1>18, Zenon DEF HeldTargetIsUnambiguous, TargetIsOnly
<1>22. ~presence /\ fused'.active => sinceOff' < ReentryTicks
  BY <1>6, <1>14, Zenon
<1> QED
  BY <1>1, <1>11, <1>12, <1>13, <1>15, <1>16, <1>17, <1>18, <1>19, <1>20, <1>21, <1>22
     DEF SessionInv

LEMMA SessionStepInv ==
  ASSUME SessionInv, [SessionNext]_sessionVars
  PROVE  /\ SessionInv'
         /\ [~presence /\ presence' /\ fused'.active => sinceOff' < ReentryTicks]_sessionVars
<1>1. CASE SessionNext
  BY <1>1, SessionTick DEF SessionNext
<1>2. CASE UNCHANGED sessionVars
  <2>1. SessionInv'
    BY <1>2
       DEF SessionInv, sessionVars, historyVars, vars, trackerVars, fusionVars, debounceVars,
           PipelineTypeOK, TypeOK, ObserverTypeOK, WindowFitsAbsence, ArmingFitsOverlap,
           ArmedIsEstablished, MotionIsPresence, LiftedVeto, TargetIsOnly, StableSlots,
           StaticNeedsSession, ExitVetoHolds, HeldTargetIsUnambiguous
  <2> QED
    BY <1>2, <2>1
<1> QED
  BY <1>1, <1>2

-----------------------------------------------------------------------------
(***************************************************************************)
(* The invariant holds in every state of the presence path.                *)
(***************************************************************************)
THEOREM SessionInvariant == SessionSpec => []SessionInv
BY SessionInitInv, SessionStepInv, PTL DEF SessionSpec

(***************************************************************************)
(* Type correctness of the whole presence path: tracks, session, published  *)
(* outputs and their timers stay in their ranges.                           *)
(***************************************************************************)
THEOREM PipelineTypeCorrectness == SessionSpec => []PipelineTypeOK
<1>1. SessionInv => PipelineTypeOK
  BY DEF SessionInv
<1> QED
  BY <1>1, SessionInvariant, PTL

(***************************************************************************)
(* The static radar never holds presence outside a session that PIR or the  *)
(* tracker established together with it.                                    *)
(***************************************************************************)
THEOREM StaticRadarNeedsSession == SessionSpec => []StaticNeedsSession
<1>1. SessionInv => StaticNeedsSession
  BY DEF SessionInv
<1> QED
  BY <1>1, SessionInvariant, PTL

(***************************************************************************)
(* The static radar never holds presence after an exit until somebody is    *)
(* confirmed or PIR rises, also when the session was closed in between and  *)
(* the veto with it.                                                        *)
(***************************************************************************)
THEOREM ExitsVetoStaticRadar == SessionSpec => []ExitVetoHolds
<1>1. SessionInv => ExitVetoHolds
  BY DEF SessionInv
<1> QED
  BY <1>1, SessionInvariant, PTL

(***************************************************************************)
(* A coordinate that is shown for the static radar is that of the only      *)
(* track there was.                                                         *)
(***************************************************************************)
THEOREM HeldTargetsAreUnambiguous == SessionSpec => []HeldTargetIsUnambiguous
<1>1. SessionInv => HeldTargetIsUnambiguous
  BY DEF SessionInv
<1> QED
  BY <1>1, SessionInvariant, PTL

(***************************************************************************)
(* The static radar brings presence back only inside the reentry window.    *)
(***************************************************************************)
THEOREM StaticRadarReturnsInTime == SessionSpec => StaticReturnsInTime
<1>1. SessionInv /\ [SessionNext]_sessionVars =>
        [~presence /\ presence' /\ fused'.active => sinceOff' < ReentryTicks]_sessionVars
  BY SessionStepInv
<1> QED
  BY <1>1, SessionInvariant, PTL DEF SessionSpec, StaticReturnsInTime

(***************************************************************************)
(* Published motion never without published presence.                       *)
(***************************************************************************)
THEOREM MotionNeverOutlivesPresence == SilenceSpec => []MotionImpliesPresence
<1> DEFINE Inv == PipelineTypeOK /\ MotionIsYounger
<1>1. SilenceInit => Inv
  <2> SUFFICES ASSUME SilenceInit PROVE Inv
    OBVIOUS
  <2>1. PipelineInit
    BY DEF SilenceInit
  <2>2. PipelineTypeOK
    BY <2>1, PipelineInitType
  <2> QED
    BY <2>1, <2>2 DEF PipelineInit, MotionIsYounger
<1>2. Inv /\ [SilenceNext]_silenceVars => Inv'
  <2> SUFFICES ASSUME Inv, [SilenceNext]_silenceVars PROVE Inv'
    OBVIOUS
  <2>1. CASE SensorTick
    BY <2>1, TickStep DEF SensorTick, SomeTick
  <2>2. CASE FallSilent
    BY <2>2 DEF FallSilent, vars, trackerVars, fusionVars, debounceVars, PipelineTypeOK, TypeOK,
                MotionIsYounger
  <2>3. CASE SilentTick
    <3>1. FALSE \in BOOLEAN /\ {} \in SUBSET Targets
      OBVIOUS
    <3> QED
      BY <2>3, <3>1, TickStep DEF SilentTick
  <2>4. CASE UNCHANGED silenceVars
    BY <2>4 DEF silenceVars, vars, trackerVars, fusionVars, debounceVars, PipelineTypeOK, TypeOK,
                MotionIsYounger
  <2> QED
    BY <2>1, <2>2, <2>3, <2>4 DEF SilenceNext
<1>3. Inv => MotionImpliesPresence
  BY DEF MotionIsYounger, MotionImpliesPresence
<1> QED
  BY <1>1, <1>2, <1>3, PTL DEF SilenceSpec
=============================================================================
