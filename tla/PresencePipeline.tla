--------------------------- MODULE PresencePipeline ---------------------------
(***************************************************************************)
(* The presence path of the 500 ms loop                                    *)
(* (src/packages/namo/lambdas/interval-500ms.yaml): one tick runs the      *)
(* tracker, then the fusion, which is given the debounced presence of the  *)
(* PREVIOUS tick, then the debounce that makes the published presence and  *)
(* motion.  The lambda runs to completion in the main loop, so a tick is   *)
(* one action; between two ticks one or more tick periods may pass.        *)
(*                                                                         *)
(* The loop is modelled with legacyPresenceFallback off, the default of    *)
(* the device configuration.                                               *)
(***************************************************************************)
EXTENDS PresenceTracker, PresenceFusion

CONSTANTS
  PresenceHold,   \* ticks presence outlives its evidence (6 = 3 s)
  MotionHold      \* ticks motion outlives its evidence (1 = 0.5 s)

ASSUME HoldAssumption ==
  /\ PresenceHold \in Nat \ {0}
  /\ MotionHold \in Nat \ {0}
  /\ MotionHold <= PresenceHold

VARIABLES
  presence,       \* state_presence_stable
  presenceIdle,   \* time since state_presence_last_on_ms, capped at the hold
  motion,         \* state_motion_stable
  motionIdle      \* time since state_motion_last_on_ms, capped at the hold

debounceVars == <<presence, presenceIdle, motion, motionIdle>>
vars == <<trackerVars, fusionVars, debounceVars>>

(* rebuild_output_: what the fusion reads of the tracker. *)
TrackerOutput(T, d) ==
  [presence  |-> StableSlots(T) # {},
   motion    |-> \E s \in Slots : T[s].state = "confirmed" /\ T[s].moving,
   confirmed |-> \E s \in Slots : T[s].state = "confirmed",
   tracks    |-> Cardinality(StableSlots(T)),
   newDrop   |-> d.reason # "none" /\ d.fresh,
   exitDrop  |-> d.reason \in ExitDrops]

(* Bug: the hold is restarted while the output is on. *)
RestartedHold(raw, on, idle, ticks, hold) ==
  LET waited == IF on THEN 0 ELSE Capped(idle + ticks, hold)
  IN  [on |-> raw \/ (on /\ waited < hold), idle |-> IF raw THEN 0 ELSE waited]

(* Evidence switches an output on at once, its absence off after the hold. *)
Debounce(raw, on, idle, ticks, hold) ==
  LET waited == Capped(idle + ticks, hold)
  IN  [on   |-> raw \/ (on /\ waited < hold),
       idle |-> IF raw THEN 0 ELSE waited]

Publish(ticks, rawPresence, rawMotion) ==
  LET p == Debounce(rawPresence, presence, presenceIdle, ticks, PresenceHold)
      m == Debounce(rawMotion, motion, motionIdle, ticks, MotionHold)
  IN  /\ presence' = p.on /\ presenceIdle' = p.idle
      /\ motion' = m.on   /\ motionIdle' = m.idle

(* One run of the loop. *)
Tick(ticks, pir, blocked, static, valid) ==
  /\ IF blocked THEN BlockedFrame(ticks) ELSE TrackFrame(ticks, pir, valid)
  /\ Fuse(ticks, pir, blocked, presence, static, TrackerOutput(tracks', drop'))
  /\ Publish(ticks, fused'.presence, fused'.motion)

PipelineInit ==
  /\ Init
  /\ FusionInit
  /\ presence = FALSE /\ presenceIdle = 0
  /\ motion = FALSE   /\ motionIdle = 0

(* ESPHome calls the interval for as long as the device runs. *)
SomeTick ==
  \E ticks \in Elapses, pir, blocked, static \in BOOLEAN, valid \in SUBSET Targets :
     (blocked => valid = {}) /\ Tick(ticks, pir, blocked, static, valid)

-----------------------------------------------------------------------------
PipelineTypeOK ==
  /\ TypeOK
  /\ assist \in AssistType
  /\ previousPir \in BOOLEAN /\ previousStable \in BOOLEAN /\ spatialTarget \in BOOLEAN
  /\ fused \in [presence : BOOLEAN, motion : BOOLEAN, active : BOOLEAN, held : BOOLEAN]
  /\ presence \in BOOLEAN /\ presenceIdle \in 0 .. PresenceHold
  /\ motion \in BOOLEAN /\ motionIdle \in 0 .. MotionHold

(***************************************************************************)
(* Motion is never published without presence, although the two are held    *)
(* by separate timers: evidence of motion is evidence of presence, and      *)
(* presence is held at least as long.                                       *)
(***************************************************************************)
MotionImpliesPresence == motion => presence
=============================================================================
