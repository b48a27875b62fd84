---------------------------- MODULE PresenceSession ----------------------------
(***************************************************************************)
(* What the presence path promises about the static radar, stated over     *)
(* histories of its inputs and outputs.  The history variables record what *)
(* an observer of the sensors and of the published presence would write    *)
(* down; no action reads them, and none copies a variable of the code.     *)
(***************************************************************************)
EXTENDS PresencePipeline

VARIABLES
  overlap,      \* ticks PIR/tracker and static evidence have lasted together
                \* without a break (-1: not in the last frame)
  established,  \* such an overlap lasted ArmTicks in the present session
  sinceOff,     \* ticks since the first frame that found presence off (-1:
                \* the last frame found it on)
  exited,       \* the last loss of a track was an exit, nobody was seen since
  lastCount     \* tracks in the last frame with any, 0 after an exit

historyVars == <<overlap, established, sinceOff, exited, lastCount>>
sessionVars == <<vars, historyVars>>

OffCap == ReentryTicks + 1

(* What the frame showed, from its inputs and the tracker's result. *)
BaseEvidence(pir, blocked) == pir \/ (~blocked /\ StableSlots(tracks') # {})

SomebodyConfirmed == \E s \in Slots : tracks'[s].state = "confirmed"

ExitLoss == drop'.fresh /\ drop'.reason \in ExitDrops

(* A session is closed by a blocked frame while presence is off, or when    *)
(* presence stayed off for the reentry window.                              *)
Closed(blocked) == ~presence /\ (blocked \/ sinceOff' >= ReentryTicks)

Observe(ticks, pir, blocked, static) ==
  LET both  == ~blocked /\ static /\ BaseEvidence(pir, blocked)
      count == Cardinality(StableSlots(tracks'))
  IN  /\ overlap' = IF ~both THEN -1
                    ELSE IF overlap = -1 THEN 0 ELSE Capped(overlap + ticks, ArmTicks)
      /\ sinceOff' = IF presence THEN -1
                     ELSE IF sinceOff = -1 THEN 0 ELSE Capped(sinceOff + ticks, OffCap)
      /\ established' = (overlap' = ArmTicks \/ (established /\ ~Closed(blocked)))
      /\ exited' = /\ IF drop'.fresh THEN ExitLoss ELSE exited
                   /\ ~SomebodyConfirmed
                   /\ ~(pir /\ ~previousPir)
      /\ lastCount' = IF ExitLoss THEN 0 ELSE IF count > 0 THEN count ELSE lastCount

SessionInit ==
  /\ PipelineInit
  /\ overlap = -1 /\ established = FALSE /\ sinceOff = OffCap
  /\ exited = FALSE /\ lastCount = 0

SessionNext ==
  \E ticks \in Elapses, pir, blocked, static \in BOOLEAN, valid \in SUBSET Targets :
     /\ blocked => valid = {}
     /\ Tick(ticks, pir, blocked, static, valid)
     /\ Observe(ticks, pir, blocked, static)

SessionSpec == SessionInit /\ [][SessionNext]_sessionVars

(***************************************************************************)
(* "Static radar alone cannot start presence" (docs/presence-tracker.md):   *)
(* it holds presence only in a session in which PIR or the tracker and the  *)
(* static radar overlapped for ArmTicks, and which did not close since.     *)
(***************************************************************************)
StaticNeedsSession == fused.active => established

(***************************************************************************)
(* After a track left through an exit, the static radar does not hold       *)
(* presence until somebody is confirmed again or PIR sees new motion.       *)
(***************************************************************************)
ExitVetoHolds == fused.active => ~exited

(***************************************************************************)
(* The coordinate shown while the static radar holds presence is that of    *)
(* the only track there was, never one of several or of one that left.      *)
(***************************************************************************)
HeldTargetIsUnambiguous == fused.held => lastCount = 1

(***************************************************************************)
(* The static radar brings presence back only within the reentry window,    *)
(* counted from the first frame that found presence off.                    *)
(***************************************************************************)
StaticReturnsInTime ==
  [][~presence /\ presence' /\ fused'.active => sinceOff' < ReentryTicks]_sessionVars
=============================================================================
