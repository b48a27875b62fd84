---------------------------- MODULE PresenceFusion ----------------------------
(***************************************************************************)
(* The fusion of PIR, LD2450 tracker and LD2410C static radar of           *)
(* src/components/radar_api_server/presence_fusion.cpp.                    *)
(*                                                                         *)
(* PIR and tracker evidence make presence.  The static radar may only keep *)
(* a session the other two established: it is armed after overlapping them *)
(* for STATIC_ASSIST_ARM_MS, an exit drop of the tracker vetoes it, and    *)
(* after the session ended it may bring it back for                        *)
(* STATIC_ASSIST_REENTRY_MS.                                               *)
(*                                                                         *)
(* What is abstract.  Time stamps are kept as ages in loop ticks, capped   *)
(* where the code compares them (differences of uint32 millis are exact    *)
(* across a wrap, so ages lose nothing).  The retained coordinate is       *)
(* reduced to whether there is one.  Reason strings and the distance       *)
(* median are left out.                                                    *)
(***************************************************************************)
EXTENDS Integers

CONSTANTS
  ArmTicks,       \* STATIC_ASSIST_ARM_MS in ticks (4)
  ReentryTicks    \* STATIC_ASSIST_REENTRY_MS in ticks (60)

ASSUME FusionAssumption ==
  /\ ArmTicks \in Nat \ {0}
  /\ ReentryTicks \in Nat \ {0}

VARIABLES
  assist,         \* the static assist session, see AssistType
  previousPir,    \* previous_pir_motion_
  previousStable, \* previous_stable_presence_
  spatialTarget,  \* last_spatial_target_valid_
  fused           \* output_: presence, motion, static_assist_active, held target

fusionVars == <<assist, previousPir, previousStable, spatialTarget, fused>>

(***************************************************************************)
(* pending/armElapsed: static_assist_arm_pending_ and the time since       *)
(* arm_started; reentry/reentryElapsed: static_assist_reentry_pending_ and *)
(* the time since reentry_started.                                         *)
(***************************************************************************)
AssistType ==
  [armed : BOOLEAN, pending : BOOLEAN, veto : BOOLEAN, reentry : BOOLEAN,
   armElapsed : 0 .. ArmTicks, reentryElapsed : 0 .. ReentryTicks]

NoSession ==
  [armed |-> FALSE, pending |-> FALSE, veto |-> FALSE, reentry |-> FALSE,
   armElapsed |-> 0, reentryElapsed |-> 0]

Capped(n, cap) == IF n < cap THEN n ELSE cap

(* The time that passes before an update, seen from the stored stamps. *)
Elapsed(a, ticks) ==
  [a EXCEPT !.armElapsed     = IF a.pending THEN Capped(@ + ticks, ArmTicks) ELSE 0,
            !.reentryElapsed = IF a.reentry THEN Capped(@ + ticks, ReentryTicks) ELSE 0]

(* Bug: an armed session outlives the reentry window. *)
EndlessSession(a, stable, blocked) ==
  LET opened == IF previousStable /\ ~stable /\ a.armed /\ ~a.veto /\ ~blocked
                THEN [a EXCEPT !.reentry = TRUE, !.reentryElapsed = 0] ELSE a
  IN  IF stable THEN [a EXCEPT !.reentry = FALSE, !.reentryElapsed = 0]
      ELSE IF ~opened.reentry THEN NoSession ELSE opened

(* Bug: the window is restarted by every frame without presence. *)
RestartedWindow(a, stable, blocked) ==
  LET opened == IF ~stable /\ a.armed /\ ~a.veto /\ ~blocked
                THEN [a EXCEPT !.reentry = TRUE, !.reentryElapsed = 0] ELSE a
  IN  IF stable THEN [a EXCEPT !.reentry = FALSE, !.reentryElapsed = 0]
      ELSE IF ~opened.reentry \/ blocked THEN NoSession ELSE opened

(***************************************************************************)
(* The session part of update(): stable is the debounced presence of the   *)
(* previous tick.  Without it the session survives only inside the reentry *)
(* window, which opens when an armed, unvetoed session ends unblocked.     *)
(***************************************************************************)
SessionAfterStable(a, stable, blocked) ==
  LET ended  == previousStable /\ ~stable
      opened == IF ended /\ a.armed /\ ~a.veto /\ ~blocked
                THEN [a EXCEPT !.reentry = TRUE, !.reentryElapsed = 0] ELSE a
      over   == \/ ~opened.reentry
                \/ opened.reentryElapsed >= ReentryTicks
                \/ blocked
  IN  IF stable THEN [a EXCEPT !.reentry = FALSE, !.reentryElapsed = 0]
      ELSE IF over THEN NoSession ELSE opened

SessionReset(a, stable, blocked) ==
  ~stable /\ ~SessionAfterStable(a, stable, blocked).reentry

(* Bug: motion that was there before the loss lifts the veto. *)
LevelVeto(a, newDrop, exitDrop, confirmed, pir, stable) ==
  [a EXCEPT !.veto = (IF newDrop THEN exitDrop ELSE @) /\ ~confirmed /\ ~(pir /\ stable)]

(* A drop not processed before sets or clears the exit veto; a confirmed    *)
(* track, or PIR rising while presence is stable, clears it.                *)
Vetoed(a, newDrop, exitDrop, confirmed, pir, stable) ==
  LET reacquired == confirmed \/ (pir /\ ~previousPir /\ stable)
  IN  [a EXCEPT !.veto = (IF newDrop THEN exitDrop ELSE @) /\ ~reacquired]

(* Arming needs base and static evidence in every update for ArmTicks. *)
Armed(a, canArm) ==
  CASE a.armed -> a
    [] ~a.armed /\ ~canArm -> [a EXCEPT !.pending = FALSE, !.armElapsed = 0]
    [] ~a.armed /\ canArm /\ ~a.pending -> [a EXCEPT !.pending = TRUE, !.armElapsed = 0]
    [] OTHER -> IF a.armElapsed >= ArmTicks
                THEN [a EXCEPT !.armed = TRUE, !.pending = FALSE, !.armElapsed = 0]
                ELSE a

(* Bug: a second track does not make the coordinate ambiguous. *)
StaleCoordinate(tr, reset) == tr.tracks = 1 \/ (spatialTarget /\ ~reset)

(* Whether a display coordinate is retained: the last one of the only track, *)
(* forgotten with the session, after an exit and when tracks are ambiguous.  *)
RetainedTarget(tr, reset) ==
  /\ tr.tracks = 1 \/ (tr.tracks = 0 /\ spatialTarget /\ ~reset)
  /\ ~(tr.newDrop /\ tr.exitDrop)

(***************************************************************************)
(* One update().  tr is the tracker output of the same tick: presence,     *)
(* motion, confirmed (a confirmed track exists), tracks (the number of     *)
(* confirmed and coasting tracks), newDrop (drop_ms is set and was not     *)
(* processed before) and exitDrop (its reason is an exit).                 *)
(***************************************************************************)
Fuse(ticks, pir, blocked, stable, staticPresent, tr) ==
  LET session  == SessionAfterStable(Elapsed(assist, ticks), stable, blocked)
      base     == pir \/ (~blocked /\ tr.presence)
      vetoed   == Vetoed(session, tr.newDrop, tr.exitDrop, tr.confirmed, pir, stable)
      armed    == Armed(vetoed, ~blocked /\ ~vetoed.veto /\ base /\ staticPresent)
      active   == ~blocked /\ ~armed.veto /\ armed.armed /\ staticPresent /\ ~base
      reset    == SessionReset(Elapsed(assist, ticks), stable, blocked)
      target   == RetainedTarget(tr, reset)
  IN  /\ assist' = armed
      /\ previousPir' = pir
      /\ previousStable' = stable
      /\ spatialTarget' = target
      /\ fused' = [presence |-> base \/ active,
                   motion   |-> ~blocked /\ (pir \/ tr.motion),
                   active   |-> active,
                   held     |-> active /\ target]

FusionInit ==
  /\ assist = NoSession
  /\ previousPir = FALSE
  /\ previousStable = FALSE
  /\ spatialTarget = FALSE
  /\ fused = [presence |-> FALSE, motion |-> FALSE, active |-> FALSE, held |-> FALSE]
=============================================================================
