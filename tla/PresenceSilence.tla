--------------------------- MODULE PresenceSilence ---------------------------
(***************************************************************************)
(* The presence path when, at some moment, every sensor falls silent for   *)
(* good.  The interval of ESPHome goes on running (interval: 500ms), so a  *)
(* silent tick that still changes something does happen in the end.        *)
(***************************************************************************)
EXTENDS PresencePipeline

VARIABLE silent    \* the sensors have fallen silent

silenceVars == <<vars, silent>>

(* One frame in which no sensor reports anything; it may still be blocked. *)
SilentTick ==
  /\ silent
  /\ \E ticks \in Elapses, blocked \in BOOLEAN : Tick(ticks, FALSE, blocked, FALSE, {})
  /\ UNCHANGED silent

SensorTick == ~silent /\ SomeTick /\ UNCHANGED silent

FallSilent == ~silent /\ silent' = TRUE /\ UNCHANGED vars

SilenceInit == PipelineInit /\ silent = FALSE

SilenceNext == SensorTick \/ FallSilent \/ SilentTick

SilenceSpec == SilenceInit /\ [][SilenceNext]_silenceVars /\ WF_silenceVars(SilentTick)

(***************************************************************************)
(* Once the sensors stay silent for good, the whole path forgets: tracks,   *)
(* static assist session and published outputs all return to their initial  *)
(* state, however they were entangled before.                               *)
(***************************************************************************)
SilenceEndsPresence ==
  silent ~> (/\ ~presence /\ ~motion
             /\ \A s \in Slots : tracks[s] = IdleTrack
             /\ assist = NoSession)
=============================================================================
