------------------------------ MODULE TrackFilter ------------------------------
(* The filter of one track and the direction it walks in.  Of the Kalman     *)
(* filter's covariance the model keeps which of the 16 entries may differ    *)
(* from zero: rows and columns 0 and 1 are the position, 2 and 3 the speed,  *)
(* even ones of x and odd ones of y.  Which value the filter comes to is     *)
(* open: the radial velocity after a step is any of RadialSpeeds.            *)
EXTENDS Integers, Sequences

CONSTANTS
    RadialSpeeds,           \* cm/s, away from the radar
    StationarySpeeds,       \* what the user may set meanwhile, cm/s
    EnterPercent,           \* direction_enter_speed_multiplier, 80
    ExitPercent,            \* direction_exit_speed_multiplier, 60
    MaxSteps                \* bound: steps of a track

ASSUME TrackFilterAssumption ==
    /\ RadialSpeeds \subseteq Int /\ 0 \in RadialSpeeds
    /\ StationarySpeeds \subseteq Nat
    /\ EnterPercent \in Nat /\ ExitPercent \in Nat /\ ExitPercent <= EnterPercent

VARIABLES
    covariance,  \* the entries that may differ from zero, {} for no track
    direction,
    heard        \* (history variable) the track's steps: velocity and setting

filterVars == <<covariance, direction, heard>>

Row == 0..3
Position == 0..1

-----------------------------------------------------------------------------
(* The covariance.                                                           *)

\* reset_filter_
Fresh == {<<i, i>> : i \in Row}

\* Bug: a position is carried on with the speed of the other axis.
PredictedAcross(c) ==
    LET fp == c \union {p \in Position \X Row : <<3 - p[1], p[2]>> \in c}
    IN  fp \union {p \in Row \X Position : <<p[1], 3 - p[2]>> \in fp} \union Fresh

\* predict_filter_: F P F' and the process noise.
Predicted(c) ==
    LET fp == c \union {p \in Position \X Row : <<p[1] + 2, p[2]>> \in c}
    IN  fp \union {p \in Row \X Position : <<p[1], p[2] + 2>> \in fp}
           \union Fresh \union {<<0, 2>>, <<2, 0>>, <<1, 3>>, <<3, 1>>}

\* update_filter_: the gain times the innovation's two rows.
Inverse2(c) == {<<0, 0>>, <<1, 1>>} \union (c \intersect {<<0, 1>>, <<1, 0>>})
GainOf(c) == {p \in Row \X Position :
                \E l \in Position : <<p[1], l>> \in c /\ <<l, p[2]>> \in Inverse2(c)}
Corrected(c) ==
    c \union {p \in Row \X Row :
                  \E k \in Position : <<p[1], k>> \in GainOf(c) /\ <<k, p[2]>> \in c}

\* The determinant s00 * s11 - s01 * s10 is that of positive entries, unless
\* both of the mixed ones count.
Degenerate(c) == {<<0, 1>>, <<1, 0>>} \subseteq c

-----------------------------------------------------------------------------
(* The direction.                                                            *)

\* Bug: a direction is left at the speed at which it would be entered.
TurnedWithoutHysteresis(d, v, s) ==
    IF 100 * v > EnterPercent * s THEN "moving away"
    ELSE IF 100 * v < -(EnterPercent * s) THEN "approaching"
    ELSE "stationary"

\* update_direction_
Turned(d, v, s) ==
    IF 100 * v > EnterPercent * s THEN "moving away"
    ELSE IF 100 * v < -(EnterPercent * s) THEN "approaching"
    ELSE IF d = "moving away" /\ 100 * v > ExitPercent * s THEN d
    ELSE IF d = "approaching" /\ 100 * v < -(ExitPercent * s) THEN d
    ELSE "stationary"

\* refresh_track_kinematics_: near the radar the radial velocity counts as 0.
Refresh(v) ==
    \E s \in StationarySpeeds :
        /\ direction' = Turned(direction, v, s)
        /\ heard' = Append(heard, <<v, s>>)

-----------------------------------------------------------------------------
(* The steps of a track.                                                     *)

Begin ==
    /\ covariance = {}
    /\ covariance' = Fresh /\ Refresh(0)

\* The target is too far from where the track is expected.
Jump ==
    /\ covariance # {} /\ Len(heard) < MaxSteps
    /\ covariance' = Fresh /\ Refresh(0)

\* Without time between two calls nothing is predicted.
Follow ==
    /\ covariance # {} /\ Len(heard) < MaxSteps
    /\ \E c \in {covariance, Predicted(covariance)} :
          IF Degenerate(c) THEN covariance' = Fresh /\ Refresh(0)
          ELSE covariance' = Corrected(c) /\ \E v \in RadialSpeeds : Refresh(v)

\* No target was matched.
Age ==
    /\ covariance # {} /\ Len(heard) < MaxSteps
    /\ covariance' \in {covariance, Predicted(covariance)}
    /\ \E v \in RadialSpeeds : Refresh(v)

Expire ==
    /\ covariance # {}
    /\ covariance' = {} /\ direction' = "stationary" /\ heard' = << >>

FilterInit == covariance = {} /\ direction = "stationary" /\ heard = << >>
FilterNext == Begin \/ Jump \/ Follow \/ Age \/ Expire
FilterSpec == FilterInit /\ [][FilterNext]_filterVars

-----------------------------------------------------------------------------
(* Properties.                                                               *)

FilterTypeOK ==
    /\ covariance \subseteq Row \X Row
    /\ direction \in {"approaching", "moving away", "stationary"}
    /\ heard \in Seq(RadialSpeeds \X StationarySpeeds)

\* However often a track is predicted and corrected, x and y stay independent:
\* the filter of a track that is followed is never started anew because its
\* matrix cannot be inverted.
AxesStayApart == \A p \in covariance : p[1] % 2 = p[2] % 2

\* A track moves away since a step that was fast enough to enter that
\* direction if no later one was too slow to stay in it or fast enough the
\* other way, and approaches likewise, with the setting of each step.
Fast(h, sign) == 100 * sign * h[1] > EnterPercent * h[2]
Slow(h, sign) == 100 * sign * h[1] <= ExitPercent * h[2] /\ ~Fast(h, sign)
Earned(sign) ==
    \E i \in DOMAIN heard :
        /\ Fast(heard[i], sign)
        /\ \A j \in DOMAIN heard : j > i => ~Slow(heard[j], sign) /\ ~Fast(heard[j], -sign)
DirectionIsEarned ==
    /\ direction = "moving away" <=> Earned(1)
    /\ direction = "approaching" <=> Earned(-1)
=============================================================================
