---------------------------- MODULE StaticDistance ----------------------------
(* The distance that the static radar (LD2410C) measures, as PresenceFusion  *)
(* uses it: one sample a second into a ring of three, and their median.      *)
EXTENDS Integers, Sequences

CONSTANTS
    Readings,     \* detection_distance_mm when it is finite
    NoReading,    \* NaN: no distance was measured
    SampleTicks   \* STATIC_DISTANCE_SAMPLE_MS, in calls of update

ASSUME StaticDistanceAssumption ==
    /\ Readings \subseteq Int /\ NoReading \notin Int
    /\ SampleTicks \in Nat

VARIABLES
    ring,       \* samples, next place, count, calls since the last sample
    stableDistance,
    taken       \* (history variable) the last three samples, oldest first

staticDistanceVars == <<ring, stableDistance, taken>>

EmptyRing == [samples |-> [i \in 0..2 |-> 0], next |-> 0, count |-> 0, since |-> 0]

Lower(a, b) == IF a < b THEN a ELSE b
Higher(a, b) == IF a < b THEN b ELSE a

\* Bug: the higher of the outer two, whatever the third one is.
MedianOfTwo(a, b, c) == Higher(Lower(a, b), c)

Median(a, b, c) == Higher(Lower(a, b), Lower(Higher(a, b), c))

\* reset_static_distance_
Reset == ring' = EmptyRing /\ stableDistance' = 0 /\ taken' = << >>

Skip == /\ ring' = [ring EXCEPT !.since = Lower(SampleTicks, @ + 1)]
        /\ UNCHANGED <<stableDistance, taken>>

TakeSample(d) ==
    LET samples == [ring.samples EXCEPT ![ring.next] = d]
        count == Lower(3, ring.count + 1)
    IN  /\ ring' = [samples |-> samples, next |-> (ring.next + 1) % 3,
                    count |-> count, since |-> 1]
        /\ stableDistance' = CASE count = 1 -> d
                               [] count = 2 -> stableDistance
                               [] OTHER -> Median(samples[0], samples[1], samples[2])
        /\ taken' = IF Len(taken) = 3 THEN <<taken[2], taken[3], d>> ELSE Append(taken, d)

\* update_static_distance_: detected is available and presence.
Measure(detected, d) ==
    IF ~detected THEN Reset
    ELSE IF d = NoReading \/ d <= 0 \/ (ring.count > 0 /\ ring.since < SampleTicks) THEN Skip
    ELSE TakeSample(d)

StaticDistanceInit == ring = EmptyRing /\ stableDistance = 0 /\ taken = << >>
StaticDistanceNext == \E detected \in BOOLEAN, d \in Readings \union {NoReading} :
                          Measure(detected, d)
StaticDistanceSpec == StaticDistanceInit /\ [][StaticDistanceNext]_staticDistanceVars

-----------------------------------------------------------------------------
(* Properties.                                                               *)

Between(v, a, b) == (a <= v /\ v <= b) \/ (b <= v /\ v <= a)

\* Until there are three samples the distance is the first of them; then it
\* lies between any two of the last three, so that a single one that is wrong
\* never moves it away from the others, wherever it fell into the ring.
OutlierIsIgnored ==
    IF Len(taken) = 3
    THEN \A i, j \in 1..3 : i # j => Between(stableDistance, taken[i], taken[j])
    ELSE stableDistance = IF taken = << >> THEN 0 ELSE taken[1]
=============================================================================
