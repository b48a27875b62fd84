-------------------------- MODULE ObservationProofs --------------------------
(* Proofs about what is made of the measurements: StaticDistance, for all    *)
(* distances and sampling intervals; TrackFilter, for every speed, every     *)
(* setting of the user and every number of steps; LegacyPresence, for all    *)
(* gains, decays and delays; DiagnosticLogs, for rings of every size, every  *)
(* retention and every way the writer and a download interleave; ReplayLine, *)
(* for whatever is measured; and of ZoneGeometry the distance to the         *)
(* boundary, for areas of any number of corners.                             *)
EXTENDS TrackFilter, StaticDistance, LegacyPresence, DiagnosticLogs, ReplayLine,
        ZoneGeometry, WellFoundedInduction, TLAPS

-----------------------------------------------------------------------------
(* The static distance.                                                      *)

\* The ring holds the samples that were taken, the oldest where the next one
\* goes once it is full.
RingInv ==
    /\ ring.samples \in [0..2 -> Int] /\ ring.next \in 0..2 /\ ring.count = Len(taken)
    /\ taken \in Seq(Int) /\ Len(taken) \in 0..3 /\ stableDistance \in Int
    /\ Len(taken) < 3 => /\ ring.next = Len(taken)
                         /\ \A i \in 1..Len(taken) : ring.samples[i - 1] = taken[i]
    /\ Len(taken) = 3 => \A i \in 1..3 : ring.samples[(ring.next + i - 1) % 3] = taken[i]
    /\ OutlierIsIgnored

LEMMA MedianIsBetween ==
  ASSUME NEW a \in Int, NEW b \in Int, NEW c \in Int
  PROVE  /\ Median(a, b, c) \in Int
         /\ Between(Median(a, b, c), a, b)
         /\ Between(Median(a, b, c), b, c)
         /\ Between(Median(a, b, c), a, c)
BY SMT DEF Median, Between, Lower, Higher

LEMMA SampleKeepsRingInv ==
  ASSUME RingInv, NEW d \in Int, TakeSample(d)
  PROVE  RingInv'
<1> DEFINE n == Len(taken)
           s == [ring.samples EXCEPT ![ring.next] = d]
<1>1. /\ ring.next \in {0, 1, 2} /\ n \in 0..3 /\ ring.count = n /\ taken \in Seq(Int)
      /\ s \in [0..2 -> Int] /\ s[ring.next] = d
      /\ \A k \in 0..2 : k # ring.next => s[k] = ring.samples[k]
  BY DEF RingInv
<1> n = Len(taken)
  OBVIOUS
<1> HIDE DEF n, s
<1>2. /\ ring'.samples = s /\ ring'.next = (ring.next + 1) % 3
      /\ ring'.count = Lower(3, n + 1)
  BY <1>1 DEF TakeSample, s
<1>5. Lower(3, n + 1) = IF n = 3 THEN 3 ELSE n + 1
  <2>1. n \in Int /\ n <= 3
    BY <1>1
  <2>2. \A k \in Int : k <= 3 => Lower(3, k + 1) = IF k = 3 THEN 3 ELSE k + 1
    BY SMT DEF Lower
  <2> QED BY <2>1, <2>2
<1>6. stableDistance' = CASE Lower(3, n + 1) = 1 -> d
                          [] Lower(3, n + 1) = 2 -> stableDistance
                          [] OTHER -> Median(s[0], s[1], s[2])
  BY <1>1 DEF TakeSample, s
<1>7. taken' = IF n = 3 THEN <<taken[2], taken[3], d>> ELSE Append(taken, d)
  BY DEF TakeSample
<1>3. CASE n < 3
  <2>1. /\ taken' = Append(taken, d) /\ taken' \in Seq(Int) /\ Len(taken') = n + 1
        /\ taken'[n + 1] = d /\ \A i \in 1..n : taken'[i] = taken[i]
    <3>1. taken' = Append(taken, d)
      BY <1>3, <1>7
    <3>2. Len(taken) \in Nat
      BY <1>1
    <3> QED BY <1>1, <3>1
  <2>2. ring.next = n /\ n \in {0, 1, 2} /\ \A i \in 1..n : s[i - 1] = taken[i]
    BY <1>1, <1>3 DEF RingInv
  <2>3. \A i \in 1..(n + 1) : s[i - 1] = taken'[i]
    <3>1. s[(n + 1) - 1] = taken'[n + 1]
      <4>1. (n + 1) - 1 = ring.next
        BY <2>2
      <4>2. s[ring.next] = d
        BY <1>1
      <4> QED
        BY <2>1, <4>1, <4>2
    <3>2. ASSUME NEW i \in 1..n
          PROVE  s[i - 1] = taken'[i]
      BY <2>1, <2>2
    <3>3. \A i \in 1..(n + 1) : i = n + 1 \/ i \in 1..n
      BY <1>1
    <3> QED
      BY <3>1, <3>2, <3>3
  <2>4. ring'.count = n + 1
    BY <1>2, <1>3, <1>5
  <2>5. CASE n < 2
    <3>1. ring'.next = n + 1
      BY <1>2, <2>2, <2>5
    <3>2. stableDistance' \in Int /\ stableDistance' = taken'[1]
      <4>1. CASE n = 0
        BY <1>5, <1>6, <2>1, <4>1
      <4>2. CASE n = 1
        <5>1. stableDistance' = stableDistance /\ stableDistance = taken[1] /\ stableDistance \in Int
          <6>1. stableDistance' = stableDistance
            BY <1>5, <1>6, <4>2
          <6>2. Len(taken) = 1 /\ Len(taken) # 3 /\ taken # << >>
            <7>1. Len(taken) = 1
              BY <4>2
            <7>2. Len(<< >>) = 0
              OBVIOUS
            <7> QED BY <7>1, <7>2
          <6> QED BY <6>1, <6>2 DEF RingInv, OutlierIsIgnored
        <5> QED BY <2>1, <4>2, <5>1
      <4> QED BY <2>2, <2>5, <4>1, <4>2
    <3>3. Len(taken') < 3 /\ taken' # << >>
      BY <2>1, <2>2, <2>5
    <3>4. OutlierIsIgnored'
      BY <3>2, <3>3 DEF OutlierIsIgnored
    <3> QED BY <1>1, <1>2, <2>1, <2>2, <2>3, <2>4, <2>5, <3>1, <3>2, <3>4 DEF RingInv
  <2>6. CASE n = 2
    <3>1. ring'.next = 0 /\ Len(taken') = 3
      BY <1>2, <2>1, <2>2, <2>6
    <3>2. s[0] = taken'[1] /\ s[1] = taken'[2] /\ s[2] = taken'[3]
      BY <2>3, <2>6
    <3>3. stableDistance' = Median(s[0], s[1], s[2])
      BY <1>5, <1>6, <2>6
    <3> DEFINE m == Median(s[0], s[1], s[2])
    <3>4. s[0] \in Int /\ s[1] \in Int /\ s[2] \in Int
      BY <1>1
    <3>5. m \in Int /\ Between(m, s[0], s[1]) /\ Between(m, s[1], s[2]) /\ Between(m, s[0], s[2])
      BY <3>4, MedianIsBetween
    <3>6. \A i, j \in 1..3 : i # j => Between(m, taken'[i], taken'[j])
      <4> HIDE DEF m
      <4> QED BY <3>2, <3>4, <3>5 DEF Between
    <3>7. stableDistance' \in Int /\ OutlierIsIgnored'
      BY <3>1, <3>3, <3>5, <3>6 DEF OutlierIsIgnored
    <3>8. s[(0 + 1 - 1) % 3] = taken'[1] /\ s[(0 + 2 - 1) % 3] = taken'[2]
          /\ s[(0 + 3 - 1) % 3] = taken'[3]
      BY <3>2
    <3>9. \A i \in 1..3 : ring'.samples[(ring'.next + i - 1) % 3] = taken'[i]
      <4>1. ring'.samples = s /\ ring'.next = 0
        BY <1>2, <3>1
      <4> QED BY <3>8, <4>1
    <3> QED BY <1>1, <1>2, <2>1, <2>4, <2>6, <3>1, <3>7, <3>9 DEF RingInv
  <2> QED BY <2>2, <2>5, <2>6
<1>4. CASE n = 3
  <2>1. taken' = <<taken[2], taken[3], d>>
    BY <1>4, <1>7
  <2>2. /\ taken' \in Seq(Int) /\ Len(taken') = 3
        /\ taken'[1] = taken[2] /\ taken'[2] = taken[3] /\ taken'[3] = d
    <3>1. taken[2] \in Int /\ taken[3] \in Int
      <4>1. \A i \in 1..n : taken[i] \in Int
        BY <1>1
      <4> QED BY <1>4, <4>1
    <3> QED BY <2>1, <3>1
  <2>3. /\ ring.samples[(ring.next + 1) % 3] = taken[2]
        /\ ring.samples[(ring.next + 2) % 3] = taken[3]
    <3>1. \A i \in 1..3 : ring.samples[(ring.next + i - 1) % 3] = taken[i]
      BY <1>4 DEF RingInv
    <3>2. /\ ring.samples[(ring.next + 2 - 1) % 3] = taken[2]
          /\ ring.samples[(ring.next + 3 - 1) % 3] = taken[3]
      BY <3>1
    <3> QED BY <1>1, <3>2
  <2>4. /\ ring.next = 0 => s[0] = d /\ s[1] = taken[2] /\ s[2] = taken[3]
        /\ ring.next = 1 => s[1] = d /\ s[2] = taken[2] /\ s[0] = taken[3]
        /\ ring.next = 2 => s[2] = d /\ s[0] = taken[2] /\ s[1] = taken[3]
    BY <1>1, <2>3
  <2>10. \A i \in 1..3 : ring'.samples[(ring'.next + i - 1) % 3] = taken'[i]
    <3>1. /\ ring'.next = IF ring.next = 2 THEN 0 ELSE ring.next + 1
          /\ ring'.samples = s
      BY <1>1, <1>2
    <3>2. /\ s[(ring'.next + 1 - 1) % 3] = taken[2]
          /\ s[(ring'.next + 2 - 1) % 3] = taken[3]
          /\ s[(ring'.next + 3 - 1) % 3] = d
      BY <1>1, <2>4, <3>1
    <3> QED BY <2>2, <3>1, <3>2
  <2>5. stableDistance' = Median(s[0], s[1], s[2])
    BY <1>4, <1>5, <1>6
  <2>6. s[0] \in Int /\ s[1] \in Int /\ s[2] \in Int
    BY <1>1
  <2>8. OutlierIsIgnored' /\ stableDistance' \in Int
    <3> DEFINE m == Median(s[0], s[1], s[2])
    <3>1. m \in Int /\ Between(m, s[0], s[1]) /\ Between(m, s[1], s[2]) /\ Between(m, s[0], s[2])
      BY <2>6, MedianIsBetween
    <3>2. \A i, j \in 1..3 : i # j => Between(m, taken'[i], taken'[j])
      <4>1. \/ taken'[1] = s[1] /\ taken'[2] = s[2] /\ taken'[3] = s[0]
            \/ taken'[1] = s[2] /\ taken'[2] = s[0] /\ taken'[3] = s[1]
            \/ taken'[1] = s[0] /\ taken'[2] = s[1] /\ taken'[3] = s[2]
        BY <1>1, <2>2, <2>4
      <4> HIDE DEF m
      <4> QED BY <2>6, <3>1, <4>1 DEF Between
    <3> QED BY <2>2, <2>5, <3>1, <3>2 DEF OutlierIsIgnored
  <2>9. ring'.count = 3 /\ ring'.next \in 0..2
    BY <1>1, <1>2, <1>4, <1>5
  <2> QED BY <1>1, <1>2, <2>2, <2>8, <2>9, <2>10 DEF RingInv
<1> QED BY <1>1, <1>3, <1>4

\* A single sample that is wrong never moves the distance away from the two
\* others of the last three, for every sequence of measurements.
THEOREM OneOutlierIsIgnored == StaticDistanceSpec => []OutlierIsIgnored
<1>1. StaticDistanceInit => RingInv
  BY DEF StaticDistanceInit, RingInv, EmptyRing, OutlierIsIgnored
<1>2. RingInv /\ [StaticDistanceNext]_staticDistanceVars => RingInv'
  <2> SUFFICES ASSUME RingInv, [StaticDistanceNext]_staticDistanceVars
               PROVE  RingInv'
    OBVIOUS
  <2>1. CASE Reset
    BY <2>1 DEF Reset, RingInv, EmptyRing, OutlierIsIgnored
  <2>2. CASE Skip
    <3>1. /\ ring'.samples = ring.samples /\ ring'.next = ring.next /\ ring'.count = ring.count
          /\ stableDistance' = stableDistance /\ taken' = taken
      BY <2>2 DEF Skip
    <3>2. OutlierIsIgnored' <=> OutlierIsIgnored
      BY <3>1 DEF OutlierIsIgnored
    <3> QED BY <3>1, <3>2 DEF RingInv
  <2>3. CASE \E d \in Readings : TakeSample(d)
    BY <2>3, SampleKeepsRingInv, StaticDistanceAssumption
  <2>4. CASE UNCHANGED staticDistanceVars
    <3>1. ring' = ring /\ stableDistance' = stableDistance /\ taken' = taken
      BY <2>4 DEF staticDistanceVars
    <3>2. OutlierIsIgnored' <=> OutlierIsIgnored
      BY <3>1 DEF OutlierIsIgnored
    <3> QED BY <3>1, <3>2 DEF RingInv
  <2> QED BY <2>1, <2>2, <2>3, <2>4 DEF StaticDistanceNext, Measure
<1>3. RingInv => OutlierIsIgnored
  BY DEF RingInv
<1> QED BY <1>1, <1>2, <1>3, PTL DEF StaticDistanceSpec

-----------------------------------------------------------------------------
(* The covariance.                                                           *)

KeptApart(c) == \A p \in c : p[1] % 2 = p[2] % 2

LEMMA RowParity == \A i \in Row : i \in {0, 1, 2, 3} /\ i % 2 \in {0, 1}
BY SMT DEF Row

LEMMA FreshIsApart == Fresh \subseteq Row \X Row /\ KeptApart(Fresh)
BY SMT DEF Fresh, KeptApart, Row

\* What predict_filter_ and update_filter_ do couples no axes.
LEMMA PredictedIsApart ==
  ASSUME NEW c \in SUBSET (Row \X Row), KeptApart(c)
  PROVE  Predicted(c) \subseteq Row \X Row /\ KeptApart(Predicted(c))
<1> DEFINE fp == c \union {p \in Position \X Row : <<p[1] + 2, p[2]>> \in c}
           pc == fp \union {p \in Row \X Position : <<p[1], p[2] + 2>> \in fp}
<1>1. fp \subseteq Row \X Row /\ KeptApart(fp)
  BY SMT DEF KeptApart, Row, Position
<1>2. pc \subseteq Row \X Row /\ KeptApart(pc)
  <2> HIDE DEF fp
  <2> QED BY <1>1, SMT DEF KeptApart, Row, Position
<1>3. Predicted(c) = pc \union Fresh \union {<<0, 2>>, <<2, 0>>, <<1, 3>>, <<3, 1>>}
  BY DEF Predicted
<1> HIDE DEF pc
<1> QED BY <1>2, <1>3, FreshIsApart, SMT DEF KeptApart, Row

LEMMA CorrectedIsApart ==
  ASSUME NEW c \in SUBSET (Row \X Row), KeptApart(c)
  PROVE  Corrected(c) \subseteq Row \X Row /\ KeptApart(Corrected(c)) /\ ~Degenerate(c)
<1>1. ~Degenerate(c)
  BY SMT DEF Degenerate, KeptApart
<1>2. Inverse2(c) \subseteq Position \X Position /\ KeptApart(Inverse2(c))
  BY SMT DEF Inverse2, KeptApart, Position
<1>3. GainOf(c) \subseteq Row \X Position /\ KeptApart(GainOf(c))
  BY <1>2, SMT DEF GainOf, KeptApart, Row, Position
<1> QED BY <1>1, <1>3, SMT DEF Corrected, KeptApart, Row, Position

-----------------------------------------------------------------------------
(* The filter.                                                               *)

FilterInv == covariance \subseteq Row \X Row /\ AxesStayApart

LEMMA FilterInvHolds == FilterSpec => []FilterInv
<1>1. FilterInit => FilterInv
  BY DEF FilterInit, FilterInv, AxesStayApart
<1>2. FilterInv /\ [FilterNext]_filterVars => FilterInv'
  <2> SUFFICES ASSUME FilterInv, [FilterNext]_filterVars
               PROVE  FilterInv'
    OBVIOUS
  <2> USE DEF FilterInv, AxesStayApart, KeptApart
  <2>1. Predicted(covariance) \subseteq Row \X Row /\ KeptApart(Predicted(covariance))
    BY PredictedIsApart
  <2>2. CASE Begin \/ Jump
    BY <2>2, FreshIsApart DEF Begin, Jump
  <2>3. CASE Follow
    <3>1. PICK c \in {covariance, Predicted(covariance)} :
             IF Degenerate(c) THEN covariance' = Fresh /\ Refresh(0)
             ELSE covariance' = Corrected(c) /\ \E v \in RadialSpeeds : Refresh(v)
      BY <2>3 DEF Follow
    <3>2. c \in SUBSET (Row \X Row) /\ KeptApart(c)
      BY <2>1
    <3> QED BY <3>1, <3>2, CorrectedIsApart, FreshIsApart
  <2>4. CASE Age
    BY <2>1, <2>4 DEF Age
  <2>5. CASE Expire
    BY <2>5 DEF Expire
  <2>6. CASE UNCHANGED filterVars
    BY <2>6 DEF filterVars
  <2> QED BY <2>2, <2>3, <2>4, <2>5, <2>6 DEF FilterNext
<1> QED BY <1>1, <1>2, PTL DEF FilterSpec

\* The axes of a track's filter never couple, so that its matrix can always be
\* inverted: update_filter_ never starts the filter of a followed track anew.
THEOREM AxesNeverCouple == FilterSpec => []AxesStayApart
<1>1. FilterInv => AxesStayApart
  BY DEF FilterInv
<1> QED BY <1>1, FilterInvHolds, PTL

-----------------------------------------------------------------------------
(* The direction.                                                            *)

Directions == {"approaching", "moving away", "stationary"}
DirectionInv ==
    /\ heard \in Seq(RadialSpeeds \X StationarySpeeds)
    /\ direction \in Directions
    /\ DirectionIsEarned

\* A step that is fast one way is not fast the other way.
LEMMA FastOneWay ==
  ASSUME NEW h \in RadialSpeeds \X StationarySpeeds, Fast(h, 1)
  PROVE  ~Fast(h, -1)
<1>1. h[1] \in Int /\ h[2] \in Nat /\ EnterPercent \in Nat
  BY TrackFilterAssumption
<1>2. DEFINE limit == EnterPercent * h[2]
<1>3. limit \in Nat
  BY <1>1, SMT
<1>4. 100 * 1 * h[1] > limit
  BY DEF Fast
<1> HIDE DEF limit
<1>5. ~(100 * (-1) * h[1] > limit)
  BY <1>1, <1>3, <1>4, SMT
<1> QED BY <1>5 DEF Fast, limit

\* What one more step does to what was earned.
LEMMA EarnedStep ==
  ASSUME DirectionInv, NEW v \in RadialSpeeds, NEW s \in StationarySpeeds,
         heard' = Append(heard, <<v, s>>), NEW sign \in {1, -1}
  PROVE  Earned(sign)' <=> \/ Fast(<<v, s>>, sign)
                           \/ Earned(sign) /\ ~Slow(<<v, s>>, sign) /\ ~Fast(<<v, s>>, -sign)
<1> DEFINE h == <<v, s>>
           n == Len(heard)
<1>1. n \in Nat /\ Len(heard') = n + 1 /\ heard'[n + 1] = h
      /\ \A i \in 1..n : heard'[i] = heard[i]
      /\ DOMAIN heard = 1..n /\ DOMAIN heard' = 1..(n + 1)
  BY DEF DirectionInv
<1>2. ASSUME Fast(h, sign)
      PROVE  Earned(sign)'
  <2>1. n + 1 \in DOMAIN heard' /\ Fast(heard'[n + 1], sign)
    BY <1>1, <1>2
  <2>2. \A j \in DOMAIN heard' : ~(j > n + 1)
    BY <1>1
  <2> QED BY <2>1, <2>2 DEF Earned, Fast, Slow
<1>3. ASSUME ~Fast(h, sign), Earned(sign)'
      PROVE  Earned(sign) /\ ~Slow(h, sign) /\ ~Fast(h, -sign)
  <2>1. PICK i \in DOMAIN heard' :
           /\ Fast(heard'[i], sign)
           /\ \A j \in DOMAIN heard' : j > i => ~Slow(heard'[j], sign) /\ ~Fast(heard'[j], -sign)
    BY <1>3 DEF Earned, Fast, Slow
  <2>2. i \in 1..n
    BY <1>1, <1>3, <2>1
  <2>3. ~Slow(h, sign) /\ ~Fast(h, -sign)
    BY <1>1, <2>1, <2>2
  <2>4. /\ Fast(heard[i], sign)
        /\ \A j \in DOMAIN heard : j > i => ~Slow(heard[j], sign) /\ ~Fast(heard[j], -sign)
    BY <1>1, <2>1, <2>2
  <2> QED BY <1>1, <2>2, <2>3, <2>4 DEF Earned
<1>4. ASSUME Earned(sign), ~Slow(h, sign), ~Fast(h, -sign)
      PROVE  Earned(sign)'
  <2>1. PICK i \in DOMAIN heard :
           /\ Fast(heard[i], sign)
           /\ \A j \in DOMAIN heard : j > i => ~Slow(heard[j], sign) /\ ~Fast(heard[j], -sign)
    BY <1>4 DEF Earned
  <2>2. /\ i \in DOMAIN heard' /\ Fast(heard'[i], sign)
        /\ \A j \in DOMAIN heard' : j > i => ~Slow(heard'[j], sign) /\ ~Fast(heard'[j], -sign)
    BY <1>1, <1>4, <2>1
  <2> QED BY <2>2 DEF Earned, Fast, Slow
<1> QED BY <1>2, <1>3, <1>4

\* update_direction_ turns to what the steps have earned.
LEMMA TurnedIsEarned ==
  ASSUME DirectionInv, NEW v \in RadialSpeeds, NEW s \in StationarySpeeds,
         direction' = Turned(direction, v, s), heard' = Append(heard, <<v, s>>)
  PROVE  DirectionInv'
<1> DEFINE h == <<v, s>>
<1>1. h \in RadialSpeeds \X StationarySpeeds /\ heard' \in Seq(RadialSpeeds \X StationarySpeeds)
  BY DEF DirectionInv
<1>2. v \in Int /\ s \in Nat /\ EnterPercent * s \in Nat /\ ExitPercent * s \in Nat
  BY TrackFilterAssumption, SMT
<1> DEFINE enter == EnterPercent * s
           exit == ExitPercent * s
<1>3. exit <= enter
  BY <1>2, TrackFilterAssumption, SMT
<1>4. /\ Fast(h, 1) <=> 100 * v > enter
      /\ Fast(h, -1) <=> 100 * v < -enter
      /\ Slow(h, 1) <=> 100 * v <= exit
      /\ Slow(h, -1) <=> 100 * v >= -exit
  <2>1. h[1] = v /\ h[2] = s
    OBVIOUS
  <2> DEFINE e == enter
             x == exit
  <2>2. e \in Nat /\ x \in Nat /\ x <= e
    BY <1>2, <1>3
  <2>3. /\ Fast(h, 1) <=> 100 * 1 * v > e
        /\ Fast(h, -1) <=> 100 * (-1) * v > e
        /\ Slow(h, 1) <=> 100 * 1 * v <= x /\ ~(100 * 1 * v > e)
        /\ Slow(h, -1) <=> 100 * (-1) * v <= x /\ ~(100 * (-1) * v > e)
    BY <2>1 DEF Fast, Slow
  <2> HIDE DEF e, x
  <2>4. /\ Fast(h, 1) <=> 100 * v > e
        /\ Fast(h, -1) <=> 100 * v < -e
        /\ Slow(h, 1) <=> 100 * v <= x
        /\ Slow(h, -1) <=> 100 * v >= -x
    BY <1>2, <2>2, <2>3, SMT
  <2> QED BY <2>4 DEF e, x
<1>5. direction' = IF Fast(h, 1) THEN "moving away"
                   ELSE IF Fast(h, -1) THEN "approaching"
                   ELSE IF direction = "moving away" /\ ~Slow(h, 1) THEN direction
                   ELSE IF direction = "approaching" /\ ~Slow(h, -1) THEN direction
                   ELSE "stationary"
  <2>1. /\ 100 * v > exit <=> ~Slow(h, 1)
        /\ 100 * v < -exit <=> ~Slow(h, -1)
    <3> DEFINE x == exit
    <3>1. x \in Nat /\ (Slow(h, 1) <=> 100 * v <= x) /\ (Slow(h, -1) <=> 100 * v >= -x)
      BY <1>2, <1>4
    <3> HIDE DEF x
    <3>2. (100 * v > x <=> ~Slow(h, 1)) /\ (100 * v < -x <=> ~Slow(h, -1))
      BY <1>2, <3>1, SMT
    <3> QED BY <3>2 DEF x
  <2> QED BY <1>4, <2>1 DEF Turned
<1>6. /\ Earned(1)' <=> Fast(h, 1) \/ (Earned(1) /\ ~Slow(h, 1) /\ ~Fast(h, -1))
      /\ Earned(-1)' <=> Fast(h, -1) \/ (Earned(-1) /\ ~Slow(h, -1) /\ ~Fast(h, 1))
  BY EarnedStep
<1>7. Fast(h, 1) => ~Fast(h, -1)
  BY <1>1, FastOneWay
<1>8. (direction = "moving away" <=> Earned(1)) /\ (direction = "approaching" <=> Earned(-1))
      /\ direction \in Directions
  BY DEF DirectionInv, DirectionIsEarned
<1>9. /\ direction' = "moving away" <=> Earned(1)'
      /\ direction' = "approaching" <=> Earned(-1)'
      /\ direction' \in Directions
  BY <1>5, <1>6, <1>7, <1>8 DEF Directions
<1> QED BY <1>1, <1>9 DEF DirectionInv, DirectionIsEarned

\* A track has the direction its steps have earned, whatever the filter comes
\* to and whenever the user changes what counts as stationary.
THEOREM DirectionIsAlwaysEarned == FilterSpec => []DirectionIsEarned
<1>1. FilterInit => DirectionInv
  BY DEF FilterInit, DirectionInv, Directions, DirectionIsEarned, Earned
<1>2. DirectionInv /\ [FilterNext]_filterVars => DirectionInv'
  <2> SUFFICES ASSUME DirectionInv, [FilterNext]_filterVars
               PROVE  DirectionInv'
    OBVIOUS
  <2>1. \A v \in RadialSpeeds : Refresh(v) => DirectionInv'
    BY TurnedIsEarned DEF Refresh
  <2>2. CASE Begin \/ Jump \/ Follow \/ Age
    <3>1. \E v \in RadialSpeeds : Refresh(v)
      BY <2>2, TrackFilterAssumption DEF Begin, Jump, Follow, Age
    <3> QED BY <2>1, <3>1
  <2>3. CASE Expire
    <3>1. direction' = "stationary" /\ heard' = << >>
      BY <2>3 DEF Expire
    <3>2. ~Earned(1)' /\ ~Earned(-1)'
      BY <3>1 DEF Earned
    <3>3. DirectionIsEarned'
      BY <3>1, <3>2 DEF DirectionIsEarned
    <3>4. heard' \in Seq(RadialSpeeds \X StationarySpeeds)
      BY <3>1
    <3> QED BY <3>1, <3>3, <3>4 DEF DirectionInv, Directions
  <2>4. CASE UNCHANGED filterVars
    <3>1. direction' = direction /\ heard' = heard
      BY <2>4 DEF filterVars
    <3>2. (Earned(1)' <=> Earned(1)) /\ (Earned(-1)' <=> Earned(-1))
      BY <3>1 DEF Earned, Fast, Slow
    <3> QED BY <3>1, <3>2 DEF DirectionInv, DirectionIsEarned
  <2> QED BY <2>2, <2>3, <2>4 DEF FilterNext
<1>3. DirectionInv => DirectionIsEarned
  BY DEF DirectionInv
<1> QED BY <1>1, <1>2, <1>3, PTL DEF FilterSpec

-----------------------------------------------------------------------------
(* LegacyPresence: an empty room is reported empty after the longest hold    *)
(* and the off delay.                                                        *)

\* A confirmation was seen no later than anything was, and since presence was
\* last put on, the empty runs have been counted by sinceOn too.
EmptyInv ==
    /\ LegacyTypeOK
    /\ HoldIsPaid
    /\ legacy.confirmed => empty <= legacy.seen /\ legacy.seen <= MaxHold
    /\ stable => MissingDecay * (empty - sinceOn) <= Full - Exit

\* What the assumption says of each constant.
LEMMA Sizes ==
  /\ Enter \in Nat /\ Exit \in Nat /\ Full \in Nat /\ MaxHold \in Nat
  /\ OffDelay \in Nat /\ Horizon \in Nat /\ Gain \in Nat /\ SameAreaGain \in Nat
  /\ MissingDecay \in Nat /\ FarDecay \in Nat /\ MovingDecay \in Nat
  /\ 0 < Exit /\ Exit <= Enter /\ Enter <= Full
  /\ 0 < MissingDecay /\ MissingDecay <= FarDecay /\ FarDecay <= MovingDecay
BY LegacyAssumption

LEMMA Multiples ==
  ASSUME NEW m \in Nat, NEW a \in Int, NEW b \in Int, a <= b
  PROVE  m * a <= m * b /\ m * a \in Int /\ m * (a + 1) = m * a + m
BY SMT

Records == [confidence : 0..Full, confirmed : BOOLEAN, anchored : BOOLEAN,
            seen : -1..(MaxHold + 1)]
\* What HoldIsPaid says of a record.
Paid(l) == l.confirmed =>
               /\ l.confidence >= Exit
               /\ l.seen \in 0..MaxHold
               /\ l.confidence + MissingDecay * l.seen <= Full

\* One run of LegacyPresence keeps a confirmation paid, and while the still
\* target is unseen every run is counted.
LEMMA UpdateIsPaid ==
  ASSUME NEW l \in Records, Paid(l), NEW i \in LegacyInputs
  PROVE  /\ Updated(l, i) \in Records
         /\ Paid(Updated(l, i))
         /\ Updated(l, i).confirmed /\ ~i.still =>
                l.confirmed /\ Updated(l, i).seen = l.seen + 1
<1> DEFINE r == Rated(l, i)
           u == Updated(l, i)
<1>1. /\ l.confidence \in 0..Full /\ l.confirmed \in BOOLEAN /\ l.anchored \in BOOLEAN
      /\ l.seen \in -1..(MaxHold + 1)
      /\ i.still \in BOOLEAN /\ i.moving \in BOOLEAN /\ i.other \in BOOLEAN
      /\ i.blocked \in BOOLEAN /\ i.near \in BOOLEAN /\ i.placed \in BOOLEAN
      /\ l = [confidence |-> l.confidence, confirmed |-> l.confirmed,
              anchored |-> l.anchored, seen |-> l.seen]
  BY DEF Records, LegacyInputs
<1>2. Older(l.seen) \in -1..(MaxHold + 1) /\ (l.seen \in 0..MaxHold => Older(l.seen) = l.seen + 1)
  BY <1>1, Sizes DEF Older, Never
<1>3. ASSUME r \in Records
      PROVE  /\ u.confirmed = (r.confirmed /\ r.confidence >= Exit
                               /\ (r.seen # Never => r.seen <= MaxHold))
             /\ u \in Records /\ u.confidence = r.confidence /\ u.seen = r.seen
  <2> DEFINE lasts == r.confirmed /\ r.confidence >= Exit
                      /\ (r.seen # Never => r.seen <= MaxHold)
  <2>1. u = [r EXCEPT !.confirmed = lasts]
    BY DEF Updated, Expired
  <2>2. lasts \in BOOLEAN
    OBVIOUS
  <2> HIDE DEF lasts
  <2>3. u.confirmed = lasts /\ u \in Records /\ u.confidence = r.confidence /\ u.seen = r.seen
    BY <1>3, <2>1, <2>2 DEF Records
  <2> QED BY <2>3 DEF lasts
<1>4. CASE i.blocked
  <2>0. r = [[l EXCEPT !.seen = Older(@)] EXCEPT !.confidence = 0, !.confirmed = FALSE]
    BY <1>4 DEF Rated
  <2>1. r \in Records /\ r.confirmed = FALSE
    <3>1. r = [confidence |-> 0, confirmed |-> FALSE, anchored |-> l.anchored,
               seen |-> Older(l.seen)]
      BY <1>1, <2>0
    <3>2. 0 \in 0..Full
      BY Sizes
    <3> QED BY <1>1, <1>2, <3>1, <3>2 DEF Records
  <2> QED BY <1>3, <2>1 DEF Paid
<1>5. CASE ~i.blocked /\ i.still
  <2>1. r \in Records /\ r.seen = 0
    <3>1. \A g \in Nat : Least(Full, l.confidence + g) \in 0..Full
      BY <1>1, Sizes DEF Least
    <3>2. /\ Gain + SameAreaGain \in Nat /\ Gain + 0 \in Nat
          /\ l.confidence + Gain + SameAreaGain = l.confidence + (Gain + SameAreaGain)
          /\ l.confidence + Gain + 0 = l.confidence + (Gain + 0)
      BY <1>1, Sizes
    <3>3. Least(Full, l.confidence + Gain
                      + (IF i.near /\ l.anchored THEN SameAreaGain ELSE 0)) \in 0..Full
      BY <3>1, <3>2
    <3> QED BY <1>1, <1>5, <3>3, Sizes DEF Rated, Records
  <2>2. MissingDecay * 0 = 0 /\ r.confidence <= Full /\ r.confidence \in Int
    BY <2>1, Sizes DEF Records
  <2>3. u \in Records /\ u.confidence = r.confidence /\ u.seen = 0
        /\ (u.confirmed => u.confidence >= Exit)
    BY <1>3, <2>1
  <2>4. 0 \in 0..MaxHold /\ u.confidence + MissingDecay * 0 <= Full
    BY <2>2, <2>3, Sizes
  <2> QED BY <1>5, <2>3, <2>4 DEF Paid
<1>6. CASE ~i.blocked /\ ~i.still
  <2>1. PICK k \in {MissingDecay, FarDecay, MovingDecay} :
            r = [l EXCEPT !.seen = Older(@), !.confidence = AtLeastZero(@ - k)]
    BY <1>1, <1>6 DEF Rated
  <2>2. k \in Nat /\ MissingDecay <= k
    BY Sizes
  <2>3. /\ r.confidence = AtLeastZero(l.confidence - k) /\ r.seen = Older(l.seen)
        /\ r.confirmed = l.confirmed
    BY <1>1, <2>1
  <2>4. r \in Records
    <3>1. AtLeastZero(l.confidence - k) \in 0..Full
      BY <1>1, <2>2, Sizes DEF AtLeastZero
    <3> QED BY <1>1, <1>2, <2>1, <3>1 DEF Records
  <2>5. ASSUME u.confirmed
        PROVE  l.confirmed /\ u.seen = l.seen + 1 /\ u.seen \in 0..MaxHold
               /\ u.confidence >= Exit
               /\ u.confidence + MissingDecay * u.seen <= Full
    <3>1. l.confirmed /\ u.confidence >= Exit
      BY <1>3, <2>3, <2>4, <2>5
    <3>2. l.seen \in 0..MaxHold /\ l.confidence + MissingDecay * l.seen <= Full
      BY <3>1 DEF Paid
    <3>3. u.seen = l.seen + 1
      BY <1>2, <1>3, <2>3, <2>4, <3>2
    <3>4. u.seen \in 0..MaxHold
      <4>1. u.seen # Never => u.seen <= MaxHold
        BY <1>3, <2>4, <2>5
      <4>2. l.seen \in Nat /\ MaxHold \in Nat
        BY <3>2, Sizes
      <4> QED BY <3>3, <4>1, <4>2 DEF Never
    <3>5. u.confidence = l.confidence - k
      BY <1>1, <1>3, <2>2, <2>3, <2>4, <3>1, Sizes DEF AtLeastZero
    <3>6. MissingDecay * u.seen = MissingDecay * l.seen + MissingDecay
          /\ MissingDecay * l.seen \in Int
      BY <3>2, <3>3, Multiples, Sizes
    <3> QED BY <1>1, <2>2, <3>1, <3>2, <3>3, <3>4, <3>5, <3>6, Sizes
  <2> QED BY <1>3, <2>4, <2>5 DEF Paid
<1> QED BY <1>1, <1>4, <1>5, <1>6

LEMMA CountsTogether ==
  ASSUME NEW m \in Nat, NEW c \in Int, NEW e \in Int, NEW s \in Int,
         NEW e1 \in Int, e1 <= e + 1, m * (e - s) <= c
  PROVE  m * (e1 - (s + 1)) <= c
<1>1. e1 - (s + 1) <= e - s /\ e1 - (s + 1) \in Int /\ e - s \in Int
  OBVIOUS
<1>2. m * (e1 - (s + 1)) <= m * (e - s)
  BY <1>1, Multiples
<1>3. m * (e1 - (s + 1)) \in Int /\ m * (e - s) \in Int
  BY <1>1
<1> QED BY <1>2, <1>3

\* Debouncing, when presence is on and when it is not.
LEMMA DebounceOn ==
  ASSUME Debounce(TRUE), empty' \in Nat, MissingDecay * empty' <= Full - Exit
  PROVE  /\ stable' = TRUE /\ sinceOn' \in 0..OffDelay
         /\ MissingDecay * (empty' - sinceOn') <= Full - Exit
<1>1. sinceOn' = 0 /\ stable' = TRUE
  BY DEF Debounce
<1>2. \A e \in Nat : e - 0 = e
  OBVIOUS
<1>3. MissingDecay * (empty' - sinceOn') <= Full - Exit
  BY <1>1, <1>2, Zenon
<1>4. 0 \in 0..OffDelay
  BY Sizes
<1> QED BY <1>1, <1>3, <1>4, Zenon

LEMMA DebounceOff ==
  ASSUME EmptyInv, Debounce(FALSE), empty' \in Nat, empty' <= empty + 1
  PROVE  /\ stable' \in BOOLEAN /\ sinceOn' \in 0..OffDelay
         /\ stable' => MissingDecay * (empty' - sinceOn') <= Full - Exit
<1>1. /\ sinceOn \in 0..OffDelay /\ empty \in Nat /\ OffDelay \in Nat
  BY Sizes DEF EmptyInv, LegacyTypeOK
<1>2. sinceOn' = Least(sinceOn + 1, OffDelay) /\ stable' = (stable /\ sinceOn' < OffDelay)
  BY DEF Debounce
<1>3. sinceOn' \in 0..OffDelay
  BY <1>1, <1>2 DEF Least
<1>4. ASSUME stable'
      PROVE  MissingDecay * (empty' - sinceOn') <= Full - Exit
  <2>1. stable /\ sinceOn' < OffDelay
    BY <1>2, <1>4
  <2>2. sinceOn' = sinceOn + 1
    BY <1>1, <1>2, <2>1 DEF Least
  <2>3. MissingDecay * (empty - sinceOn) <= Full - Exit
    BY <2>1 DEF EmptyInv
  <2>4. MissingDecay * (empty' - (sinceOn + 1)) <= Full - Exit
    <3>1. MissingDecay \in Nat /\ Full - Exit \in Int /\ empty \in Int /\ sinceOn \in Int
          /\ empty' \in Int
      BY <1>1, Sizes
    <3> QED BY <2>3, <3>1, CountsTogether
  <2> QED BY <2>2, <2>4
<1>5. stable' \in BOOLEAN
  BY <1>2
<1> QED BY <1>3, <1>4, <1>5

LEMMA LegacyRunKeepsInv ==
  ASSUME EmptyInv, NEW i \in LegacyInputs, LegacyRun(i)
  PROVE  EmptyInv'
<1>1. /\ legacy' = Updated(legacy, i) /\ legacyOut' = OutputOf(legacy', i)
      /\ Debounce(legacyOut'.presence) /\ fallback' = fallback
      /\ empty' = IF TargetSeen(i) \/ i.pir THEN 0 ELSE Least(empty + 1, Horizon)
  BY DEF LegacyRun
<1>2. /\ legacy \in Records /\ empty \in Nat /\ LegacyTypeOK
      /\ i.still \in BOOLEAN /\ i.moving \in BOOLEAN /\ i.other \in BOOLEAN
      /\ i.pir \in BOOLEAN /\ i.blocked \in BOOLEAN
  BY DEF EmptyInv, LegacyTypeOK, LegacyInputs, Records
<1>3. Paid(legacy)
  <2>1. ASSUME legacy.confirmed
        PROVE  /\ legacy.confidence >= Exit
               /\ legacy.seen \in 0..MaxHold
               /\ legacy.confidence + MissingDecay * legacy.seen <= Full
    <3>1. /\ legacy.confidence >= Exit /\ legacy.seen # Never
          /\ legacy.confidence + MissingDecay * legacy.seen <= Full
          /\ legacy.seen <= MaxHold
      BY <2>1 DEF EmptyInv, HoldIsPaid
    <3>2. legacy.seen \in -1..(MaxHold + 1)
      BY <1>2 DEF Records
    <3> QED BY <3>1, <3>2, Sizes DEF Never
  <2> QED BY <2>1 DEF Paid
<1>4. /\ legacy' \in Records /\ Paid(legacy')
      /\ legacy'.confirmed /\ ~i.still => legacy.confirmed /\ legacy'.seen = legacy.seen + 1
  BY <1>1, <1>2, <1>3, UpdateIsPaid
<1>5. empty' \in Nat /\ empty' <= empty + 1
  BY <1>1, <1>2, Sizes DEF Least
<1>6. ASSUME legacy'.confirmed PROVE empty' <= legacy'.seen /\ legacy'.seen <= MaxHold
  <2>1. CASE TargetSeen(i) \/ i.pir
    <3>1. empty' = 0
      BY <1>1, <2>1
    <3>2. legacy'.seen \in 0..MaxHold
      BY <1>4, <1>6 DEF Paid
    <3> QED BY <3>1, <3>2, Sizes
  <2>2. CASE ~(TargetSeen(i) \/ i.pir)
    <3>0. legacy'.seen \in 0..MaxHold
      BY <1>4, <1>6 DEF Paid
    <3>1. legacy.confirmed /\ legacy'.seen = legacy.seen + 1
      BY <1>4, <1>6, <2>2 DEF TargetSeen
    <3>2. empty <= legacy.seen /\ legacy.seen \in Int
      BY <1>2, <3>1 DEF EmptyInv, Records
    <3> QED BY <1>2, <1>5, <3>0, <3>1, <3>2, Sizes
  <2> QED BY <2>1, <2>2
<1>7. legacyOut'.presence \in BOOLEAN
      /\ legacyOut' \in [presence : BOOLEAN, hold : BOOLEAN, motion : BOOLEAN]
  BY <1>1, <1>2, <1>4 DEF OutputOf, TargetSeen, Holding, Records
<1>8. ASSUME legacyOut'.presence PROVE MissingDecay * empty' <= Full - Exit
  <2>1. CASE TargetSeen(i) \/ i.pir
    <3>1. empty' = 0
      BY <1>1, <2>1
    <3>2. MissingDecay * 0 = 0 /\ 0 <= Full - Exit
      BY Sizes
    <3> QED BY <3>1, <3>2
  <2>2. CASE ~(TargetSeen(i) \/ i.pir)
    <3>1. legacy'.confirmed
      BY <1>1, <1>8, <2>2 DEF OutputOf, Holding
    <3>2. /\ legacy'.confidence >= Exit /\ legacy'.seen \in 0..MaxHold
          /\ legacy'.confidence + MissingDecay * legacy'.seen <= Full
      BY <1>4, <3>1 DEF Paid
    <3>3. legacy'.confidence \in Int
      BY <1>4 DEF Records
    <3>4. /\ MissingDecay * empty' <= MissingDecay * legacy'.seen
          /\ MissingDecay * empty' \in Int /\ MissingDecay * legacy'.seen \in Int
      <4>1. \A a, b \in Int : a <= b =>
                MissingDecay * a <= MissingDecay * b
                /\ MissingDecay * a \in Int /\ MissingDecay * b \in Int
        BY Sizes, Multiples
      <4> QED BY <1>5, <1>6, <3>1, <3>2, <4>1
    <3> QED BY <3>2, <3>3, <3>4, Sizes
  <2> QED BY <2>1, <2>2
<1>9. /\ stable' \in BOOLEAN /\ sinceOn' \in 0..OffDelay
      /\ stable' => MissingDecay * (empty' - sinceOn') <= Full - Exit
  <2>1. CASE legacyOut'.presence = TRUE
    BY <1>1, <1>5, <1>8, <2>1, DebounceOn
  <2>2. CASE legacyOut'.presence = FALSE
    BY <1>1, <1>5, <2>2, DebounceOff
  <2> QED BY <1>7, <2>1, <2>2
<1>10. LegacyTypeOK'
  BY <1>1, <1>2, <1>4, <1>5, <1>7, <1>9 DEF LegacyTypeOK, Records
<1>11. HoldIsPaid'
  BY <1>4 DEF HoldIsPaid, Paid, Never
<1> QED BY <1>6, <1>9, <1>10, <1>11 DEF EmptyInv

LEMMA TrackerRunKeepsInv ==
  ASSUME EmptyInv, NEW fused \in BOOLEAN, TrackerRun(fused)
  PROVE  EmptyInv'
<1>1. /\ legacy' = NoLegacy /\ legacyOut' = NoOutput /\ Debounce(fused)
      /\ empty' = (IF fused THEN 0 ELSE Least(empty + 1, Horizon)) /\ fallback' = fallback
  BY DEF TrackerRun, Disabled
<1>2. empty \in Nat /\ LegacyTypeOK
  BY DEF EmptyInv, LegacyTypeOK
<1>3. empty' \in Nat /\ empty' <= empty + 1
  BY <1>1, <1>2, Sizes DEF Least
<1>4. fused => MissingDecay * empty' <= Full - Exit
  <2>1. MissingDecay * 0 = 0 /\ 0 <= Full - Exit
    BY Sizes
  <2> QED BY <1>1, <2>1
<1>5. /\ stable' \in BOOLEAN /\ sinceOn' \in 0..OffDelay
      /\ stable' => MissingDecay * (empty' - sinceOn') <= Full - Exit
  <2>1. CASE fused = TRUE
    BY <1>1, <1>3, <1>4, <2>1, DebounceOn
  <2>2. CASE fused = FALSE
    BY <1>1, <1>3, <2>2, DebounceOff
  <2> QED BY <2>1, <2>2
<1>6. ~legacy'.confirmed
  BY <1>1 DEF NoLegacy
<1>7. LegacyTypeOK'
  BY <1>1, <1>2, <1>3, <1>5, Sizes DEF LegacyTypeOK, NoLegacy, NoOutput, Never
<1> QED BY <1>5, <1>6, <1>7 DEF EmptyInv, HoldIsPaid

LEMMA EmptyInvInit == LegacyInit => EmptyInv
<1> SUFFICES ASSUME LegacyInit PROVE EmptyInv
  OBVIOUS
<1>1. legacy.confirmed = FALSE /\ stable = FALSE
  BY DEF LegacyInit, NoLegacy
<1>2. LegacyTypeOK
  <2>1. 0 \in 0..Full /\ -1 \in -1..(MaxHold + 1) /\ OffDelay \in 0..OffDelay
    BY Sizes
  <2> QED BY <2>1, Zenon DEF LegacyInit, LegacyTypeOK, NoLegacy, NoOutput, Never
<1> QED BY <1>1, <1>2 DEF EmptyInv, HoldIsPaid

LEMMA EmptyInvStep == EmptyInv /\ [LegacyNext]_legacyVars => EmptyInv'
<1> SUFFICES ASSUME EmptyInv, [LegacyNext]_legacyVars PROVE EmptyInv'
  OBVIOUS
<1>1. ASSUME NEW i \in LegacyInputs, LegacyRun(i) PROVE EmptyInv'
  BY <1>1, LegacyRunKeepsInv
<1>2. ASSUME NEW fused \in BOOLEAN, TrackerRun(fused) PROVE EmptyInv'
  BY <1>2, TrackerRunKeepsInv
<1>3. CASE SwitchFallback
  BY <1>3 DEF SwitchFallback, EmptyInv, LegacyTypeOK, HoldIsPaid
<1>4. CASE UNCHANGED legacyVars
  BY <1>4 DEF legacyVars, EmptyInv, LegacyTypeOK, HoldIsPaid
<1> QED BY <1>1, <1>2, <1>3, <1>4 DEF LegacyNext

LEMMA EmptyInvIsEnough == EmptyInv => EmptyRoomIsReported
<1> SUFFICES ASSUME EmptyInv, stable
             PROVE  MissingDecay * (empty - OffDelay) <= Full - Exit
  BY DEF EmptyRoomIsReported
<1>1. /\ sinceOn \in 0..OffDelay /\ empty \in Nat /\ OffDelay \in Nat
      /\ MissingDecay * (empty - sinceOn) <= Full - Exit
  BY Sizes DEF EmptyInv, LegacyTypeOK
<1>2. empty - OffDelay <= empty - sinceOn /\ empty - OffDelay \in Int /\ empty - sinceOn \in Int
  BY <1>1
<1>3. \A a, b \in Int : a <= b =>
          MissingDecay * a <= MissingDecay * b
          /\ MissingDecay * a \in Int /\ MissingDecay * b \in Int
  BY Sizes, Multiples
<1> QED BY <1>1, <1>2, <1>3, Sizes

\* An empty room is reported empty after the longest hold and the off delay,
\* however often legacyPresenceFallback is switched meanwhile.
THEOREM EmptyRoomsAreReported == LegacySpec => []EmptyRoomIsReported
BY EmptyInvInit, EmptyInvStep, EmptyInvIsEnough, PTL DEF LegacySpec

-----------------------------------------------------------------------------
(* The diagnostic logs.                                                      *)

EventTypes ==
    {"diagnostic_started", "presence_on", "presence_off", "motion_on", "motion_off",
     "target_seen", "target_lost", "still_confirmed", "still_lost", "still_holding",
     "still_hold_started", "still_hold_ended", "still_confidence_low",
     "range_gate_recovered", "range_gate_blocked", "exit_zone_seen", "exit_zone_clear",
     "tracker_presence_on", "tracker_presence_off", "tracker_state"}
Rows == [sequence : Nat, ms : Nat, type : EventTypes \union {"none", "sample"}]
Logs == [ring : [RingSlots -> Rows], start : RingSlots, count : 0..Capacity,
         next : Nat \ {0}, truncated : BOOLEAN]

LogTypes ==
    /\ clock \in Nat
    /\ allocated \in [{"events", "replay"} -> BOOLEAN]
    /\ previous \in Snapshots \union {NoSnapshot}
    /\ writer \in [at : {"rest", "trim", "uncount", "append", "fill", "replay", "count"},
                   queue : Seq(EventTypes), ms : Nat]
    /\ writer.ms <= clock
    /\ writer.at \in {"rest", "replay", "count"} => writer.queue = << >>
    /\ writer.at = "fill" => writer.queue # << >>
    /\ writer.at \in {"uncount", "fill"} => eventLog.count > 0
    /\ eventLog \in Logs /\ replayLog \in Logs
    /\ download \in [of : {"none", "events", "replay"}, row : Nat, at : {"loop", "format"},
                     last : Nat, comma : BOOLEAN]
    /\ history \in Seq(Nat) /\ eventLog.next = Len(history) + 1

\* The events that are in the ring: while one is dropped or added, the start or
\* the count is a store ahead.
EventsHeld == IF writer.at \in {"uncount", "fill"} THEN eventLog.count - 1
              ELSE eventLog.count
EventsGone == Len(history) - EventsHeld

\* Which event each row of the ring holds, and why the others have gone.
EventRows ==
    \A k \in 0..(EventsHeld - 1) :
        /\ RowAt(eventLog, k).sequence = EventsGone + k + 1
        /\ RowAt(eventLog, k).ms = history[EventsGone + k + 1]
EventsDropped ==
    \A q \in 1..EventsGone :
        \/ q + Capacity <= IF writer.at = "fill" THEN Len(history) + 1 ELSE Len(history)
        \/ clock - history[q] > Retention
EventInv ==
    /\ EventsGone >= 0
    /\ EventRows /\ EventsDropped
    /\ IF writer.at = "uncount" THEN EventsGone > 0
       ELSE eventLog.truncated <=> EventsGone > 0

\* The same of the samples; the newest is in the ring before it is counted.
SamplesGone == IF writer.at = "count" THEN replayLog.next - 2 - replayLog.count
               ELSE replayLog.next - 1 - replayLog.count
SampleRows ==
    \A k \in 0..Capacity :
        (IF writer.at = "count" THEN k <= replayLog.count /\ replayLog.count < k + Capacity
                                ELSE k < replayLog.count)
            => RowAt(replayLog, k).sequence = SamplesGone + k + 1
SampleInv ==
    /\ SamplesGone >= 0
    /\ replayLog.count < Capacity => SamplesGone = 0
    /\ SampleRows

\* Of a pair, the sample's events tell what the sample says; and while they tell
\* nothing, the last row of the log that does.
Elements(q) == {q[i] : i \in 1..Len(q)}
QueueAgrees(pair) ==
    \A type \in Elements(writer.queue) \intersect {pair[1], pair[2]} :
        (type = pair[1]) = previous[pair[3]]
LogAgrees(pair) ==
    Elements(writer.queue) \intersect {pair[1], pair[2]} = {} =>
        \A k \in 0..(EventsHeld - 1) :
            /\ RowAt(eventLog, k).type \in {pair[1], pair[2]}
            /\ \A l \in (k + 1)..(EventsHeld - 1) :
                  RowAt(eventLog, l).type \notin {pair[1], pair[2]}
            => (RowAt(eventLog, k).type = pair[1]) = previous[pair[3]]
ExplainInv ==
    /\ previous = NoSnapshot => EventsHeld = 0 /\ writer.queue = << >>
    /\ \A pair \in Pairs : QueueAgrees(pair) /\ LogAgrees(pair)

\* What a download sent last comes before its next row.
DownloadInv ==
    /\ download.of = "events" => download.last <= EventsGone + download.row
    /\ download.of = "replay" => download.last <= SamplesGone + download.row
    /\ download.at = "format" => download.of # "none"

LogInv == LogTypes /\ EventInv /\ SampleInv /\ ExplainInv /\ DownloadInv

-----------------------------------------------------------------------------
LEMMA Wraps ==
  ASSUME NEW c \in Nat, c > 0, NEW n \in Nat, n < 2 * c
  PROVE  n % c = IF n < c THEN n ELSE n - c
<1>1. CASE n < c
  BY <1>1
<1>2. CASE n >= c
  BY <1>2
<1> QED BY <1>1, <1>2

LEMMA IndexWraps ==
  ASSUME NEW log \in Logs, NEW k \in 0..Capacity
  PROVE  /\ IndexOf(log, k) = IF log.start + k < Capacity THEN log.start + k
                              ELSE log.start + k - Capacity
         /\ IndexOf(log, k) \in RingSlots
<1>1. log.start \in 0..(Capacity - 1) /\ Capacity \in Nat /\ Capacity > 0
  BY LogAssumption DEF Logs, RingSlots
<1>2. log.start + k \in Nat /\ log.start + k < 2 * Capacity
  BY <1>1
<1>3. (log.start + k) % Capacity = IF log.start + k < Capacity THEN log.start + k
                                   ELSE log.start + k - Capacity
  BY <1>1, <1>2, Wraps
<1> QED BY <1>1, <1>3 DEF IndexOf, RingSlots

LEMMA IndexDiffers ==
  ASSUME NEW log \in Logs, NEW j \in 0..Capacity, NEW k \in 0..Capacity,
         j # k, j < k + Capacity, k < j + Capacity
  PROVE  IndexOf(log, j) # IndexOf(log, k)
<1>1. log.start \in 0..(Capacity - 1) /\ Capacity \in Nat /\ Capacity > 0
  BY LogAssumption DEF Logs, RingSlots
<1>2. IndexOf(log, j) = IF log.start + j < Capacity THEN log.start + j
                        ELSE log.start + j - Capacity
  BY IndexWraps
<1>3. IndexOf(log, k) = IF log.start + k < Capacity THEN log.start + k
                        ELSE log.start + k - Capacity
  BY IndexWraps
<1> QED BY <1>1, <1>2, <1>3

\* The start moves: every row moves up by one.
LEMMA StartMoves ==
  ASSUME NEW log \in Logs
  PROVE  /\ MoveStart(log) \in Logs
         /\ MoveStart(log).count = log.count /\ MoveStart(log).next = log.next
         /\ MoveStart(log).truncated = log.truncated /\ MoveStart(log).ring = log.ring
         /\ \A k \in 0..(Capacity - 1) : RowAt(MoveStart(log), k) = RowAt(log, k + 1)
<1> DEFINE moved == MoveStart(log)
<1>1. log.start \in 0..(Capacity - 1) /\ Capacity \in Nat /\ Capacity > 0
  BY LogAssumption DEF Logs, RingSlots
<1>2. (log.start + 1) % Capacity = IF log.start + 1 < Capacity THEN log.start + 1
                                   ELSE log.start + 1 - Capacity
  BY <1>1, Wraps
<1>3. (log.start + 1) % Capacity \in RingSlots
  BY <1>1, <1>2 DEF RingSlots
<1>4. moved = [log EXCEPT !.start = (log.start + 1) % Capacity]
  BY DEF MoveStart
<1>5. /\ moved \in Logs /\ moved.start = (log.start + 1) % Capacity
      /\ moved.count = log.count /\ moved.next = log.next
      /\ moved.truncated = log.truncated /\ moved.ring = log.ring
  BY <1>3, <1>4 DEF Logs
<1> HIDE DEF moved
<1>6. ASSUME NEW k \in 0..(Capacity - 1)
      PROVE  RowAt(moved, k) = RowAt(log, k + 1)
  <2>1. k \in 0..Capacity /\ k + 1 \in 0..Capacity
    BY <1>1
  <2>2. IndexOf(moved, k) = IndexOf(log, k + 1)
    BY <1>1, <1>2, <1>5, <2>1, IndexWraps
  <2> QED BY <1>5, <2>2 DEF RowAt
<1> QED BY <1>5, <1>6 DEF moved

\* A row is written: the others stay.
LEMMA RowWritten ==
  ASSUME NEW log \in Logs, NEW n \in 0..Capacity, NEW row \in Rows,
         NEW new, new.ring = [log.ring EXCEPT ![IndexOf(log, n)] = row], new.start = log.start
  PROVE  /\ new.ring \in [RingSlots -> Rows]
         /\ RowAt(new, n) = row
         /\ \A k \in 0..Capacity : k # n /\ k < n + Capacity /\ n < k + Capacity
               => RowAt(new, k) = RowAt(log, k)
<1>1. log.ring \in [RingSlots -> Rows] /\ IndexOf(log, n) \in RingSlots
  BY IndexWraps DEF Logs
<1>2. \A k : IndexOf(new, k) = IndexOf(log, k)
  BY DEF IndexOf
<1>3. new.ring \in [RingSlots -> Rows] /\ RowAt(new, n) = row
  BY <1>1, <1>2 DEF RowAt
<1>4. ASSUME NEW k \in 0..Capacity, k # n, k < n + Capacity, n < k + Capacity
      PROVE  RowAt(new, k) = RowAt(log, k)
  <2>1. IndexOf(log, k) \in RingSlots /\ IndexOf(log, k) # IndexOf(log, n)
    BY <1>4, IndexWraps, IndexDiffers
  <2> QED BY <1>1, <1>2, <2>1 DEF RowAt
<1> QED BY <1>3, <1>4

LEMMA RowTypes ==
  ASSUME NEW log \in Logs, NEW k \in 0..Capacity
  PROVE  RowAt(log, k) \in Rows
BY IndexWraps DEF Logs, RowAt

LEMMA ElementsOfTwo ==
  ASSUME NEW a \in Seq(EventTypes), NEW b \in Seq(EventTypes)
  PROVE  /\ a \o b \in Seq(EventTypes)
         /\ Elements(a \o b) = Elements(a) \union Elements(b)
<1> DEFINE both == a \o b
<1>1. both \in Seq(EventTypes) /\ Len(both) = Len(a) + Len(b)
  OBVIOUS
<1>2. \A i \in 1..Len(a) : both[i] = a[i]
  OBVIOUS
<1>3. \A i \in 1..Len(b) : i + Len(a) \in 1..Len(both) /\ both[i + Len(a)] = b[i]
  OBVIOUS
<1>4. Len(a) \in Nat /\ Len(b) \in Nat
  OBVIOUS
<1> HIDE DEF both
<1>5. Elements(both) \subseteq Elements(a) \union Elements(b)
  <2> SUFFICES ASSUME NEW i \in 1..Len(both)
               PROVE  both[i] \in Elements(a) \union Elements(b)
    BY DEF Elements
  <2>1. CASE i <= Len(a)
    <3>1. i \in 1..Len(a)
      BY <1>1, <1>4, <2>1
    <3> QED BY <1>2, <3>1 DEF Elements
  <2>2. CASE i > Len(a)
    <3>1. i - Len(a) \in 1..Len(b) /\ i = (i - Len(a)) + Len(a)
      BY <1>1, <1>4, <2>2
    <3>2. both[i] = b[i - Len(a)]
      BY <1>3, <3>1
    <3> QED BY <3>1, <3>2 DEF Elements
  <2> QED BY <1>1, <1>4, <2>1, <2>2
<1>6. Elements(a) \subseteq Elements(both)
  <2> SUFFICES ASSUME NEW i \in 1..Len(a)
               PROVE  a[i] \in Elements(both)
    BY DEF Elements
  <2> QED BY <1>1, <1>2, <1>4 DEF Elements
<1>7. Elements(b) \subseteq Elements(both)
  <2> SUFFICES ASSUME NEW i \in 1..Len(b)
               PROVE  b[i] \in Elements(both)
    BY DEF Elements
  <2> QED BY <1>3 DEF Elements
<1> QED BY <1>1, <1>5, <1>6, <1>7 DEF both

LEMMA SequenceOfOne ==
  ASSUME NEW S, NEW x \in S
  PROVE  <<x>> \in Seq(S)
OBVIOUS

LEMMA ElementsOfOne ==
  ASSUME NEW type \in EventTypes
  PROVE  <<type>> \in Seq(EventTypes) /\ Elements(<<type>>) = {type}
<1> DEFINE one == <<type>>
<1>1. one \in Seq(EventTypes)
  BY SequenceOfOne, Zenon
<1>2. Len(one) = 1
  OBVIOUS
<1>3. one[1] = type
  OBVIOUS
<1> HIDE DEF one
<1>4. 1..Len(one) = {1}
  BY <1>2
<1>5. {one[i] : i \in {1}} = {one[1]}
  OBVIOUS
<1>6. Elements(one) = {one[1]}
  BY <1>4, <1>5 DEF Elements
<1> QED BY <1>1, <1>3, <1>6 DEF one
LEMMA ElementsOfEvents ==
  ASSUME NEW condition, NEW type \in EventTypes
  PROVE  /\ Event(condition, type) \in Seq(EventTypes)
         /\ Elements(Event(condition, type)) = IF condition THEN {type} ELSE {}
         /\ Elements(Event(condition, type)) \subseteq {type}
<1>1. << >> \in Seq(EventTypes) /\ Elements(<< >>) = {}
  BY DEF Elements
<1>2. CASE condition
  <2>1. Event(condition, type) = <<type>>
    BY <1>2 DEF Event
  <2> QED BY <1>2, <2>1, ElementsOfOne
<1>3. CASE ~condition
  <2>1. Event(condition, type) = << >>
    BY <1>3 DEF Event
  <2> QED BY <1>3, <1>1, <2>1
<1> QED BY <1>2, <1>3

EdgeSays(before, now, on, off) ==
    IF before = now THEN {} ELSE IF now THEN {on} ELSE {off}

LEMMA ElementsOfEdges ==
  ASSUME NEW before \in BOOLEAN, NEW now \in BOOLEAN, NEW on \in EventTypes, NEW off \in EventTypes
  PROVE  /\ Edge(before, now, on, off) \in Seq(EventTypes)
         /\ Elements(Edge(before, now, on, off)) = EdgeSays(before, now, on, off)
<1>1. /\ Event(~before /\ now, on) \in Seq(EventTypes) /\ Event(before /\ ~now, off) \in Seq(EventTypes)
      /\ Elements(Event(~before /\ now, on)) = IF ~before /\ now THEN {on} ELSE {}
      /\ Elements(Event(before /\ ~now, off)) = IF before /\ ~now THEN {off} ELSE {}
  BY ElementsOfEvents
<1>2. /\ Edge(before, now, on, off) \in Seq(EventTypes)
      /\ Elements(Edge(before, now, on, off)) =
            (IF ~before /\ now THEN {on} ELSE {}) \union (IF before /\ ~now THEN {off} ELSE {})
  BY <1>1, ElementsOfTwo DEF Edge
<1> QED BY <1>2 DEF EdgeSays

LEMMA ElementsOfQueue ==
  ASSUME NEW q \in Seq(EventTypes), q # << >>
  PROVE  /\ Head(q) \in EventTypes /\ Tail(q) \in Seq(EventTypes)
         /\ Elements(q) = {Head(q)} \union Elements(Tail(q))
<1>1. Len(q) \in Nat /\ Len(q) > 0 /\ Head(q) = q[1] /\ Head(q) \in EventTypes
  OBVIOUS
<1> DEFINE rest == Tail(q)
<1>2. /\ rest \in Seq(EventTypes) /\ Len(rest) = Len(q) - 1
      /\ \A i \in 1..Len(rest) : rest[i] = q[i + 1]
  OBVIOUS
<1> HIDE DEF rest
<1>3. ASSUME NEW i \in 1..Len(q)
      PROVE  q[i] \in {Head(q)} \union Elements(rest)
  <2>1. CASE i = 1
    BY <1>1, <2>1
  <2>2. CASE i # 1
    <3>1. i - 1 \in 1..Len(rest) /\ (i - 1) + 1 = i
      BY <1>1, <1>2, <2>2
    <3>2. q[i] = rest[i - 1]
      BY <1>2, <3>1
    <3> QED BY <3>1, <3>2 DEF Elements
  <2> QED BY <2>1, <2>2
<1>4. Head(q) \in Elements(q)
  BY <1>1 DEF Elements
<1>5. ASSUME NEW i \in 1..Len(rest)
      PROVE  rest[i] \in Elements(q)
  <2>1. i + 1 \in 1..Len(q) /\ rest[i] = q[i + 1]
    BY <1>1, <1>2
  <2> QED BY <2>1 DEF Elements
<1>6. Elements(q) = {Head(q)} \union Elements(rest)
  BY <1>3, <1>4, <1>5 DEF Elements
<1> QED BY <1>1, <1>2, <1>6 DEF rest

\* What update makes of two samples tells of every pair what the second says,
\* and tells nothing only where they agree.
LEMMA EventsTell ==
  ASSUME NEW p \in Snapshots, NEW s \in Snapshots, NEW pair \in Pairs
  PROVE  /\ EventsOf(p, s) \in Seq(EventTypes)
         /\ s[pair[3]] \in BOOLEAN /\ p[pair[3]] \in BOOLEAN
         /\ Elements(EventsOf(p, s)) \intersect {pair[1], pair[2]} =
               IF p[pair[3]] = s[pair[3]] THEN {}
               ELSE IF s[pair[3]] THEN {pair[1]} ELSE {pair[2]}
<1>1. /\ p.presence \in BOOLEAN /\ p.motion \in BOOLEAN /\ p.target \in BOOLEAN
      /\ p.exit \in BOOLEAN /\ p.hold \in BOOLEAN /\ p.tracker \in BOOLEAN
      /\ s.presence \in BOOLEAN /\ s.motion \in BOOLEAN /\ s.target \in BOOLEAN
      /\ s.exit \in BOOLEAN /\ s.hold \in BOOLEAN /\ s.tracker \in BOOLEAN
  BY SnapshotAssumption
<1> DEFINE e1 == Edge(p.presence, s.presence, "presence_on", "presence_off")
           e2 == Edge(p.motion, s.motion, "motion_on", "motion_off")
           e3 == Edge(p.target, s.target, "target_seen", "target_lost")
           e4 == Event(p.still # s.still /\ s.still \in {"confirmed", "lost", "holding"},
                       StillEvent(s.still))
           e5 == Edge(p.hold, s.hold, "still_hold_started", "still_hold_ended")
           e6 == Event(~p.unsure /\ s.unsure, "still_confidence_low")
           e7 == Event(p.range # s.range,
                       IF s.range = "ok" THEN "range_gate_recovered" ELSE "range_gate_blocked")
           e8 == Edge(p.exit, s.exit, "exit_zone_seen", "exit_zone_clear")
           e9 == Edge(p.tracker, s.tracker, "tracker_presence_on", "tracker_presence_off")
           e10 == Event(p.track # s.track, "tracker_state")
<1>2. EventsOf(p, s) = e1 \o e2 \o e3 \o e4 \o e5 \o e6 \o e7 \o e8 \o e9 \o e10
  BY DEF EventsOf
<1>0. /\ "presence_on" \in EventTypes /\ "presence_off" \in EventTypes
      /\ "motion_on" \in EventTypes /\ "motion_off" \in EventTypes
      /\ "target_seen" \in EventTypes /\ "target_lost" \in EventTypes
      /\ "still_hold_started" \in EventTypes /\ "still_hold_ended" \in EventTypes
      /\ "exit_zone_seen" \in EventTypes /\ "exit_zone_clear" \in EventTypes
      /\ "tracker_presence_on" \in EventTypes /\ "tracker_presence_off" \in EventTypes
      /\ "still_confidence_low" \in EventTypes /\ "tracker_state" \in EventTypes
  BY DEF EventTypes
<1>3. /\ e1 \in Seq(EventTypes)
      /\ Elements(e1) = EdgeSays(p.presence, s.presence, "presence_on", "presence_off")
      /\ e2 \in Seq(EventTypes)
      /\ Elements(e2) = EdgeSays(p.motion, s.motion, "motion_on", "motion_off")
      /\ e3 \in Seq(EventTypes)
      /\ Elements(e3) = EdgeSays(p.target, s.target, "target_seen", "target_lost")
      /\ e5 \in Seq(EventTypes)
      /\ Elements(e5) = EdgeSays(p.hold, s.hold, "still_hold_started", "still_hold_ended")
      /\ e8 \in Seq(EventTypes)
      /\ Elements(e8) = EdgeSays(p.exit, s.exit, "exit_zone_seen", "exit_zone_clear")
      /\ e9 \in Seq(EventTypes)
      /\ Elements(e9) = EdgeSays(p.tracker, s.tracker, "tracker_presence_on", "tracker_presence_off")
  <2>1. /\ e1 \in Seq(EventTypes)
        /\ Elements(e1) = EdgeSays(p.presence, s.presence, "presence_on", "presence_off")
    <3>1. /\ p.presence \in BOOLEAN /\ s.presence \in BOOLEAN
          /\ "presence_on" \in EventTypes /\ "presence_off" \in EventTypes
      BY <1>0, <1>1
    <3> QED BY <3>1, ElementsOfEdges, Zenon
  <2>2. /\ e2 \in Seq(EventTypes)
        /\ Elements(e2) = EdgeSays(p.motion, s.motion, "motion_on", "motion_off")
    <3>1. /\ p.motion \in BOOLEAN /\ s.motion \in BOOLEAN
          /\ "motion_on" \in EventTypes /\ "motion_off" \in EventTypes
      BY <1>0, <1>1
    <3> QED BY <3>1, ElementsOfEdges, Zenon
  <2>3. /\ e3 \in Seq(EventTypes)
        /\ Elements(e3) = EdgeSays(p.target, s.target, "target_seen", "target_lost")
    <3>1. /\ p.target \in BOOLEAN /\ s.target \in BOOLEAN
          /\ "target_seen" \in EventTypes /\ "target_lost" \in EventTypes
      BY <1>0, <1>1
    <3> QED BY <3>1, ElementsOfEdges, Zenon
  <2>4. /\ e5 \in Seq(EventTypes)
        /\ Elements(e5) = EdgeSays(p.hold, s.hold, "still_hold_started", "still_hold_ended")
    <3>1. /\ p.hold \in BOOLEAN /\ s.hold \in BOOLEAN
          /\ "still_hold_started" \in EventTypes /\ "still_hold_ended" \in EventTypes
      BY <1>0, <1>1
    <3> QED BY <3>1, ElementsOfEdges, Zenon
  <2>5. /\ e8 \in Seq(EventTypes)
        /\ Elements(e8) = EdgeSays(p.exit, s.exit, "exit_zone_seen", "exit_zone_clear")
    <3>1. /\ p.exit \in BOOLEAN /\ s.exit \in BOOLEAN
          /\ "exit_zone_seen" \in EventTypes /\ "exit_zone_clear" \in EventTypes
      BY <1>0, <1>1
    <3> QED BY <3>1, ElementsOfEdges, Zenon
  <2>6. /\ e9 \in Seq(EventTypes)
        /\ Elements(e9) = EdgeSays(p.tracker, s.tracker, "tracker_presence_on", "tracker_presence_off")
    <3>1. /\ p.tracker \in BOOLEAN /\ s.tracker \in BOOLEAN
          /\ "tracker_presence_on" \in EventTypes /\ "tracker_presence_off" \in EventTypes
      BY <1>0, <1>1
    <3> QED BY <3>1, ElementsOfEdges, Zenon
  <2> QED BY <2>1, <2>2, <2>3, <2>4, <2>5, <2>6
<1>4. StillEvent(s.still) \in {"still_confirmed", "still_lost", "still_holding"}
  BY DEF StillEvent
<1>5. e4 \in Seq(EventTypes) /\ Elements(e4) \subseteq {"still_confirmed", "still_lost", "still_holding"}
  <2>1. StillEvent(s.still) \in EventTypes
    BY <1>4 DEF EventTypes
  <2>2. e4 \in Seq(EventTypes) /\ Elements(e4) \subseteq {StillEvent(s.still)}
    BY <2>1, ElementsOfEvents, Zenon
  <2> QED BY <1>4, <2>2
<1>6. e6 \in Seq(EventTypes) /\ Elements(e6) \subseteq {"still_confidence_low"}
  <2> QED BY <1>0, ElementsOfEvents, Zenon
<1>7. e7 \in Seq(EventTypes) /\ Elements(e7) \subseteq {"range_gate_recovered", "range_gate_blocked"}
  <2> DEFINE type == IF s.range = "ok" THEN "range_gate_recovered" ELSE "range_gate_blocked"
  <2>1. type \in EventTypes /\ type \in {"range_gate_recovered", "range_gate_blocked"}
    BY DEF EventTypes
  <2>2. e7 = Event(p.range # s.range, type)
    OBVIOUS
  <2> HIDE DEF type, e7
  <2>3. e7 \in Seq(EventTypes) /\ Elements(e7) \subseteq {type}
    BY <2>1, <2>2, ElementsOfEvents, Zenon
  <2> QED BY <2>1, <2>3
<1>8. e10 \in Seq(EventTypes) /\ Elements(e10) \subseteq {"tracker_state"}
  <2> QED BY <1>0, ElementsOfEvents, Zenon
<1> HIDE DEF e1, e2, e3, e4, e5, e6, e7, e8, e9, e10
<1> DEFINE f2 == e1 \o e2
           f3 == f2 \o e3
           f4 == f3 \o e4
           f5 == f4 \o e5
           f6 == f5 \o e6
           f7 == f6 \o e7
           f8 == f7 \o e8
           f9 == f8 \o e9
           f10 == f9 \o e10
<1>9. EventsOf(p, s) = f10
  BY <1>2
<1>10. f2 \in Seq(EventTypes) /\ Elements(f2) = Elements(e1) \union Elements(e2)
  BY <1>3, ElementsOfTwo
<1> HIDE DEF f2
<1>11. f3 \in Seq(EventTypes) /\ Elements(f3) = Elements(f2) \union Elements(e3)
  BY <1>3, <1>10, ElementsOfTwo
<1> HIDE DEF f3
<1>12. f4 \in Seq(EventTypes) /\ Elements(f4) = Elements(f3) \union Elements(e4)
  BY <1>5, <1>11, ElementsOfTwo
<1> HIDE DEF f4
<1>13. f5 \in Seq(EventTypes) /\ Elements(f5) = Elements(f4) \union Elements(e5)
  BY <1>3, <1>12, ElementsOfTwo
<1> HIDE DEF f5
<1>14. f6 \in Seq(EventTypes) /\ Elements(f6) = Elements(f5) \union Elements(e6)
  BY <1>6, <1>13, ElementsOfTwo
<1> HIDE DEF f6
<1>15. f7 \in Seq(EventTypes) /\ Elements(f7) = Elements(f6) \union Elements(e7)
  BY <1>7, <1>14, ElementsOfTwo
<1> HIDE DEF f7
<1>16. f8 \in Seq(EventTypes) /\ Elements(f8) = Elements(f7) \union Elements(e8)
  BY <1>3, <1>15, ElementsOfTwo
<1> HIDE DEF f8
<1>17. f9 \in Seq(EventTypes) /\ Elements(f9) = Elements(f8) \union Elements(e9)
  BY <1>3, <1>16, ElementsOfTwo
<1> HIDE DEF f9
<1>18. f10 \in Seq(EventTypes) /\ Elements(f10) = Elements(f9) \union Elements(e10)
  BY <1>8, <1>17, ElementsOfTwo
<1> HIDE DEF f10
<1>19. Elements(f10) = Elements(e1) \union Elements(e2) \union Elements(e3) \union Elements(e4)
                       \union Elements(e5) \union Elements(e6) \union Elements(e7)
                       \union Elements(e8) \union Elements(e9) \union Elements(e10)
  BY <1>10, <1>11, <1>12, <1>13, <1>14, <1>15, <1>16, <1>17, <1>18
<1>20. CASE pair = <<"presence_on", "presence_off", "presence">>
  <2>1. s[pair[3]] = s.presence /\ p[pair[3]] = p.presence /\ {pair[1], pair[2]} = {"presence_on", "presence_off"}
         /\ pair[1] = "presence_on" /\ pair[2] = "presence_off"
    BY <1>20
  <2>2. Elements(f10) \intersect {"presence_on", "presence_off"} = Elements(e1)
    BY <1>1, <1>3, <1>5, <1>6, <1>7, <1>8, <1>19 DEF EdgeSays
  <2> QED BY <1>1, <1>3, <1>9, <1>18, <2>1, <2>2 DEF EdgeSays
<1>21. CASE pair = <<"motion_on", "motion_off", "motion">>
  <2>1. s[pair[3]] = s.motion /\ p[pair[3]] = p.motion /\ {pair[1], pair[2]} = {"motion_on", "motion_off"}
         /\ pair[1] = "motion_on" /\ pair[2] = "motion_off"
    BY <1>21
  <2>2. Elements(f10) \intersect {"motion_on", "motion_off"} = Elements(e2)
    BY <1>1, <1>3, <1>5, <1>6, <1>7, <1>8, <1>19 DEF EdgeSays
  <2> QED BY <1>1, <1>3, <1>9, <1>18, <2>1, <2>2 DEF EdgeSays
<1>22. CASE pair = <<"target_seen", "target_lost", "target">>
  <2>1. s[pair[3]] = s.target /\ p[pair[3]] = p.target /\ {pair[1], pair[2]} = {"target_seen", "target_lost"}
         /\ pair[1] = "target_seen" /\ pair[2] = "target_lost"
    BY <1>22
  <2>2. Elements(f10) \intersect {"target_seen", "target_lost"} = Elements(e3)
    BY <1>1, <1>3, <1>5, <1>6, <1>7, <1>8, <1>19 DEF EdgeSays
  <2> QED BY <1>1, <1>3, <1>9, <1>18, <2>1, <2>2 DEF EdgeSays
<1>23. CASE pair = <<"exit_zone_seen", "exit_zone_clear", "exit">>
  <2>1. s[pair[3]] = s.exit /\ p[pair[3]] = p.exit /\ {pair[1], pair[2]} = {"exit_zone_seen", "exit_zone_clear"}
         /\ pair[1] = "exit_zone_seen" /\ pair[2] = "exit_zone_clear"
    BY <1>23
  <2>2. Elements(f10) \intersect {"exit_zone_seen", "exit_zone_clear"} = Elements(e8)
    BY <1>1, <1>3, <1>5, <1>6, <1>7, <1>8, <1>19 DEF EdgeSays
  <2> QED BY <1>1, <1>3, <1>9, <1>18, <2>1, <2>2 DEF EdgeSays
<1>24. CASE pair = <<"still_hold_started", "still_hold_ended", "hold">>
  <2>1. s[pair[3]] = s.hold /\ p[pair[3]] = p.hold /\ {pair[1], pair[2]} = {"still_hold_started", "still_hold_ended"}
         /\ pair[1] = "still_hold_started" /\ pair[2] = "still_hold_ended"
    BY <1>24
  <2>2. Elements(f10) \intersect {"still_hold_started", "still_hold_ended"} = Elements(e5)
    BY <1>1, <1>3, <1>5, <1>6, <1>7, <1>8, <1>19 DEF EdgeSays
  <2> QED BY <1>1, <1>3, <1>9, <1>18, <2>1, <2>2 DEF EdgeSays
<1>25. CASE pair = <<"tracker_presence_on", "tracker_presence_off", "tracker">>
  <2>1. s[pair[3]] = s.tracker /\ p[pair[3]] = p.tracker /\ {pair[1], pair[2]} = {"tracker_presence_on", "tracker_presence_off"}
         /\ pair[1] = "tracker_presence_on" /\ pair[2] = "tracker_presence_off"
    BY <1>25
  <2>2. Elements(f10) \intersect {"tracker_presence_on", "tracker_presence_off"} = Elements(e9)
    BY <1>1, <1>3, <1>5, <1>6, <1>7, <1>8, <1>19 DEF EdgeSays
  <2> QED BY <1>1, <1>3, <1>9, <1>18, <2>1, <2>2 DEF EdgeSays
<1> QED BY <1>20, <1>21, <1>22, <1>23, <1>24, <1>25 DEF Pairs

-----------------------------------------------------------------------------
\* The four stores into a log.
Counted(log) == [log EXCEPT !.count = @ + 1]
Uncounted(log) == [log EXCEPT !.count = @ - 1, !.truncated = TRUE]
Overwritten(log) == [MoveStart(log) EXCEPT !.truncated = TRUE]
Written(log, n, row) == [log EXCEPT !.ring[IndexOf(log, n)] = row, !.next = @ + 1]

LEMMA CountedLog ==
  ASSUME NEW log \in Logs, log.count < Capacity
  PROVE  /\ Counted(log) \in Logs /\ Counted(log).count = log.count + 1
         /\ Counted(log).next = log.next /\ Counted(log).truncated = log.truncated
         /\ \A k : RowAt(Counted(log), k) = RowAt(log, k)
<1>1. log.count + 1 \in 0..Capacity
  BY LogAssumption DEF Logs
<1>2. /\ Counted(log) \in Logs /\ Counted(log).count = log.count + 1
      /\ Counted(log).next = log.next /\ Counted(log).truncated = log.truncated
      /\ Counted(log).ring = log.ring /\ Counted(log).start = log.start
  BY <1>1 DEF Logs, Counted
<1> HIDE DEF Counted
<1> QED BY <1>2 DEF RowAt, IndexOf

LEMMA UncountedLog ==
  ASSUME NEW log \in Logs, log.count > 0
  PROVE  /\ Uncounted(log) \in Logs /\ Uncounted(log).count = log.count - 1
         /\ Uncounted(log).next = log.next /\ Uncounted(log).truncated = TRUE
         /\ \A k : RowAt(Uncounted(log), k) = RowAt(log, k)
<1>1. log.count - 1 \in 0..Capacity
  BY LogAssumption DEF Logs
<1>2. /\ Uncounted(log) \in Logs /\ Uncounted(log).count = log.count - 1
      /\ Uncounted(log).next = log.next /\ Uncounted(log).truncated = TRUE
      /\ Uncounted(log).ring = log.ring /\ Uncounted(log).start = log.start
  BY <1>1 DEF Logs, Uncounted
<1> HIDE DEF Uncounted
<1> QED BY <1>2 DEF RowAt, IndexOf

LEMMA OverwrittenLog ==
  ASSUME NEW log \in Logs
  PROVE  /\ Overwritten(log) \in Logs /\ Overwritten(log).count = log.count
         /\ Overwritten(log).next = log.next /\ Overwritten(log).truncated = TRUE
         /\ \A k \in 0..(Capacity - 1) : RowAt(Overwritten(log), k) = RowAt(log, k + 1)
<1> DEFINE moved == MoveStart(log)
<1>1. /\ moved \in Logs /\ moved.count = log.count /\ moved.next = log.next
      /\ moved.ring = log.ring
      /\ \A k \in 0..(Capacity - 1) : RowAt(moved, k) = RowAt(log, k + 1)
  BY StartMoves
<1>2. Overwritten(log) = [moved EXCEPT !.truncated = TRUE]
  BY DEF Overwritten
<1> HIDE DEF moved
<1>3. /\ Overwritten(log) \in Logs /\ Overwritten(log).count = moved.count
      /\ Overwritten(log).next = moved.next /\ Overwritten(log).truncated = TRUE
      /\ Overwritten(log).ring = moved.ring /\ Overwritten(log).start = moved.start
  BY <1>1, <1>2 DEF Logs
<1>4. \A k : RowAt(Overwritten(log), k) = RowAt(moved, k)
  BY <1>3 DEF RowAt, IndexOf
<1> QED BY <1>1, <1>3, <1>4

LEMMA WrittenLog ==
  ASSUME NEW log \in Logs, NEW n \in 0..Capacity, NEW row \in Rows
  PROVE  /\ Written(log, n, row) \in Logs /\ Written(log, n, row).count = log.count
         /\ Written(log, n, row).next = log.next + 1
         /\ Written(log, n, row).truncated = log.truncated
         /\ RowAt(Written(log, n, row), n) = row
         /\ \A k \in 0..Capacity : k # n /\ k < n + Capacity /\ n < k + Capacity
               => RowAt(Written(log, n, row), k) = RowAt(log, k)
<1> DEFINE new == Written(log, n, row)
           slots == [log.ring EXCEPT ![IndexOf(log, n)] = row]
           base == [log EXCEPT !.ring = slots]
<1>1. slots \in [RingSlots -> Rows]
  BY IndexWraps DEF Logs
<1>2. new = [base EXCEPT !.next = log.next + 1]
  BY DEF Written, Logs
<1> HIDE DEF new, slots
<1>3. /\ base \in Logs /\ base.ring = slots /\ base.start = log.start
      /\ base.count = log.count /\ base.next = log.next /\ base.truncated = log.truncated
  BY <1>1 DEF Logs
<1> HIDE DEF base
<1>4. /\ new \in Logs /\ new.ring = slots /\ new.start = log.start
      /\ new.count = log.count /\ new.next = log.next + 1 /\ new.truncated = log.truncated
  BY <1>2, <1>3 DEF Logs
<1>5. /\ RowAt(new, n) = row
      /\ \A k \in 0..Capacity : k # n /\ k < n + Capacity /\ n < k + Capacity
               => RowAt(new, k) = RowAt(log, k)
  BY <1>4, RowWritten DEF slots
<1> QED BY <1>4, <1>5 DEF new

EventRow == [sequence |-> eventLog.next, ms |-> writer.ms, type |-> Head(writer.queue)]
SampleRow == [sequence |-> replayLog.next, ms |-> writer.ms, type |-> "sample"]

\* What each step of the writer stores.
LEMMA Stores ==
  ASSUME LogTypes
  PROVE  /\ Trim => eventLog' = IF writer'.at = "uncount" THEN MoveStart(eventLog) ELSE eventLog
         /\ Uncount => eventLog' = Uncounted(eventLog)
         /\ Claim => eventLog' = IF eventLog.count < Capacity THEN Counted(eventLog)
                                 ELSE Overwritten(eventLog)
         /\ Fill => eventLog' = Written(eventLog, eventLog.count - 1, EventRow)
         /\ FillSample => replayLog' = Written(replayLog, replayLog.count, SampleRow)
         /\ CountSample => replayLog' = IF replayLog.count < Capacity THEN Counted(replayLog)
                                       ELSE Overwritten(replayLog)
<1>1. Trim => eventLog' = IF writer'.at = "uncount" THEN MoveStart(eventLog) ELSE eventLog
  BY DEF Trim, LogTypes
<1>2. Uncount => eventLog' = Uncounted(eventLog)
  BY DEF Uncount, Uncounted
<1>3. Claim => eventLog' = IF eventLog.count < Capacity THEN Counted(eventLog)
                          ELSE Overwritten(eventLog)
  BY DEF Claim, Counted, Overwritten
<1>4. Fill => eventLog' = Written(eventLog, eventLog.count - 1, EventRow)
  BY DEF Fill, Written, EventRow
<1>5. FillSample => replayLog' = Written(replayLog, replayLog.count, SampleRow)
  BY DEF FillSample, Written, SampleRow
<1>6. CountSample => replayLog' = IF replayLog.count < Capacity THEN Counted(replayLog)
                                ELSE Overwritten(replayLog)
  BY DEF CountSample, Counted, Overwritten
<1> QED BY <1>1, <1>2, <1>3, <1>4, <1>5, <1>6

LEMMA LogTypesInit == LogInit => LogTypes
<1> SUFFICES ASSUME LogInit PROVE LogTypes
  OBVIOUS
<1>1. /\ clock = 0 /\ previous = NoSnapshot /\ writer = RestingWriter
      /\ allocated \in [{"events", "replay"} -> BOOLEAN]
      /\ eventLog = EmptyLog /\ replayLog = EmptyLog
      /\ download = NoDownload /\ history = << >>
  BY DEF LogInit
<1>2. 0 \in RingSlots /\ Capacity \in Nat
  BY LogAssumption DEF RingSlots
<1>3. EmptyLog \in Logs
  BY <1>2 DEF EmptyLog, Logs, Rows
<1>4. EmptyLog.next = 1 /\ EmptyLog.count = 0
  BY DEF EmptyLog
<1>5. << >> \in Seq(Nat) /\ Len(<< >>) = 0 /\ << >> \in Seq(EventTypes)
  OBVIOUS
<1>6. /\ RestingWriter.at = "rest" /\ RestingWriter.queue = << >> /\ RestingWriter.ms = 0
      /\ RestingWriter \in [at : {"rest", "trim", "uncount", "append", "fill", "replay", "count"},
                            queue : Seq(EventTypes), ms : Nat]
  BY <1>5 DEF RestingWriter
<1>7. NoDownload \in [of : {"none", "events", "replay"}, row : Nat, at : {"loop", "format"},
                     last : Nat, comma : BOOLEAN]
  BY DEF NoDownload
<1> QED BY <1>1, <1>3, <1>4, <1>5, <1>6, <1>7 DEF LogTypes

LEMMA SampleEventsType ==
  ASSUME LogTypes, NEW s \in Snapshots
  PROVE  SampleEvents(s) \in Seq(EventTypes)
<1>1. CASE previous = NoSnapshot
  <2>1. "diagnostic_started" \in EventTypes
    BY DEF EventTypes
  <2>2. <<"diagnostic_started">> \in Seq(EventTypes)
    BY <2>1, SequenceOfOne, Zenon
  <2> QED BY <1>1, <2>2 DEF SampleEvents
<1>2. CASE previous # NoSnapshot
  <2>1. previous \in Snapshots
    BY <1>2 DEF LogTypes
  <2>2. <<"presence_on", "presence_off", "presence">> \in Pairs
    BY DEF Pairs
  <2>3. EventsOf(previous, s) \in Seq(EventTypes)
    BY <2>1, <2>2, EventsTell, Zenon
  <2> QED BY <1>2, <2>3 DEF SampleEvents
<1> QED BY <1>1, <1>2

Writers == [at : {"rest", "trim", "uncount", "append", "fill", "replay", "count"},
            queue : Seq(EventTypes), ms : Nat]
Downloads == [of : {"none", "events", "replay"}, row : Nat, at : {"loop", "format"},
              last : Nat, comma : BOOLEAN]

LEMMA RowsTold ==
  ASSUME NEW d \in Downloads, NEW n \in Nat
  PROVE  /\ [d EXCEPT !.row = @ + 1, !.at = "loop"] \in Downloads
         /\ [d EXCEPT !.row = @ + 1, !.at = "loop", !.comma = FALSE, !.last = n] \in Downloads
<1> DEFINE e == [d EXCEPT !.row = @ + 1]
           f == [e EXCEPT !.at = "loop"]
           g == [f EXCEPT !.comma = FALSE]
           h == [g EXCEPT !.last = n]
<1>1. /\ [d EXCEPT !.row = @ + 1, !.at = "loop"] = f
      /\ [d EXCEPT !.row = @ + 1, !.at = "loop", !.comma = FALSE, !.last = n] = h
  OBVIOUS
<1>2. e \in Downloads
  BY DEF Downloads
<1> HIDE DEF e
<1>3. f \in Downloads
  BY <1>2 DEF Downloads
<1> HIDE DEF f
<1>4. g \in Downloads
  BY <1>3 DEF Downloads
<1> HIDE DEF g
<1>5. h \in Downloads
  BY <1>4 DEF Downloads
<1> HIDE DEF h
<1> QED BY <1>1, <1>3, <1>5

LEMMA LogTypesStep == LogTypes /\ [LogNext]_logVars => LogTypes'
<1> SUFFICES ASSUME LogTypes, [LogNext]_logVars PROVE LogTypes'
  OBVIOUS
<1> USE DEF Writers, Downloads
<1>0. /\ clock \in Nat /\ previous \in Snapshots \union {NoSnapshot}
      /\ allocated \in [{"events", "replay"} -> BOOLEAN]
      /\ writer \in Writers /\ writer.ms <= clock
      /\ eventLog \in Logs /\ replayLog \in Logs /\ download \in Downloads
      /\ history \in Seq(Nat) /\ eventLog.next = Len(history) + 1
      /\ eventLog.next \in Nat /\ eventLog.count \in Nat /\ eventLog.count <= Capacity
      /\ replayLog.next \in Nat /\ replayLog.count \in 0..Capacity /\ Capacity \in Nat \ {0}
      /\ << >> \in Seq(EventTypes)
  BY LogAssumption DEF LogTypes, Logs
<1>1. ASSUME NEW s \in Snapshots, Sample(s) PROVE LogTypes'
  <2>1. SampleEvents(s) \in Seq(EventTypes)
    BY SampleEventsType
  <2>2. /\ writer' \in Writers /\ writer'.ms = clock
        /\ writer'.at \in {"trim", "replay"}
        /\ writer'.at = "replay" => writer'.queue = << >>
        /\ previous' \in Snapshots \union {NoSnapshot}
    <3>1. CASE allocated.events
      <4>1. /\ writer' = [at |-> "trim", queue |-> SampleEvents(s), ms |-> clock]
            /\ previous' = s
        BY <1>1, <3>1 DEF Sample
      <4> QED BY <1>0, <2>1, <4>1
    <3>2. CASE ~allocated.events
      <4>1. /\ writer' = [at |-> "replay", queue |-> << >>, ms |-> clock]
            /\ previous' = previous
        BY <1>1, <3>2 DEF Sample, RestingWriter
      <4> QED BY <1>0, <4>1
    <3> QED BY <3>1, <3>2
  <2> QED BY <1>0, <1>1, <2>2 DEF Sample, LogTypes
<1>2. ASSUME Trim PROVE LogTypes'
  <2>1. /\ writer' \in Writers /\ writer'.ms = writer.ms
        /\ writer'.at \in {"uncount", "append"}
        /\ writer'.at = "uncount" => eventLog.count > 0
    BY <1>0, <1>2 DEF Trim, TooOld
  <2>2. /\ eventLog' \in Logs /\ eventLog'.count = eventLog.count
        /\ eventLog'.next = eventLog.next
    BY <1>0, <1>2, Stores, StartMoves
  <2> QED BY <1>0, <1>2, <2>1, <2>2 DEF Trim, LogTypes
<1>3. ASSUME Uncount PROVE LogTypes'
  <2>1. /\ writer' \in Writers /\ writer'.ms = writer.ms /\ writer'.at = "trim"
    BY <1>0, <1>3 DEF Uncount
  <2>2. eventLog.count > 0
    BY <1>3 DEF Uncount, LogTypes
  <2>3. /\ eventLog' \in Logs /\ eventLog'.next = eventLog.next
    <3>1. eventLog' = Uncounted(eventLog)
      BY <1>3, Stores
    <3> QED BY <1>0, <2>2, <3>1, UncountedLog
  <2> QED BY <1>0, <1>3, <2>1, <2>3 DEF Uncount, LogTypes
<1>4. ASSUME Claim PROVE LogTypes'
  <2>1. /\ writer' \in Writers /\ writer'.ms = writer.ms /\ writer'.at = "fill"
        /\ writer'.queue # << >>
    BY <1>0, <1>4 DEF Claim
  <2>2. /\ eventLog' \in Logs /\ eventLog'.next = eventLog.next
        /\ eventLog'.count > 0
    <3>1. CASE eventLog.count < Capacity
      <4>1. eventLog' = Counted(eventLog)
        BY <1>4, <3>1, Stores
      <4> QED BY <1>0, <3>1, <4>1, CountedLog
    <3>2. CASE ~(eventLog.count < Capacity)
      <4>1. eventLog' = Overwritten(eventLog)
        BY <1>4, <3>2, Stores
      <4>2. Overwritten(eventLog) \in Logs /\ Overwritten(eventLog).count = eventLog.count
            /\ Overwritten(eventLog).next = eventLog.next
        BY <1>0, OverwrittenLog
      <4> QED BY <1>0, <3>2, <4>1, <4>2
    <3> QED BY <3>1, <3>2
  <2> QED BY <1>0, <1>4, <2>1, <2>2 DEF Claim, LogTypes
<1>5. ASSUME Fill PROVE LogTypes'
  <2>1. eventLog.count > 0 /\ writer.queue # << >> /\ writer.at = "fill"
    BY <1>5 DEF Fill, LogTypes
  <2>2. Head(writer.queue) \in EventTypes /\ Tail(writer.queue) \in Seq(EventTypes)
    BY <1>0, <2>1, ElementsOfQueue
  <2>3. EventRow \in Rows
    BY <1>0, <2>2 DEF EventRow, Rows
  <2>4. /\ writer' \in Writers /\ writer'.ms = writer.ms /\ writer'.at = "append"
    BY <1>0, <1>5, <2>2 DEF Fill
  <2>5. eventLog.count - 1 \in 0..Capacity
    BY <1>0, <2>1
  <2>6. eventLog' \in Logs /\ eventLog'.next = eventLog.next + 1
    <3>1. eventLog' = Written(eventLog, eventLog.count - 1, EventRow)
      BY <1>5, Stores
    <3>2. /\ Written(eventLog, eventLog.count - 1, EventRow) \in Logs
          /\ Written(eventLog, eventLog.count - 1, EventRow).next = eventLog.next + 1
      <4>1. eventLog \in Logs
        BY <1>0
      <4> QED BY <4>1, <2>3, <2>5, WrittenLog, Zenon
    <3> QED BY <3>1, <3>2
  <2>7. /\ history' = Append(history, writer.ms) /\ writer.ms \in Nat
        /\ UNCHANGED <<clock, allocated, previous, replayLog, download>>
    BY <1>0, <1>5 DEF Fill
  <2>8. history' \in Seq(Nat) /\ Len(history') = Len(history) + 1
    BY <1>0, <2>7
  <2> QED BY <1>0, <2>4, <2>6, <2>7, <2>8 DEF LogTypes
<1>6. ASSUME EndEvents PROVE LogTypes'
  <2>1. /\ writer' \in Writers /\ writer'.ms = writer.ms /\ writer'.at = "replay"
        /\ writer'.queue = << >>
    BY <1>0, <1>6 DEF EndEvents
  <2> QED BY <1>0, <1>6, <2>1 DEF EndEvents, LogTypes
<1>7. ASSUME FillSample PROVE LogTypes'
  <2>1. SampleRow \in Rows
    BY <1>0 DEF SampleRow, Rows
  <2>2. replayLog' \in Logs
    BY <1>0, <1>7, <2>1, Stores, WrittenLog
  <2>3. /\ writer' \in Writers /\ writer'.ms = writer.ms /\ writer'.at = "count"
        /\ writer'.queue = writer.queue /\ writer.queue = << >>
    BY <1>0, <1>7 DEF FillSample, LogTypes
  <2> QED BY <1>0, <1>7, <2>2, <2>3 DEF FillSample, LogTypes
<1>8. ASSUME CountSample PROVE LogTypes'
  <2>1. replayLog' \in Logs
    <3>1. CASE replayLog.count < Capacity
      BY <1>0, <1>8, <3>1, Stores, CountedLog
    <3>2. CASE ~(replayLog.count < Capacity)
      BY <1>0, <1>8, <3>2, Stores, OverwrittenLog
    <3> QED BY <3>1, <3>2
  <2>2. /\ writer' \in Writers /\ writer'.ms = 0 /\ writer'.at = "rest"
        /\ writer'.queue = << >>
    BY <1>0, <1>8 DEF CountSample, RestingWriter
  <2> QED BY <1>0, <1>8, <2>1, <2>2 DEF CountSample, LogTypes
<1>9. ASSUME NoReplay PROVE LogTypes'
  <2>1. /\ writer' \in Writers /\ writer'.ms = 0 /\ writer'.at = "rest"
        /\ writer'.queue = << >>
    BY <1>0, <1>9 DEF NoReplay, RestingWriter
  <2> QED BY <1>0, <1>9, <2>1 DEF NoReplay, LogTypes
<1>10. ASSUME NEW name \in {"events", "replay"}, StartDownload(name) PROVE LogTypes'
  <2>1. download' \in Downloads
    BY <1>10 DEF StartDownload, NoDownload
  <2> QED BY <1>0, <1>10, <2>1 DEF StartDownload, LogTypes
<1>11. ASSUME NextRow PROVE LogTypes'
  <2>1. download' \in Downloads
    BY <1>0, <1>11 DEF NextRow
  <2> QED BY <1>0, <1>11, <2>1 DEF NextRow, LogTypes
<1>12. ASSUME FormatRow PROVE LogTypes'
  <2>1. /\ LogOf(download.of) \in Logs
        /\ download.row < RowCount(download.of) => download.row \in 0..Capacity
    BY <1>0 DEF LogOf, RowCount, Logs
  <2>2. CASE download.row >= RowCount(download.of)
    <3>1. download' = [download EXCEPT !.row = @ + 1, !.at = "loop"]
      BY <1>12, <2>2 DEF FormatRow
    <3>2. download' \in Downloads
      BY <1>0, <3>1, RowsTold
    <3> QED BY <1>0, <1>12, <3>2 DEF FormatRow, LogTypes
  <2>3. CASE ~(download.row >= RowCount(download.of))
    <3>1. RowCount(download.of) \in Nat
      BY <1>0 DEF RowCount, LogOf, Logs
    <3>2. RowAt(LogOf(download.of), download.row) \in Rows
      BY <1>0, <2>1, <2>3, <3>1, RowTypes
    <3>3. RowAt(LogOf(download.of), download.row).sequence \in Nat
      BY <3>2 DEF Rows
    <3>5. PICK n \in Nat :
             download' = [download EXCEPT !.row = @ + 1, !.at = "loop", !.comma = FALSE, !.last = n]
      BY <1>0, <1>12, <2>3, <3>3 DEF FormatRow
    <3>4. download' \in Downloads
      <4>1. download \in Downloads
        BY <1>0
      <4>2. [download EXCEPT !.row = @ + 1, !.at = "loop", !.comma = FALSE, !.last = n] \in Downloads
        BY <4>1, RowsTold
      <4> QED BY <3>5, <4>2
    <3> QED BY <1>0, <1>12, <3>4 DEF FormatRow, LogTypes
  <2> QED BY <2>2, <2>3
<1>13. ASSUME EndDownload PROVE LogTypes'
  <2>1. download' \in Downloads
    BY <1>13 DEF EndDownload, NoDownload
  <2> QED BY <1>0, <1>13, <2>1 DEF EndDownload, LogTypes
<1>14. ASSUME TimeGoesOn PROVE LogTypes'
  BY <1>0, <1>14 DEF TimeGoesOn, LogTypes
<1>15. ASSUME UNCHANGED logVars PROVE LogTypes'
  BY <1>0, <1>15 DEF logVars, LogTypes
<1> QED BY <1>1, <1>2, <1>3, <1>4, <1>5, <1>6, <1>7, <1>8, <1>9, <1>10, <1>11, <1>12, <1>13,
           <1>14, <1>15 DEF LogNext, WriterRuns

-----------------------------------------------------------------------------
\* The ring of events.
LEMMA EventFacts ==
  ASSUME LogTypes
  PROVE  /\ Capacity \in Nat /\ Capacity > 0 /\ Retention \in Nat
         /\ eventLog \in Logs /\ eventLog.count \in 0..Capacity
         /\ EventsHeld \in 0..Capacity /\ Len(history) \in Nat /\ EventsGone \in Int
         /\ EventsGone + EventsHeld = Len(history)
         /\ \A q \in 1..Len(history) : history[q] \in Nat
         /\ clock \in Nat /\ writer.ms \in Nat /\ writer.ms <= clock
<1>1. /\ eventLog \in Logs /\ eventLog.count \in 0..Capacity
      /\ Capacity \in Nat /\ Capacity > 0 /\ Retention \in Nat
      /\ clock \in Nat /\ writer.ms \in Nat /\ writer.ms <= clock
      /\ writer.at \in {"uncount", "fill"} => eventLog.count > 0
  BY LogAssumption DEF LogTypes, Logs
<1>2. EventsHeld \in 0..Capacity
  BY <1>1 DEF EventsHeld
<1>3. Len(history) \in Nat /\ \A q \in 1..Len(history) : history[q] \in Nat
  BY DEF LogTypes
<1>4. EventsGone \in Int /\ EventsGone + EventsHeld = Len(history)
  BY <1>2, <1>3 DEF EventsGone
<1> QED BY <1>1, <1>2, <1>3, <1>4

LEMMA EventInvInit == LogInit => EventInv
<1> SUFFICES ASSUME LogInit PROVE EventInv
  OBVIOUS
<1>1. LogTypes
  BY LogTypesInit
<1>2. /\ writer.at = "rest" /\ eventLog.count = 0 /\ eventLog.truncated = FALSE
      /\ history = << >> /\ Len(history) = 0
  BY DEF LogInit, RestingWriter, EmptyLog
<1>3. EventsHeld = 0 /\ EventsGone = 0
  BY <1>2 DEF EventsHeld, EventsGone
<1> QED BY <1>2, <1>3 DEF EventInv, EventRows, EventsDropped

\* Steps that leave the ring alone, though time may pass.
LEMMA EventFrame ==
  ASSUME LogTypes, LogTypes', EventInv,
         eventLog' = eventLog, history' = history, clock' >= clock,
         writer'.at = "uncount" <=> writer.at = "uncount",
         writer'.at = "fill" <=> writer.at = "fill"
  PROVE  EventInv' /\ EventsGone' = EventsGone /\ EventsHeld' = EventsHeld
<1>1. EventsGone' = EventsGone /\ EventsHeld' = EventsHeld
  BY DEF EventsGone, EventsHeld
<1>2. /\ \A q \in 1..Len(history) : history[q] \in Nat
      /\ EventsHeld \in 0..Capacity /\ Len(history) \in Nat /\ EventsGone \in Int
      /\ EventsGone + EventsHeld = Len(history) /\ Capacity \in Nat
      /\ clock \in Nat /\ Retention \in Nat
  BY EventFacts
<1>3. clock' \in Nat
  BY DEF LogTypes
<1>4. EventRows'
  BY <1>1 DEF EventInv, EventRows, RowAt, IndexOf
<1>5. EventsDropped'
  <2> SUFFICES ASSUME NEW q \in 1..EventsGone
               PROVE  \/ q + Capacity <= IF writer'.at = "fill" THEN Len(history) + 1
                                        ELSE Len(history)
                      \/ clock' - history[q] > Retention
    BY <1>1 DEF EventsDropped
  <2>1. q \in 1..Len(history)
    BY <1>2
  <2>2. history[q] \in Nat
    BY <1>2, <2>1
  <2>3. \/ q + Capacity <= IF writer'.at = "fill" THEN Len(history) + 1 ELSE Len(history)
        \/ clock - history[q] > Retention
    BY DEF EventInv, EventsDropped
  <2> QED BY <1>2, <1>3, <2>2, <2>3
<1> QED BY <1>1, <1>4, <1>5 DEF EventInv

LEMMA TrimEvents ==
  ASSUME LogTypes, LogTypes', EventInv, Trim
  PROVE  /\ EventInv' /\ EventsGone' >= EventsGone
         /\ writer'.queue = writer.queue
         /\ \/ /\ EventsHeld' = EventsHeld /\ eventLog' = eventLog
            \/ /\ EventsHeld' = EventsHeld - 1
               /\ \A k \in 0..(EventsHeld' - 1) :
                     RowAt(eventLog', k) = RowAt(eventLog, k + 1)
<1> DEFINE n == Len(history)
<1>0. /\ Capacity \in Nat /\ Capacity > 0 /\ Retention \in Nat
      /\ eventLog \in Logs /\ eventLog.count \in 0..Capacity
      /\ EventsHeld \in 0..Capacity /\ n \in Nat /\ EventsGone \in Int
      /\ EventsGone + EventsHeld = n /\ \A q \in 1..n : history[q] \in Nat
      /\ clock \in Nat /\ writer.ms \in Nat /\ writer.ms <= clock
  BY EventFacts
<1>1. /\ writer.at = "trim" /\ writer'.queue = writer.queue
      /\ history' = history /\ clock' = clock
      /\ writer'.at = IF TooOld(eventLog, writer.ms) THEN "uncount" ELSE "append"
      /\ eventLog' = IF TooOld(eventLog, writer.ms) THEN MoveStart(eventLog) ELSE eventLog
  BY DEF Trim, LogTypes
<1>2. CASE ~TooOld(eventLog, writer.ms)
  <2>1. /\ eventLog' = eventLog /\ clock' >= clock
        /\ writer'.at = "uncount" <=> writer.at = "uncount"
        /\ writer'.at = "fill" <=> writer.at = "fill"
    BY <1>0, <1>1, <1>2
  <2> QED BY <1>0, <1>1, <2>1, EventFrame
<1>3. CASE TooOld(eventLog, writer.ms)
  <2>1. /\ eventLog.count > 0
        /\ writer.ms - eventLog.ring[eventLog.start].ms > Retention
        /\ writer'.at = "uncount" /\ eventLog' = MoveStart(eventLog)
    BY <1>1, <1>3 DEF TooOld
  <2>2. EventsHeld = eventLog.count /\ EventsGone >= 0
    BY <1>1 DEF EventsHeld, EventInv
  <2>3. /\ eventLog'.count = eventLog.count
        /\ \A k \in 0..(Capacity - 1) : RowAt(eventLog', k) = RowAt(eventLog, k + 1)
    BY <1>0, <2>1, StartMoves
  <2>4. EventsHeld' = EventsHeld - 1 /\ EventsGone' = EventsGone + 1
    BY <1>0, <1>1, <2>1, <2>2, <2>3 DEF EventsHeld, EventsGone
  <2>5. RowAt(eventLog, 0) = eventLog.ring[eventLog.start]
    <3>1. eventLog.start \in 0..(Capacity - 1)
      BY <1>0 DEF Logs, RingSlots
    <3>2. IndexOf(eventLog, 0) = eventLog.start
      BY <1>0, <3>1, IndexWraps
    <3> QED BY <3>2 DEF RowAt
  <2>6. \A k \in 0..(EventsHeld - 1) :
          /\ RowAt(eventLog, k).sequence = EventsGone + k + 1
          /\ RowAt(eventLog, k).ms = history[EventsGone + k + 1]
    BY DEF EventInv, EventRows
  <2>7. \A k \in 0..(EventsHeld' - 1) : RowAt(eventLog', k) = RowAt(eventLog, k + 1)
    BY <1>0, <2>3, <2>4
  <2>8. EventRows'
    <3> SUFFICES ASSUME NEW k \in 0..(EventsHeld' - 1)
                 PROVE  /\ RowAt(eventLog', k).sequence = EventsGone' + k + 1
                        /\ RowAt(eventLog', k).ms = history[EventsGone' + k + 1]
      BY <1>1 DEF EventRows
    <3>1. k + 1 \in 0..(EventsHeld - 1) /\ EventsGone + (k + 1) + 1 = EventsGone' + k + 1
      BY <1>0, <2>4
    <3>2. /\ RowAt(eventLog, k + 1).sequence = EventsGone + (k + 1) + 1
          /\ RowAt(eventLog, k + 1).ms = history[EventsGone + (k + 1) + 1]
      BY <2>6, <3>1
    <3> QED BY <2>7, <3>1, <3>2
  <2>9. EventsDropped'
    <3> SUFFICES ASSUME NEW q \in 1..(EventsGone + 1)
                 PROVE  q + Capacity <= n \/ clock - history[q] > Retention
      BY <1>1, <2>1, <2>4 DEF EventsDropped
    <3>1. CASE q = EventsGone + 1
      <4>1. 0 \in 0..(EventsHeld - 1) /\ EventsGone + 0 + 1 = EventsGone + 1
        BY <1>0, <2>1, <2>2
      <4>2. RowAt(eventLog, 0).ms = history[EventsGone + 1]
        BY <2>6, <4>1
      <4>3. EventsGone + 1 \in 1..n
        BY <1>0, <2>1, <2>2
      <4>4. history[q] \in Nat /\ writer.ms - history[q] > Retention
        BY <1>0, <2>1, <2>5, <3>1, <4>2, <4>3
      <4> QED BY <1>0, <4>4
    <3>2. CASE q # EventsGone + 1
      <4>1. q \in 1..EventsGone
        BY <1>0, <3>2
      <4> QED BY <1>1, <4>1 DEF EventInv, EventsDropped
    <3> QED BY <3>1, <3>2
  <2>10. EventInv'
    BY <1>0, <2>1, <2>2, <2>4, <2>8, <2>9 DEF EventInv
  <2> QED BY <1>0, <1>1, <2>4, <2>7, <2>10
<1> QED BY <1>2, <1>3

LEMMA UncountEvents ==
  ASSUME LogTypes, LogTypes', EventInv, Uncount
  PROVE  /\ EventInv' /\ EventsGone' = EventsGone /\ EventsHeld' = EventsHeld
         /\ \A k : RowAt(eventLog', k) = RowAt(eventLog, k)
<1>0. /\ Capacity \in Nat /\ eventLog \in Logs /\ eventLog.count \in 0..Capacity
      /\ EventsHeld \in 0..Capacity /\ Len(history) \in Nat /\ EventsGone \in Int
  BY EventFacts
<1>1. /\ writer.at = "uncount" /\ writer'.at = "trim" /\ history' = history /\ clock' = clock
      /\ eventLog.count > 0 /\ eventLog' = Uncounted(eventLog)
  BY Stores DEF Uncount, LogTypes
<1>2. /\ eventLog'.count = eventLog.count - 1 /\ eventLog'.truncated = TRUE
      /\ \A k : RowAt(eventLog', k) = RowAt(eventLog, k)
  BY <1>0, <1>1, UncountedLog
<1>3. EventsHeld' = EventsHeld /\ EventsGone' = EventsGone
  BY <1>1, <1>2 DEF EventsHeld, EventsGone
<1>4. EventsGone > 0
  BY <1>1 DEF EventInv
<1>5. EventRows'
  BY <1>1, <1>2, <1>3 DEF EventInv, EventRows
<1>6. EventsDropped'
  BY <1>1, <1>3 DEF EventInv, EventsDropped
<1>7. EventInv'
  BY <1>1, <1>2, <1>3, <1>4, <1>5, <1>6 DEF EventInv
<1> QED BY <1>2, <1>3, <1>7

LEMMA ClaimEvents ==
  ASSUME LogTypes, LogTypes', EventInv, Claim
  PROVE  /\ EventInv' /\ EventsGone' >= EventsGone
         /\ writer'.queue = writer.queue
         /\ \/ /\ EventsHeld' = EventsHeld
               /\ \A k : RowAt(eventLog', k) = RowAt(eventLog, k)
            \/ /\ EventsHeld' = EventsHeld - 1
               /\ \A k \in 0..(EventsHeld' - 1) :
                     RowAt(eventLog', k) = RowAt(eventLog, k + 1)
<1> DEFINE n == Len(history)
<1>0. /\ Capacity \in Nat /\ Capacity > 0 /\ Retention \in Nat
      /\ eventLog \in Logs /\ eventLog.count \in 0..Capacity
      /\ EventsHeld \in 0..Capacity /\ n \in Nat /\ EventsGone \in Int
      /\ EventsGone + EventsHeld = n /\ \A q \in 1..n : history[q] \in Nat
      /\ clock \in Nat
  BY EventFacts
<1>1. /\ writer.at = "append" /\ writer'.at = "fill" /\ writer'.queue = writer.queue
      /\ history' = history /\ clock' = clock
      /\ eventLog' = IF eventLog.count < Capacity THEN Counted(eventLog) ELSE Overwritten(eventLog)
  BY Stores DEF Claim, LogTypes
<1>2. EventsHeld = eventLog.count /\ EventsGone >= 0
  BY <1>1 DEF EventsHeld, EventInv
<1>3. EventRows /\ EventsDropped /\ (eventLog.truncated <=> EventsGone > 0)
  BY <1>1 DEF EventInv
<1>4. CASE eventLog.count < Capacity
  <2>1. /\ eventLog'.count = eventLog.count + 1 /\ eventLog'.truncated = eventLog.truncated
        /\ \A k : RowAt(eventLog', k) = RowAt(eventLog, k)
    BY <1>0, <1>1, <1>4, CountedLog
  <2>2. EventsHeld' = EventsHeld /\ EventsGone' = EventsGone
    BY <1>0, <1>1, <1>2, <2>1 DEF EventsHeld, EventsGone
  <2>3. EventRows'
    BY <1>1, <1>3, <2>1, <2>2 DEF EventRows
  <2>4. EventsDropped'
    <3> SUFFICES ASSUME NEW q \in 1..EventsGone
                 PROVE  q + Capacity <= n + 1 \/ clock - history[q] > Retention
      BY <1>1, <2>2 DEF EventsDropped
    <3>1. q + Capacity <= n \/ clock - history[q] > Retention
      BY <1>1, <1>3 DEF EventsDropped
    <3> QED BY <1>0, <3>1
  <2>5. EventInv'
    BY <1>1, <1>2, <1>3, <2>1, <2>2, <2>3, <2>4 DEF EventInv
  <2> QED BY <1>0, <1>1, <2>1, <2>2, <2>5
<1>5. CASE ~(eventLog.count < Capacity)
  <2>1. eventLog.count = Capacity
    BY <1>0, <1>5
  <2>2. /\ eventLog'.count = eventLog.count /\ eventLog'.truncated = TRUE
        /\ \A k \in 0..(Capacity - 1) : RowAt(eventLog', k) = RowAt(eventLog, k + 1)
    BY <1>0, <1>1, <1>5, OverwrittenLog
  <2>3. EventsHeld' = EventsHeld - 1 /\ EventsGone' = EventsGone + 1
    BY <1>0, <1>1, <1>2, <2>2 DEF EventsHeld, EventsGone
  <2>4. \A k \in 0..(EventsHeld' - 1) : RowAt(eventLog', k) = RowAt(eventLog, k + 1)
    BY <1>0, <2>2, <2>3
  <2>5. EventRows'
    <3> SUFFICES ASSUME NEW k \in 0..(EventsHeld' - 1)
                 PROVE  /\ RowAt(eventLog', k).sequence = EventsGone' + k + 1
                        /\ RowAt(eventLog', k).ms = history[EventsGone' + k + 1]
      BY <1>1 DEF EventRows
    <3>1. k + 1 \in 0..(EventsHeld - 1) /\ EventsGone + (k + 1) + 1 = EventsGone' + k + 1
      BY <1>0, <2>3
    <3>2. /\ RowAt(eventLog, k + 1).sequence = EventsGone + (k + 1) + 1
          /\ RowAt(eventLog, k + 1).ms = history[EventsGone + (k + 1) + 1]
      BY <1>3, <3>1 DEF EventRows
    <3> QED BY <2>4, <3>1, <3>2
  <2>6. EventsDropped'
    <3> SUFFICES ASSUME NEW q \in 1..(EventsGone + 1)
                 PROVE  q + Capacity <= n + 1 \/ clock - history[q] > Retention
      BY <1>1, <2>3 DEF EventsDropped
    <3>1. CASE q = EventsGone + 1
      BY <1>0, <1>2, <2>1, <3>1
    <3>2. CASE q # EventsGone + 1
      <4>1. q \in 1..EventsGone
        BY <1>0, <3>2
      <4>2. q + Capacity <= n \/ clock - history[q] > Retention
        BY <1>1, <1>3, <4>1 DEF EventsDropped
      <4> QED BY <1>0, <4>2
    <3> QED BY <3>1, <3>2
  <2>7. EventInv'
    BY <1>0, <1>1, <1>2, <2>2, <2>3, <2>5, <2>6 DEF EventInv
  <2> QED BY <1>0, <1>1, <2>3, <2>4, <2>7
<1> QED BY <1>4, <1>5

LEMMA FillEvents ==
  ASSUME LogTypes, LogTypes', EventInv, Fill
  PROVE  /\ EventInv' /\ EventsGone' = EventsGone /\ EventsHeld' = EventsHeld + 1
         /\ RowAt(eventLog', EventsHeld) = EventRow
         /\ \A k \in 0..(EventsHeld - 1) : RowAt(eventLog', k) = RowAt(eventLog, k)
<1> DEFINE n == Len(history)
<1>0. /\ Capacity \in Nat /\ Capacity > 0 /\ Retention \in Nat
      /\ eventLog \in Logs /\ eventLog.count \in 0..Capacity
      /\ EventsHeld \in 0..Capacity /\ n \in Nat /\ EventsGone \in Int
      /\ EventsGone + EventsHeld = n /\ \A q \in 1..n : history[q] \in Nat
      /\ clock \in Nat
  BY EventFacts
<1>1. /\ writer.at = "fill" /\ writer'.at = "append" /\ clock' = clock
      /\ history' = Append(history, writer.ms) /\ eventLog.count > 0 /\ writer.queue # << >>
      /\ eventLog' = Written(eventLog, eventLog.count - 1, EventRow)
      /\ eventLog.next = n + 1
  BY Stores DEF Fill, LogTypes
<1>2. EventRow \in Rows /\ EventRow.sequence = n + 1 /\ EventRow.ms = writer.ms
  <2>1. Head(writer.queue) \in EventTypes
    BY <1>1, ElementsOfQueue DEF LogTypes
  <2>2. eventLog.next \in Nat /\ writer.ms \in Nat
    BY DEF LogTypes, Logs
  <2> QED BY <1>1, <2>1, <2>2 DEF EventRow, Rows
<1>3. EventsHeld = eventLog.count - 1 /\ EventsGone >= 0
  BY <1>1 DEF EventsHeld, EventInv
<1>4. /\ eventLog'.count = eventLog.count /\ eventLog'.truncated = eventLog.truncated
      /\ RowAt(eventLog', EventsHeld) = EventRow
      /\ \A k \in 0..Capacity :
            k # EventsHeld /\ k < EventsHeld + Capacity /\ EventsHeld < k + Capacity
               => RowAt(eventLog', k) = RowAt(eventLog, k)
  <2>1. eventLog' = Written(eventLog, EventsHeld, EventRow)
    BY <1>1, <1>3
  <2>2. eventLog \in Logs /\ EventsHeld \in 0..Capacity /\ EventRow \in Rows
    BY <1>0, <1>2
  <2> HIDE DEF EventsHeld
  <2> QED BY <2>1, <2>2, WrittenLog
<1>5. \A k \in 0..(EventsHeld - 1) : RowAt(eventLog', k) = RowAt(eventLog, k)
  <2> TAKE k \in 0..(EventsHeld - 1)
  <2>1. /\ k \in 0..Capacity /\ k # EventsHeld
        /\ k < EventsHeld + Capacity /\ EventsHeld < k + Capacity
    BY <1>0, <1>3
  <2> QED BY <1>4, <2>1
<1>6. /\ Len(history') = n + 1 /\ history'[n + 1] = writer.ms
      /\ \A q \in 1..n : history'[q] = history[q]
  BY <1>1 DEF LogTypes
<1>7. EventsHeld' = EventsHeld + 1 /\ EventsGone' = EventsGone
  <2>1. EventsHeld' = eventLog'.count
    BY <1>1 DEF EventsHeld
  <2>2. EventsHeld' = EventsHeld + 1
    BY <1>0, <1>3, <1>4, <2>1
  <2> HIDE DEF EventsHeld
  <2>3. EventsGone' = (n + 1) - EventsHeld' /\ EventsGone = n - EventsHeld
    BY <1>6 DEF EventsGone
  <2> QED BY <1>0, <2>2, <2>3
<1>8. EventRows'
  <2> SUFFICES ASSUME NEW k \in 0..EventsHeld
               PROVE  /\ RowAt(eventLog', k).sequence = EventsGone + k + 1
                      /\ RowAt(eventLog', k).ms = history'[EventsGone + k + 1]
    BY <1>0, <1>7 DEF EventRows
  <2>1. CASE k = EventsHeld
    BY <1>0, <1>2, <1>4, <1>6, <2>1
  <2>2. CASE k # EventsHeld
    <3>1. k \in 0..(EventsHeld - 1) /\ EventsGone + k + 1 \in 1..n
      BY <1>0, <1>3, <2>2
    <3>2. /\ RowAt(eventLog, k).sequence = EventsGone + k + 1
          /\ RowAt(eventLog, k).ms = history[EventsGone + k + 1]
      BY <3>1 DEF EventInv, EventRows
    <3> QED BY <1>5, <1>6, <3>1, <3>2
  <2> QED BY <2>1, <2>2
<1>9. EventsDropped'
  <2> SUFFICES ASSUME NEW q \in 1..EventsGone
               PROVE  q + Capacity <= n + 1 \/ clock - history'[q] > Retention
    BY <1>1, <1>6, <1>7 DEF EventsDropped
  <2>1. q + Capacity <= n + 1 \/ clock - history[q] > Retention
    BY <1>1 DEF EventInv, EventsDropped
  <2>2. q \in 1..n
    BY <1>0
  <2> QED BY <1>6, <2>1, <2>2
<1>10. EventInv'
  BY <1>1, <1>3, <1>4, <1>7, <1>8, <1>9 DEF EventInv
<1> QED BY <1>4, <1>5, <1>7, <1>10

-----------------------------------------------------------------------------
\* The ring of samples.
LEMMA SampleFacts ==
  ASSUME LogTypes
  PROVE  /\ Capacity \in Nat /\ Capacity > 0
         /\ replayLog \in Logs /\ replayLog.count \in 0..Capacity
         /\ replayLog.next \in Nat /\ replayLog.next > 0 /\ SamplesGone \in Int
BY LogAssumption DEF LogTypes, Logs, SamplesGone

LEMMA SampleInvInit == LogInit => SampleInv
<1> SUFFICES ASSUME LogInit PROVE SampleInv
  OBVIOUS
<1>1. writer.at = "rest" /\ replayLog.count = 0 /\ replayLog.next = 1
  BY DEF LogInit, RestingWriter, EmptyLog
<1>2. SamplesGone = 0
  BY <1>1 DEF SamplesGone
<1> QED BY <1>1, <1>2 DEF SampleInv, SampleRows

LEMMA SampleFrame ==
  ASSUME SampleInv, replayLog' = replayLog, writer'.at = "count" <=> writer.at = "count"
  PROVE  SampleInv' /\ SamplesGone' = SamplesGone
<1>1. SamplesGone' = SamplesGone
  BY DEF SamplesGone
<1> QED BY <1>1 DEF SampleInv, SampleRows, RowAt, IndexOf

LEMMA FillSamples ==
  ASSUME LogTypes, LogTypes', SampleInv, FillSample
  PROVE  SampleInv' /\ SamplesGone' = SamplesGone
<1> DEFINE m == replayLog.count
<1>0. /\ Capacity \in Nat /\ Capacity > 0
      /\ replayLog \in Logs /\ m \in 0..Capacity
      /\ replayLog.next \in Nat /\ replayLog.next > 0 /\ SamplesGone \in Int
  BY SampleFacts
<1>1. /\ writer.at = "replay" /\ writer'.at = "count"
      /\ replayLog' = Written(replayLog, m, SampleRow)
  BY Stores DEF FillSample, LogTypes
<1>2. SampleRow \in Rows /\ SampleRow.sequence = replayLog.next
  BY DEF SampleRow, Rows, LogTypes, Logs
<1>3. /\ replayLog'.count = m /\ replayLog'.next = replayLog.next + 1
      /\ RowAt(replayLog', m) = SampleRow
      /\ \A k \in 0..Capacity : k # m /\ k < m + Capacity /\ m < k + Capacity
               => RowAt(replayLog', k) = RowAt(replayLog, k)
  BY <1>0, <1>1, <1>2, WrittenLog
<1>4. SamplesGone = replayLog.next - 1 - m /\ SamplesGone' = SamplesGone
  BY <1>0, <1>1, <1>3 DEF SamplesGone
<1>5. SampleRows'
  <2> SUFFICES ASSUME NEW k \in 0..Capacity, k <= m, m < k + Capacity
               PROVE  RowAt(replayLog', k).sequence = SamplesGone + k + 1
    BY <1>1, <1>3, <1>4 DEF SampleRows
  <2>1. CASE k = m
    BY <1>0, <1>2, <1>3, <1>4, <2>1
  <2>2. CASE k # m
    <3>1. k < m /\ k < m + Capacity
      BY <1>0, <2>2
    <3>2. RowAt(replayLog, k).sequence = SamplesGone + k + 1
      BY <1>1, <3>1 DEF SampleInv, SampleRows
    <3> QED BY <1>3, <2>2, <3>1, <3>2
  <2> QED BY <2>1, <2>2
<1> QED BY <1>3, <1>4, <1>5 DEF SampleInv

LEMMA CountSamples ==
  ASSUME LogTypes, LogTypes', SampleInv, CountSample
  PROVE  SampleInv' /\ SamplesGone' >= SamplesGone
<1> DEFINE m == replayLog.count
<1>0. /\ Capacity \in Nat /\ Capacity > 0
      /\ replayLog \in Logs /\ m \in 0..Capacity
      /\ replayLog.next \in Nat /\ replayLog.next > 0 /\ SamplesGone \in Int
  BY SampleFacts
<1>1. /\ writer.at = "count" /\ writer'.at = "rest"
      /\ replayLog' = IF m < Capacity THEN Counted(replayLog) ELSE Overwritten(replayLog)
  BY Stores DEF CountSample, RestingWriter, LogTypes
<1>2. /\ SamplesGone = replayLog.next - 2 - m /\ SamplesGone >= 0
      /\ m < Capacity => SamplesGone = 0
      /\ \A k \in 0..Capacity : k <= m /\ m < k + Capacity
            => RowAt(replayLog, k).sequence = SamplesGone + k + 1
  BY <1>1 DEF SampleInv, SamplesGone, SampleRows
<1>3. SamplesGone' = replayLog'.next - 1 - replayLog'.count
  BY <1>1 DEF SamplesGone
<1> HIDE DEF SamplesGone
<1>4. CASE m < Capacity
  <2>1. /\ replayLog'.count = m + 1 /\ replayLog'.next = replayLog.next
        /\ \A k : RowAt(replayLog', k) = RowAt(replayLog, k)
    BY <1>0, <1>1, <1>4, CountedLog
  <2>2. SamplesGone' = SamplesGone
    BY <1>0, <1>2, <1>3, <2>1
  <2>3. SampleRows'
    <3> SUFFICES ASSUME NEW k \in 0..Capacity, k < m + 1
                 PROVE  RowAt(replayLog', k).sequence = SamplesGone + k + 1
      BY <1>1, <2>1, <2>2 DEF SampleRows
    <3>1. k <= m /\ m < k + Capacity
      BY <1>0, <1>4
    <3> QED BY <1>2, <2>1, <3>1
  <2> QED BY <1>0, <1>2, <2>1, <2>2, <2>3 DEF SampleInv
<1>5. CASE ~(m < Capacity)
  <2>1. m = Capacity
    BY <1>0, <1>5
  <2>2. /\ replayLog'.count = m /\ replayLog'.next = replayLog.next
        /\ \A k \in 0..(Capacity - 1) : RowAt(replayLog', k) = RowAt(replayLog, k + 1)
    BY <1>0, <1>1, <1>5, OverwrittenLog
  <2>3. SamplesGone' = SamplesGone + 1
    BY <1>0, <1>2, <1>3, <2>2
  <2>4. SampleRows'
    <3> SUFFICES ASSUME NEW k \in 0..Capacity, k < m
                 PROVE  RowAt(replayLog', k).sequence = SamplesGone + 1 + k + 1
      BY <1>1, <2>2, <2>3 DEF SampleRows
    <3>1. /\ k \in 0..(Capacity - 1) /\ k + 1 \in 0..Capacity
          /\ k + 1 <= m /\ m < (k + 1) + Capacity
      BY <1>0, <2>1
    <3>2. RowAt(replayLog, k + 1).sequence = SamplesGone + (k + 1) + 1
      BY <1>2, <3>1
    <3> QED BY <1>0, <2>2, <3>1, <3>2
  <2> QED BY <1>0, <1>2, <2>1, <2>2, <2>3, <2>4 DEF SampleInv
<1> QED BY <1>4, <1>5

-----------------------------------------------------------------------------
\* What the log tells of a pair.
Tells(pair) == {pair[1], pair[2]}
LastTells(log, held, pair, k) ==
    /\ RowAt(log, k).type \in Tells(pair)
    /\ \A l \in (k + 1)..(held - 1) : RowAt(log, l).type \notin Tells(pair)

LEMMA LogAgreesMeans ==
  ASSUME NEW pair
  PROVE  /\ LogAgrees(pair) <=>
               (Elements(writer.queue) \intersect Tells(pair) = {} =>
                   \A k \in 0..(EventsHeld - 1) :
                       LastTells(eventLog, EventsHeld, pair, k) =>
                           (RowAt(eventLog, k).type = pair[1]) = previous[pair[3]])
BY DEF LogAgrees, LastTells, Tells

LEMMA ExplainInit == LogInit => ExplainInv
<1> SUFFICES ASSUME LogInit PROVE ExplainInv
  OBVIOUS
<1>1. /\ writer.at = "rest" /\ writer.queue = << >> /\ eventLog.count = 0
  BY DEF LogInit, RestingWriter, EmptyLog
<1>2. EventsHeld = 0 /\ Elements(writer.queue) = {}
  <2>1. EventsHeld = 0
    BY <1>1 DEF EventsHeld
  <2>2. Elements(<< >>) = {}
    BY DEF Elements
  <2> QED BY <1>1, <2>1, <2>2
<1> QED BY <1>1, <1>2 DEF ExplainInv, QueueAgrees, LogAgrees

\* Steps that leave sample, queue and ring alone, or only drop the oldest row.
LEMMA ExplainFrame ==
  ASSUME LogTypes, ExplainInv, previous' = previous, writer'.queue = writer.queue,
         \/ /\ EventsHeld' = EventsHeld
            /\ \A k \in 0..(EventsHeld - 1) : RowAt(eventLog', k) = RowAt(eventLog, k)
         \/ /\ EventsHeld' = EventsHeld - 1
            /\ \A k \in 0..(EventsHeld' - 1) : RowAt(eventLog', k) = RowAt(eventLog, k + 1),
         EventsHeld' \in Nat
  PROVE  ExplainInv'
<1>0. EventsHeld \in 0..Capacity /\ Capacity \in Nat
  BY EventFacts
<1>1. ASSUME previous' = NoSnapshot
      PROVE  EventsHeld' = 0 /\ writer'.queue = << >>
  <2>1. EventsHeld = 0 /\ writer.queue = << >>
    BY <1>1 DEF ExplainInv
  <2>2. EventsHeld' = EventsHeld \/ EventsHeld' = EventsHeld - 1
    OBVIOUS
  <2> QED BY <2>1, <2>2
<1>2. ASSUME NEW pair \in Pairs
      PROVE  QueueAgrees(pair)'
  BY DEF ExplainInv, QueueAgrees
<1>3. ASSUME NEW pair \in Pairs
      PROVE  LogAgrees(pair)'
  <2> SUFFICES ASSUME Elements(writer.queue) \intersect Tells(pair) = {},
                      NEW k \in 0..(EventsHeld' - 1),
                      RowAt(eventLog', k).type \in Tells(pair),
                      \A l \in (k + 1)..(EventsHeld' - 1) :
                          RowAt(eventLog', l).type \notin Tells(pair)
               PROVE  (RowAt(eventLog', k).type = pair[1]) = previous[pair[3]]
    BY DEF LogAgrees, Tells
  <2>1. \A j \in 0..(EventsHeld - 1) :
           LastTells(eventLog, EventsHeld, pair, j) =>
               (RowAt(eventLog, j).type = pair[1]) = previous[pair[3]]
    BY LogAgreesMeans DEF ExplainInv
  <2>2. CASE /\ EventsHeld' = EventsHeld
             /\ \A j \in 0..(EventsHeld - 1) : RowAt(eventLog', j) = RowAt(eventLog, j)
    <3>1. k \in 0..(EventsHeld - 1)
      BY <2>2
    <3>2. \A l \in (k + 1)..(EventsHeld - 1) : RowAt(eventLog', l) = RowAt(eventLog, l)
      BY <1>0, <2>2
    <3>3. LastTells(eventLog, EventsHeld, pair, k)
      BY <2>2, <3>1, <3>2 DEF LastTells
    <3> QED BY <2>1, <2>2, <3>1, <3>3
  <2>3. CASE /\ EventsHeld' = EventsHeld - 1
             /\ \A j \in 0..(EventsHeld' - 1) : RowAt(eventLog', j) = RowAt(eventLog, j + 1)
    <3>1. k + 1 \in 0..(EventsHeld - 1) /\ RowAt(eventLog', k) = RowAt(eventLog, k + 1)
      BY <1>0, <2>3
    <3>2. ASSUME NEW l \in ((k + 1) + 1)..(EventsHeld - 1)
          PROVE  RowAt(eventLog, l).type \notin Tells(pair)
      <4>1. l - 1 \in (k + 1)..(EventsHeld' - 1) /\ l - 1 \in 0..(EventsHeld' - 1)
            /\ (l - 1) + 1 = l
        BY <1>0, <2>3
      <4>2. RowAt(eventLog', l - 1) = RowAt(eventLog, l)
        BY <2>3, <4>1
      <4> QED BY <4>1, <4>2
    <3>3. LastTells(eventLog, EventsHeld, pair, k + 1)
      BY <3>1, <3>2 DEF LastTells
    <3> QED BY <2>1, <3>1, <3>3
  <2> QED BY <2>2, <2>3
<1> QED BY <1>1, <1>2, <1>3 DEF ExplainInv

LEMMA ExplainSample ==
  ASSUME LogTypes, ExplainInv, NEW s \in Snapshots, Sample(s), EventsHeld' = EventsHeld
  PROVE  ExplainInv'
<1>0. writer.queue = << >> /\ Elements(<< >>) = {}
  BY ElementsOfEvents DEF Sample, LogTypes, Elements
<1>1. CASE ~allocated.events
  <2>1. /\ previous' = previous /\ writer'.queue = writer.queue /\ eventLog' = eventLog
    BY <1>0, <1>1 DEF Sample, RestingWriter
  <2>2. \A k : RowAt(eventLog', k) = RowAt(eventLog, k)
    BY <2>1 DEF RowAt, IndexOf
  <2>3. EventsHeld' \in Nat
    BY EventFacts
  <2> QED BY <2>1, <2>2, <2>3, ExplainFrame
<1>2. CASE allocated.events
  <2>1. /\ previous' = s /\ writer'.queue = SampleEvents(s) /\ eventLog' = eventLog
        /\ s # NoSnapshot
    BY <1>2, SnapshotAssumption DEF Sample
  <2>2. CASE previous = NoSnapshot
    <3>1. EventsHeld = 0
      BY <2>2 DEF ExplainInv
    <3>2. writer'.queue = <<"diagnostic_started">>
      BY <2>1, <2>2 DEF SampleEvents
    <3>3. Elements(writer'.queue) = {"diagnostic_started"}
      <4>1. "diagnostic_started" \in EventTypes
        BY DEF EventTypes
      <4> QED BY <3>2, <4>1, ElementsOfOne, Zenon
    <3>4. \A pair \in Pairs : "diagnostic_started" \notin {pair[1], pair[2]}
      BY DEF Pairs
    <3>5. ASSUME NEW pair \in Pairs PROVE QueueAgrees(pair)' /\ LogAgrees(pair)'
      BY <3>1, <3>3, <3>4 DEF QueueAgrees, LogAgrees
    <3> QED BY <2>1, <3>5 DEF ExplainInv
  <2>3. CASE previous # NoSnapshot
    <3>1. previous \in Snapshots
      BY <2>3 DEF LogTypes
    <3>2. writer'.queue = EventsOf(previous, s)
      BY <2>1, <2>3 DEF SampleEvents
    <3>3. ASSUME NEW pair \in Pairs
          PROVE  QueueAgrees(pair)' /\ LogAgrees(pair)'
      <4>1. /\ s[pair[3]] \in BOOLEAN /\ previous[pair[3]] \in BOOLEAN
            /\ Elements(EventsOf(previous, s)) \intersect {pair[1], pair[2]} =
                  IF previous[pair[3]] = s[pair[3]] THEN {}
                  ELSE IF s[pair[3]] THEN {pair[1]} ELSE {pair[2]}
        BY <3>1, EventsTell
      <4>2. pair[1] # pair[2]
        BY DEF Pairs
      <4>3. QueueAgrees(pair)'
        BY <2>1, <3>2, <4>1, <4>2 DEF QueueAgrees
      <4>4. CASE previous[pair[3]] = s[pair[3]]
        <5>1. LogAgrees(pair)
          BY DEF ExplainInv
        <5>2. \A k \in 0..(EventsHeld - 1) :
                 LastTells(eventLog, EventsHeld, pair, k) =>
                     (RowAt(eventLog, k).type = pair[1]) = previous[pair[3]]
          BY <1>0, <5>1, LogAgreesMeans
        <5>3. \A k : RowAt(eventLog', k) = RowAt(eventLog, k)
          BY <2>1 DEF RowAt, IndexOf
        <5> QED BY <2>1, <4>3, <4>4, <5>2, <5>3 DEF LogAgrees, LastTells, Tells
      <4>5. CASE previous[pair[3]] # s[pair[3]]
        <5>1. Elements(writer'.queue) \intersect {pair[1], pair[2]} # {}
          BY <3>2, <4>1, <4>5
        <5> QED BY <4>3, <5>1 DEF LogAgrees
      <4> QED BY <4>4, <4>5
    <3> QED BY <2>1, <3>3 DEF ExplainInv
  <2> QED BY <2>2, <2>3
<1> QED BY <1>1, <1>2

LEMMA ExplainFill ==
  ASSUME LogTypes, LogTypes', EventInv, ExplainInv, Fill
  PROVE  ExplainInv'
<1>0. /\ EventsHeld \in Nat /\ EventsHeld' = EventsHeld + 1
      /\ RowAt(eventLog', EventsHeld) = EventRow
      /\ \A k \in 0..(EventsHeld - 1) : RowAt(eventLog', k) = RowAt(eventLog, k)
  BY EventFacts, FillEvents
<1>1. /\ writer.queue # << >> /\ writer.queue \in Seq(EventTypes)
      /\ writer'.queue = Tail(writer.queue) /\ previous' = previous
      /\ EventRow.type = Head(writer.queue)
  BY DEF Fill, LogTypes, EventRow
<1>2. Elements(writer.queue) = {EventRow.type} \union Elements(writer'.queue)
  BY <1>1, ElementsOfQueue
<1>3. previous' # NoSnapshot
  BY <1>1 DEF ExplainInv
<1>4. ASSUME NEW pair \in Pairs
      PROVE  QueueAgrees(pair)' /\ LogAgrees(pair)'
  <2>1. QueueAgrees(pair) /\ LogAgrees(pair)
    BY DEF ExplainInv
  <2>2. QueueAgrees(pair)'
    BY <1>1, <1>2, <2>1 DEF QueueAgrees
  <2>3. LogAgrees(pair)'
    <3> SUFFICES ASSUME Elements(writer'.queue) \intersect Tells(pair) = {},
                        NEW k \in 0..EventsHeld,
                        RowAt(eventLog', k).type \in Tells(pair),
                        \A l \in (k + 1)..EventsHeld :
                            RowAt(eventLog', l).type \notin Tells(pair)
                 PROVE  (RowAt(eventLog', k).type = pair[1]) = previous[pair[3]]
      BY <1>0, <1>1 DEF LogAgrees, Tells
    <3>1. CASE k = EventsHeld
      <4>1. RowAt(eventLog', k).type = EventRow.type
        BY <1>0, <3>1
      <4>2. EventRow.type \in Elements(writer.queue) \intersect {pair[1], pair[2]}
        BY <1>2, <4>1 DEF Tells
      <4> QED BY <2>1, <4>1, <4>2 DEF QueueAgrees
    <3>2. CASE k # EventsHeld
      <4>1. k \in 0..(EventsHeld - 1) /\ EventsHeld \in (k + 1)..EventsHeld
        BY <1>0, <3>2
      <4>2. EventRow.type \notin Tells(pair)
        BY <1>0, <4>1
      <4>3. Elements(writer.queue) \intersect Tells(pair) = {}
        BY <1>2, <4>2
      <4>4. \A l \in (k + 1)..(EventsHeld - 1) :
               l \in (k + 1)..EventsHeld /\ RowAt(eventLog', l) = RowAt(eventLog, l)
        BY <1>0, <4>1
      <4>5. LastTells(eventLog, EventsHeld, pair, k)
        BY <1>0, <4>1, <4>4 DEF LastTells
      <4> QED BY <1>0, <2>1, <4>1, <4>3, <4>5, LogAgreesMeans
    <3> QED BY <3>1, <3>2
  <2> QED BY <2>2, <2>3
<1> QED BY <1>3, <1>4 DEF ExplainInv

-----------------------------------------------------------------------------
\* What a download has sent.
LEMMA DownloadFrame ==
  ASSUME LogTypes, DownloadInv, download' = download,
         EventsGone' \in Int, SamplesGone' \in Int,
         EventsGone' >= EventsGone, SamplesGone' >= SamplesGone
  PROVE  DownloadInv'
<1>1. /\ EventsGone \in Int /\ SamplesGone \in Int
      /\ download.last \in Nat /\ download.row \in Nat
  BY EventFacts, SampleFacts DEF LogTypes
<1> QED BY <1>1 DEF DownloadInv

LEMMA FormatsRow ==
  ASSUME LogTypes, EventInv, SampleInv, DownloadInv, FormatRow
  PROVE  /\ download'.of = download.of /\ download'.row = download.row + 1
         /\ download'.at = "loop" /\ download.of \in {"events", "replay"}
         /\ \/ download'.last = download.last
            \/ /\ download.of = "events" => download'.last = EventsGone + download.row + 1
               /\ download.of = "replay" => download'.last = SamplesGone + download.row + 1
<1> DEFINE log == LogOf(download.of)
<1>1. download \in Downloads /\ download.at = "format" /\ download.of \in {"events", "replay"}
  BY DEF FormatRow, LogTypes, Downloads, DownloadInv
<1>2. \/ download' = [download EXCEPT !.row = @ + 1, !.at = "loop"]
      \/ /\ ~(download.row >= RowCount(download.of))
         /\ download' = [download EXCEPT !.row = @ + 1, !.at = "loop", !.comma = FALSE,
                            !.last = IF writer.at = "rest" THEN RowAt(log, download.row).sequence
                                     ELSE download.last]
  BY <1>1 DEF FormatRow
<1>3. CASE download' = [download EXCEPT !.row = @ + 1, !.at = "loop"]
  BY <1>1, <1>3 DEF Downloads
<1>4. CASE /\ ~(download.row >= RowCount(download.of))
           /\ download' = [download EXCEPT !.row = @ + 1, !.at = "loop", !.comma = FALSE,
                            !.last = IF writer.at = "rest" THEN RowAt(log, download.row).sequence
                                     ELSE download.last]
  <2>1. /\ download'.of = download.of /\ download'.row = download.row + 1
        /\ download'.at = "loop"
        /\ download'.last = IF writer.at = "rest" THEN RowAt(log, download.row).sequence
                            ELSE download.last
    BY <1>1, <1>4 DEF Downloads
  <2>2. CASE writer.at # "rest"
    BY <1>1, <2>1, <2>2
  <2>3. CASE writer.at = "rest"
    <3>1. log.count \in 0..Capacity /\ download.row \in Nat /\ Capacity \in Nat
      BY <1>1, EventFacts, SampleFacts DEF LogOf, Downloads
    <3>2. download.row < log.count
      BY <1>1, <1>4, <3>1 DEF RowCount
    <3>3. CASE download.of = "events"
      <4>1. log = eventLog /\ EventsHeld = log.count
        BY <2>3, <3>3 DEF LogOf, EventsHeld
      <4>2. download.row \in 0..(EventsHeld - 1)
        BY <3>1, <3>2, <4>1
      <4>3. RowAt(log, download.row).sequence = EventsGone + download.row + 1
        BY <4>1, <4>2 DEF EventInv, EventRows
      <4> QED BY <1>1, <2>1, <2>3, <3>3, <4>3
    <3>4. CASE download.of = "replay"
      <4>1. log = replayLog
        BY <3>4 DEF LogOf
      <4>2. download.row \in 0..Capacity /\ download.row < replayLog.count
        BY <3>1, <3>2, <4>1
      <4>3. RowAt(log, download.row).sequence = SamplesGone + download.row + 1
        BY <2>3, <4>1, <4>2 DEF SampleInv, SampleRows
      <4> QED BY <1>1, <2>1, <2>3, <3>4, <4>3
    <3> QED BY <1>1, <3>3, <3>4
  <2> QED BY <2>2, <2>3
<1> QED BY <1>2, <1>3, <1>4

-----------------------------------------------------------------------------
LEMMA LogInvInit == LogInit => LogInv
<1> SUFFICES ASSUME LogInit PROVE LogInv
  OBVIOUS
<1>1. LogTypes /\ EventInv /\ SampleInv /\ ExplainInv
  BY LogTypesInit, EventInvInit, SampleInvInit, ExplainInit
<1>2. DownloadInv
  BY DEF LogInit, NoDownload, DownloadInv
<1> QED BY <1>1, <1>2 DEF LogInv

LEMMA LogInvStep == LogInv /\ [LogNext]_logVars => LogInv'
<1> SUFFICES ASSUME LogInv, [LogNext]_logVars PROVE LogInv'
  OBVIOUS
<1>0. LogTypes /\ LogTypes' /\ EventInv /\ SampleInv /\ ExplainInv /\ DownloadInv
  BY LogTypesStep DEF LogInv
<1>a. /\ EventsGone \in Int /\ SamplesGone \in Int /\ EventsGone' \in Int /\ SamplesGone' \in Int
      /\ EventsHeld \in Nat /\ EventsHeld' \in Nat /\ clock \in Nat
  <2>1. EventsGone \in Int /\ SamplesGone \in Int /\ EventsHeld \in Nat /\ clock \in Nat
    BY <1>0, EventFacts, SampleFacts
  <2>2. /\ Len(history') \in Nat /\ eventLog'.count \in Int
        /\ replayLog'.count \in Int /\ replayLog'.next \in Int
        /\ eventLog'.count \in Nat
        /\ writer'.at \in {"uncount", "fill"} => eventLog'.count > 0
    BY <1>0, LogAssumption DEF LogTypes, Logs
  <2>3. EventsHeld' \in Nat
    BY <2>2 DEF EventsHeld
  <2>4. EventsGone' \in Int
    BY <2>2, <2>3 DEF EventsGone
  <2>5. SamplesGone' \in Int
    BY <2>2 DEF SamplesGone
  <2> QED BY <2>1, <2>3, <2>4, <2>5
\* Steps that touch no ring and tell nothing new.
<1>b. ASSUME eventLog' = eventLog, history' = history, clock' >= clock,
             writer'.at = "uncount" <=> writer.at = "uncount",
             writer'.at = "fill" <=> writer.at = "fill"
      PROVE  /\ EventInv' /\ EventsGone' >= EventsGone /\ EventsHeld' = EventsHeld
             /\ (previous' = previous /\ writer'.queue = writer.queue => ExplainInv')
  <2>1. EventInv' /\ EventsGone' = EventsGone /\ EventsHeld' = EventsHeld
    BY <1>0, <1>b, EventFrame
  <2>2. \A k : RowAt(eventLog', k) = RowAt(eventLog, k)
    BY <1>b DEF RowAt, IndexOf
  <2>3. ASSUME previous' = previous, writer'.queue = writer.queue
        PROVE  ExplainInv'
    BY <1>0, <1>a, <2>1, <2>2, <2>3, ExplainFrame
  <2> QED BY <1>a, <2>1, <2>3
<1>c. ASSUME replayLog' = replayLog, writer'.at = "count" <=> writer.at = "count"
      PROVE  SampleInv' /\ SamplesGone' >= SamplesGone
  BY <1>0, <1>a, <1>c, SampleFrame
<1>d. ASSUME download' = download, EventsGone' >= EventsGone, SamplesGone' >= SamplesGone
      PROVE  DownloadInv'
  BY <1>0, <1>a, <1>d, DownloadFrame
<1>1. ASSUME NEW s \in Snapshots, Sample(s) PROVE LogInv'
  <2>1. /\ eventLog' = eventLog /\ history' = history /\ clock' >= clock
        /\ replayLog' = replayLog /\ download' = download
        /\ writer.at = "rest"
    BY <1>a, <1>1 DEF Sample
  <2>a. writer'.at \in {"trim", "replay"}
    <3>1. CASE allocated.events
      BY <1>1, <3>1 DEF Sample
    <3>2. CASE ~allocated.events
      <4>1. writer' = [RestingWriter EXCEPT !.at = "replay", !.ms = clock]
        BY <1>1, <3>2 DEF Sample
      <4> QED BY <4>1 DEF RestingWriter
    <3> QED BY <3>1, <3>2
  <2>2. EventInv' /\ EventsGone' >= EventsGone /\ EventsHeld' = EventsHeld
    BY <1>b, <2>1, <2>a
  <2>3. SampleInv' /\ SamplesGone' >= SamplesGone
    BY <1>c, <2>1, <2>a
  <2>4. DownloadInv'
    BY <1>d, <2>1, <2>2, <2>3
  <2>5. ExplainInv'
    BY <1>0, <1>1, <2>2, ExplainSample
  <2> QED BY <1>0, <2>2, <2>3, <2>4, <2>5 DEF LogInv
<1>2. ASSUME Trim PROVE LogInv'
  <2>1. /\ replayLog' = replayLog /\ download' = download /\ previous' = previous
        /\ writer.at = "trim" /\ writer'.at \in {"uncount", "append"}
    BY <1>0, <1>2 DEF Trim, LogTypes
  <2>2. /\ EventInv' /\ EventsGone' >= EventsGone /\ writer'.queue = writer.queue
        /\ \/ EventsHeld' = EventsHeld /\ eventLog' = eventLog
           \/ /\ EventsHeld' = EventsHeld - 1
              /\ \A k \in 0..(EventsHeld' - 1) : RowAt(eventLog', k) = RowAt(eventLog, k + 1)
    BY <1>0, <1>2, TrimEvents
  <2>3. SampleInv' /\ SamplesGone' >= SamplesGone
    BY <1>c, <2>1
  <2>4. DownloadInv'
    BY <1>d, <2>1, <2>2, <2>3
  <2>5. \/ EventsHeld' = EventsHeld /\ \A k \in 0..(EventsHeld - 1) :
                                          RowAt(eventLog', k) = RowAt(eventLog, k)
        \/ /\ EventsHeld' = EventsHeld - 1
           /\ \A k \in 0..(EventsHeld' - 1) : RowAt(eventLog', k) = RowAt(eventLog, k + 1)
    BY <2>2 DEF RowAt, IndexOf
  <2>6. ExplainInv'
    BY <1>0, <1>a, <2>1, <2>2, <2>5, ExplainFrame
  <2> QED BY <1>0, <2>2, <2>3, <2>4, <2>6 DEF LogInv
<1>3. ASSUME Uncount PROVE LogInv'
  <2>1. /\ replayLog' = replayLog /\ download' = download /\ previous' = previous
        /\ writer.at = "uncount" /\ writer'.at = "trim" /\ writer'.queue = writer.queue
    BY <1>0, <1>3 DEF Uncount, LogTypes
  <2>2. /\ EventInv' /\ EventsGone' = EventsGone /\ EventsHeld' = EventsHeld
        /\ \A k : RowAt(eventLog', k) = RowAt(eventLog, k)
    BY <1>0, <1>3, UncountEvents
  <2>3. SampleInv' /\ SamplesGone' >= SamplesGone
    BY <1>c, <2>1
  <2>4. DownloadInv'
    BY <1>a, <1>d, <2>1, <2>2, <2>3
  <2>5. ExplainInv'
    BY <1>0, <1>a, <2>1, <2>2, ExplainFrame
  <2> QED BY <1>0, <2>2, <2>3, <2>4, <2>5 DEF LogInv
<1>4. ASSUME Claim PROVE LogInv'
  <2>1. /\ replayLog' = replayLog /\ download' = download /\ previous' = previous
        /\ writer.at = "append" /\ writer'.at = "fill"
    BY <1>0, <1>4 DEF Claim, LogTypes
  <2>2. /\ EventInv' /\ EventsGone' >= EventsGone /\ writer'.queue = writer.queue
        /\ \/ EventsHeld' = EventsHeld /\ \A k : RowAt(eventLog', k) = RowAt(eventLog, k)
           \/ /\ EventsHeld' = EventsHeld - 1
              /\ \A k \in 0..(EventsHeld' - 1) : RowAt(eventLog', k) = RowAt(eventLog, k + 1)
    BY <1>0, <1>4, ClaimEvents
  <2>3. SampleInv' /\ SamplesGone' >= SamplesGone
    BY <1>c, <2>1
  <2>4. DownloadInv'
    BY <1>d, <2>1, <2>2, <2>3
  <2>5. ExplainInv'
    BY <1>0, <1>a, <2>1, <2>2, ExplainFrame
  <2> QED BY <1>0, <2>2, <2>3, <2>4, <2>5 DEF LogInv
<1>5. ASSUME Fill PROVE LogInv'
  <2>1. /\ replayLog' = replayLog /\ download' = download
        /\ writer.at = "fill" /\ writer'.at = "append"
    BY <1>0, <1>5 DEF Fill, LogTypes
  <2>2. EventInv' /\ EventsGone' = EventsGone
    BY <1>0, <1>5, FillEvents
  <2>3. SampleInv' /\ SamplesGone' >= SamplesGone
    BY <1>c, <2>1
  <2>4. DownloadInv'
    BY <1>a, <1>d, <2>1, <2>2, <2>3
  <2>5. ExplainInv'
    BY <1>0, <1>5, ExplainFill
  <2> QED BY <1>0, <2>2, <2>3, <2>4, <2>5 DEF LogInv
<1>6. ASSUME EndEvents \/ NoReplay \/ TimeGoesOn PROVE LogInv'
  <2>1. /\ eventLog' = eventLog /\ history' = history /\ clock' >= clock
        /\ replayLog' = replayLog /\ download' = download /\ previous' = previous
    BY <1>a, <1>6 DEF EndEvents, NoReplay, TimeGoesOn
  <2>2. /\ writer'.at = "uncount" <=> writer.at = "uncount"
        /\ writer'.at = "fill" <=> writer.at = "fill"
        /\ writer'.at = "count" <=> writer.at = "count"
        /\ writer'.queue = writer.queue
    <3>1. CASE EndEvents
      BY <1>0, <3>1 DEF EndEvents, LogTypes
    <3>2. CASE NoReplay
      BY <1>0, <3>2 DEF NoReplay, RestingWriter, LogTypes
    <3>3. CASE TimeGoesOn
      BY <3>3 DEF TimeGoesOn
    <3> QED BY <1>6, <3>1, <3>2, <3>3
  <2>3. EventInv' /\ EventsGone' >= EventsGone /\ ExplainInv'
    BY <1>b, <2>1, <2>2
  <2>4. SampleInv' /\ SamplesGone' >= SamplesGone
    BY <1>c, <2>1, <2>2
  <2>5. DownloadInv'
    BY <1>d, <2>1, <2>3, <2>4
  <2> QED BY <1>0, <2>3, <2>4, <2>5 DEF LogInv
<1>7. ASSUME FillSample \/ CountSample PROVE LogInv'
  <2>1. /\ eventLog' = eventLog /\ history' = history /\ clock' >= clock
        /\ download' = download /\ previous' = previous
    BY <1>a, <1>7 DEF FillSample, CountSample
  <2>2. /\ writer'.at = "uncount" <=> writer.at = "uncount"
        /\ writer'.at = "fill" <=> writer.at = "fill"
        /\ writer'.queue = writer.queue
        /\ SampleInv' /\ SamplesGone' >= SamplesGone
    <3>1. CASE FillSample
      <4>1. SampleInv' /\ SamplesGone' >= SamplesGone
        BY <1>0, <1>a, <3>1, FillSamples
      <4> QED BY <1>0, <3>1, <4>1 DEF FillSample, LogTypes
    <3>2. CASE CountSample
      <4>1. SampleInv' /\ SamplesGone' >= SamplesGone
        BY <1>0, <3>2, CountSamples
      <4> QED BY <1>0, <3>2, <4>1 DEF CountSample, RestingWriter, LogTypes
    <3> QED BY <1>7, <3>1, <3>2
  <2>3. EventInv' /\ EventsGone' >= EventsGone /\ ExplainInv'
    BY <1>b, <2>1, <2>2
  <2>4. DownloadInv'
    BY <1>d, <2>1, <2>2, <2>3
  <2> QED BY <1>0, <2>2, <2>3, <2>4 DEF LogInv
\* The HTTP task changes nothing but its download.
<1>e. ASSUME UNCHANGED <<clock, allocated, previous, writer, eventLog, replayLog, history>>
      PROVE  EventInv' /\ SampleInv' /\ ExplainInv' /\ EventsGone' = EventsGone
             /\ SamplesGone' = SamplesGone
  <2>1. EventInv' /\ ExplainInv'
    BY <1>a, <1>b, <1>e
  <2>2. SampleInv'
    BY <1>c, <1>e
  <2> QED BY <1>e, <2>1, <2>2 DEF EventsGone, EventsHeld, SamplesGone
<1>8. ASSUME NEW name \in {"events", "replay"}, StartDownload(name) PROVE LogInv'
  <2>1. /\ EventInv' /\ SampleInv' /\ ExplainInv'
        /\ EventsGone' = EventsGone /\ SamplesGone' = SamplesGone
    BY <1>8, <1>e DEF StartDownload
  <2>2. download'.last = 0 /\ download'.row = 0 /\ download'.at = "loop"
    BY <1>8 DEF StartDownload, NoDownload
  <2>3. EventsGone >= 0 /\ SamplesGone >= 0
    BY <1>0 DEF EventInv, SampleInv
  <2>4. DownloadInv'
    BY <1>a, <2>1, <2>2, <2>3 DEF DownloadInv
  <2> QED BY <1>0, <2>1, <2>4 DEF LogInv
<1>9. ASSUME NextRow PROVE LogInv'
  <2>1. /\ EventInv' /\ SampleInv' /\ ExplainInv'
        /\ EventsGone' = EventsGone /\ SamplesGone' = SamplesGone
    BY <1>9, <1>e DEF NextRow
  <2>2. /\ download'.last = download.last /\ download'.row = download.row
        /\ download'.of = download.of /\ download.of # "none"
    BY <1>0, <1>9 DEF NextRow, LogTypes
  <2>3. DownloadInv'
    BY <1>0, <2>1, <2>2 DEF DownloadInv
  <2> QED BY <1>0, <2>1, <2>3 DEF LogInv
<1>10. ASSUME FormatRow PROVE LogInv'
  <2>1. /\ EventInv' /\ SampleInv' /\ ExplainInv'
        /\ EventsGone' = EventsGone /\ SamplesGone' = SamplesGone
    BY <1>10, <1>e DEF FormatRow
  <2>2. /\ download'.of = download.of /\ download'.row = download.row + 1
        /\ download'.at = "loop"
        /\ \/ download'.last = download.last
           \/ /\ download.of = "events" => download'.last = EventsGone + download.row + 1
              /\ download.of = "replay" => download'.last = SamplesGone + download.row + 1
    BY <1>0, <1>10, FormatsRow
  <2>3. download.last \in Nat /\ download.row \in Nat
    BY <1>0 DEF LogTypes
  <2>4. DownloadInv'
    BY <1>0, <1>a, <2>1, <2>2, <2>3 DEF DownloadInv
  <2> QED BY <1>0, <2>1, <2>4 DEF LogInv
<1>11. ASSUME EndDownload PROVE LogInv'
  <2>1. EventInv' /\ SampleInv' /\ ExplainInv'
    BY <1>11, <1>e DEF EndDownload
  <2>2. DownloadInv'
    BY <1>11 DEF EndDownload, NoDownload, DownloadInv
  <2> QED BY <1>0, <2>1, <2>2 DEF LogInv
<1>12. ASSUME UNCHANGED logVars PROVE LogInv'
  <2>1. /\ EventInv' /\ SampleInv' /\ ExplainInv' /\ download' = download
        /\ EventsGone' = EventsGone /\ SamplesGone' = SamplesGone
    BY <1>12, <1>e DEF logVars
  <2>2. DownloadInv'
    BY <1>a, <1>d, <2>1
  <2> QED BY <1>0, <2>1, <2>2 DEF LogInv
<1> QED BY <1>1, <1>2, <1>3, <1>4, <1>5, <1>6, <1>7, <1>8, <1>9, <1>10, <1>11, <1>12
        DEF LogNext, WriterRuns

\* The invariant from which the three properties of the logs follow: every state of
\* the two rings, the pending events and the download is one it describes, also in
\* the middle of an update.
THEOREM LogInvariant == LogSpec => []LogInv
BY LogInvInit, LogInvStep, PTL DEF LogSpec

-----------------------------------------------------------------------------
LEMMA HeldEvents ==
  ASSUME LogTypes, EventInv, writer.at = "rest"
  PROVE  /\ Consecutive(eventLog)
         /\ HeldRows(eventLog) \subseteq {q \in DOMAIN history : q + Capacity > Len(history)}
         /\ \A q \in DOMAIN history \ HeldRows(eventLog) :
               q + Capacity <= Len(history) \/ clock - history[q] > Retention
         /\ eventLog.truncated <=> DOMAIN history \ HeldRows(eventLog) # {}
<1> DEFINE gone == EventsGone
           held == eventLog.count
           all == Len(history)
<1>1. /\ all \in Nat /\ held \in 0..Capacity /\ Capacity \in Nat /\ DOMAIN history = 1..all
      /\ gone = all - held /\ EventsHeld = held
  <2>1. history \in Seq(Nat) /\ eventLog.count \in 0..Capacity
    BY DEF LogTypes, Logs
  <2>2. EventsHeld = held
    BY DEF EventsHeld
  <2> QED BY <2>1, <2>2, LogAssumption DEF EventsGone
<1>2. gone >= 0 /\ gone \in Nat /\ gone + held = all
  BY <1>1 DEF EventInv
<1>3. \A k \in 0..(held - 1) : RowAt(eventLog, k).sequence = gone + k + 1
  BY <1>1 DEF EventInv, EventRows
<1>4. \A q \in 1..gone : q + Capacity <= all \/ clock - history[q] > Retention
  BY DEF EventInv, EventsDropped
<1>5. eventLog.truncated <=> gone > 0
  BY DEF EventInv
<1> HIDE DEF gone, held, all
<1>6. HeldRows(eventLog) = (gone + 1)..all
  <2>1. HeldRows(eventLog) = {RowAt(eventLog, k).sequence : k \in 0..(held - 1)}
    BY DEF HeldRows, held
  <2>2. ASSUME NEW q \in (gone + 1)..all PROVE q \in HeldRows(eventLog)
    <3>1. q - gone - 1 \in 0..(held - 1)
      BY <1>1, <1>2
    <3>2. RowAt(eventLog, q - gone - 1).sequence = q
      BY <1>1, <1>2, <1>3, <3>1
    <3> QED BY <2>1, <3>1, <3>2
  <2>3. ASSUME NEW k \in 0..(held - 1) PROVE RowAt(eventLog, k).sequence \in (gone + 1)..all
    BY <1>1, <1>2, <1>3
  <2> QED BY <2>1, <2>2, <2>3
<1>7. DOMAIN history \ HeldRows(eventLog) = 1..gone
  BY <1>1, <1>2, <1>6
<1>8. Consecutive(eventLog)
  <2> SUFFICES ASSUME NEW k \in 1..(held - 1)
               PROVE  RowAt(eventLog, k).sequence = RowAt(eventLog, k - 1).sequence + 1
    BY DEF Consecutive, held
  <2>1. k \in 0..(held - 1) /\ k - 1 \in 0..(held - 1)
    BY <1>1
  <2>2. RowAt(eventLog, k).sequence = gone + k + 1
        /\ RowAt(eventLog, k - 1).sequence = gone + (k - 1) + 1
    BY <1>3, <2>1
  <2> QED BY <1>2, <2>2
<1>9. HeldRows(eventLog) \subseteq {q \in DOMAIN history : q + Capacity > Len(history)}
  <2>1. ASSUME NEW q \in (gone + 1)..all PROVE q \in DOMAIN history /\ q + Capacity > all
    BY <1>1, <1>2
  <2> QED BY <1>6, <2>1 DEF all
<1>10. \A q \in DOMAIN history \ HeldRows(eventLog) :
          q + Capacity <= Len(history) \/ clock - history[q] > Retention
  BY <1>4, <1>7 DEF all
<1>11. eventLog.truncated <=> DOMAIN history \ HeldRows(eventLog) # {}
  <2>1. gone > 0 <=> 1..gone # {}
    <3>1. gone > 0 => 1 \in 1..gone
      BY <1>2
    <3>2. \A q \in 1..gone : gone > 0
      BY <1>2
    <3> QED BY <3>1, <3>2
  <2> QED BY <1>5, <1>7, <2>1
<1> QED BY <1>8, <1>9, <1>10, <1>11

LEMMA HeldSamples ==
  ASSUME LogTypes, SampleInv, writer.at = "rest"
  PROVE  /\ Consecutive(replayLog)
         /\ HeldRows(replayLog) = {q \in 1..(replayLog.next - 1) : q + Capacity >= replayLog.next}
<1> DEFINE gone == SamplesGone
           held == replayLog.count
           all == replayLog.next - 1
<1>1. /\ all \in Nat /\ held \in 0..Capacity /\ Capacity \in Nat /\ gone = all - held
  <2>1. replayLog.next \in Nat \ {0} /\ replayLog.count \in 0..Capacity
    BY DEF LogTypes, Logs
  <2> QED BY <2>1, LogAssumption DEF SamplesGone
<1>2. gone >= 0 /\ gone \in Nat /\ gone + held = all /\ (held < Capacity => gone = 0)
  BY <1>1 DEF SampleInv
<1>3. \A k \in 0..(held - 1) : RowAt(replayLog, k).sequence = gone + k + 1
  <2>1. \A k \in 0..(held - 1) : k \in 0..Capacity /\ k < held
    BY <1>1
  <2> QED BY <2>1 DEF SampleInv, SampleRows
<1>a. replayLog.next = all + 1
  <2>1. replayLog.next \in Nat
    BY DEF LogTypes, Logs
  <2> QED BY <2>1
<1> HIDE DEF gone, held, all
<1>4. HeldRows(replayLog) = (gone + 1)..all
  <2>1. HeldRows(replayLog) = {RowAt(replayLog, k).sequence : k \in 0..(held - 1)}
    BY DEF HeldRows, held
  <2>2. ASSUME NEW q \in (gone + 1)..all PROVE q \in HeldRows(replayLog)
    <3>1. q - gone - 1 \in 0..(held - 1)
      BY <1>1, <1>2
    <3>2. RowAt(replayLog, q - gone - 1).sequence = q
      BY <1>1, <1>2, <1>3, <3>1
    <3> QED BY <2>1, <3>1, <3>2
  <2>3. ASSUME NEW k \in 0..(held - 1) PROVE RowAt(replayLog, k).sequence \in (gone + 1)..all
    BY <1>1, <1>2, <1>3
  <2> QED BY <2>1, <2>2, <2>3
<1>5. \A q \in 1..all : q + Capacity >= all + 1 <=> q \in (gone + 1)..all
  <2>1. held < Capacity \/ held = Capacity
    BY <1>1
  <2> QED BY <1>1, <1>2, <2>1
<1>6. {q \in 1..(replayLog.next - 1) : q + Capacity >= replayLog.next} = (gone + 1)..all
  <2>1. replayLog.next - 1 = all
    BY DEF all
  <2>2. (gone + 1)..all \subseteq 1..all
    BY <1>1, <1>2
  <2> QED BY <1>a, <1>5, <2>1, <2>2
<1>7. Consecutive(replayLog)
  <2> SUFFICES ASSUME NEW k \in 1..(held - 1)
               PROVE  RowAt(replayLog, k).sequence = RowAt(replayLog, k - 1).sequence + 1
    BY DEF Consecutive, held
  <2>1. k \in 0..(held - 1) /\ k - 1 \in 0..(held - 1)
    BY <1>1
  <2>2. RowAt(replayLog, k).sequence = gone + k + 1
        /\ RowAt(replayLog, k - 1).sequence = gone + (k - 1) + 1
    BY <1>3, <2>1
  <2> QED BY <1>2, <2>2
<1> QED BY <1>4, <1>6, <1>7

\* Between two updates of the main loop, each log holds exactly the newest entries
\* that fit, in order, whatever the size of the rings, the retention and the
\* instants at which the writer and the downloads were interrupted.
THEOREM NewestAreHeld == LogSpec => []LogsHoldTheNewest
<1>1. LogInv => LogsHoldTheNewest
  BY HeldEvents, HeldSamples DEF LogInv, LogsHoldTheNewest
<1> QED BY <1>1, LogInvariant, PTL

\* The last event of a pair that the log holds agrees with the last sample,
\* also when the events before it have been dropped.
THEOREM EventsExplainState == LogSpec => []LogExplainsState
<1>1. LogInv => LogExplainsState
  <2> SUFFICES ASSUME LogTypes, ExplainInv, writer.at = "rest",
                      NEW pair \in Pairs, NEW k \in 0..(eventLog.count - 1),
                      RowAt(eventLog, k).type \in {pair[1], pair[2]},
                      {RowAt(eventLog, l).type : l \in (k + 1)..(eventLog.count - 1)}
                          \intersect {pair[1], pair[2]} = {}
               PROVE  (RowAt(eventLog, k).type = pair[1]) = previous[pair[3]]
    BY DEF LogInv, LogExplainsState
  <2>1. EventsHeld = eventLog.count
    BY DEF EventsHeld
  <2>2. Elements(writer.queue) = {}
    <3>1. writer.queue = << >>
      BY DEF LogTypes
    <3> QED BY <3>1 DEF Elements
  <2>3. LastTells(eventLog, EventsHeld, pair, k)
    BY <2>1 DEF LastTells, Tells
  <2>4. \A j \in 0..(EventsHeld - 1) :
           LastTells(eventLog, EventsHeld, pair, j) =>
               (RowAt(eventLog, j).type = pair[1]) = previous[pair[3]]
    BY <2>2, LogAgreesMeans DEF ExplainInv
  <2> QED BY <2>1, <2>3, <2>4
<1> QED BY <1>1, LogInvariant, PTL

\* However the writer overtakes a download, the whole rows it sends have growing
\* sequence numbers: it skips rows and never goes back.
THEOREM DownloadsGoForward == LogSpec => DownloadGoesForward
<1> DEFINE Forward == download'.of = download.of /\ download'.row > download.row
                      /\ download'.last # download.last => download'.last > download.last
<1>1. LogInv /\ [LogNext]_logVars => [Forward]_logVars
  <2> SUFFICES ASSUME LogInv, LogNext, download'.of = download.of,
                      download'.row > download.row, download'.last # download.last
               PROVE  download'.last > download.last
    OBVIOUS
  <2>1. /\ LogTypes /\ EventInv /\ SampleInv /\ DownloadInv
        /\ download.row \in Nat /\ download.last \in Nat
        /\ EventsGone \in Int /\ SamplesGone \in Int
    BY EventFacts, SampleFacts DEF LogInv, LogTypes
  <2>2. download' # download
    OBVIOUS
  <2>3. CASE FormatRow
    <3>1. /\ download.of = "events" => download'.last = EventsGone + download.row + 1
          /\ download.of = "replay" => download'.last = SamplesGone + download.row + 1
      BY <2>1, <2>3, FormatsRow
    <3>2. download.of \in {"events", "replay"}
      BY <2>1, <2>3 DEF FormatRow, DownloadInv, LogTypes
    <3> QED BY <2>1, <3>1, <3>2 DEF DownloadInv
  <2>4. CASE NextRow
    <3>1. download'.row = download.row
      BY <2>1, <2>4 DEF NextRow, LogTypes
    <3> QED BY <2>1, <3>1
  <2>5. CASE \E name \in {"events", "replay"} : StartDownload(name)
    <3>1. PICK name \in {"events", "replay"} : StartDownload(name)
      BY <2>5
    <3>2. download.of = "none" /\ download'.of = name
      BY <3>1 DEF StartDownload, NoDownload
    <3> QED BY <3>2
  <2>6. CASE EndDownload
    <3>1. download.of # "none" /\ download'.of = "none"
      BY <2>6 DEF EndDownload, NoDownload
    <3> QED BY <3>1
  <2>7. CASE (\E s \in Snapshots : Sample(s)) \/ WriterRuns \/ TimeGoesOn
    <3>1. download' = download
      BY <2>7 DEF Sample, WriterRuns, Trim, Uncount, Claim, Fill, EndEvents, FillSample,
                  CountSample, NoReplay, TimeGoesOn
    <3> QED BY <2>2, <3>1
  <2> QED BY <2>3, <2>4, <2>5, <2>6, <2>7 DEF LogNext
<1> QED BY <1>1, LogInvariant, PTL DEF LogSpec, DownloadGoesForward

-----------------------------------------------------------------------------
(* The replay line: whatever is measured, both readers get it.                *)

\* What a field or a part may be told to be.
Measured == Int \union {NaN}
SixteenBits == {v \in Int : -32768 <= v /\ v <= 32767}
SampleFields == Flags \union Counts \union Distances \union Reasons

ToldOK(t) ==
    /\ \A i \in TargetIndex :
          /\ \A p \in Measurements : t.raw[i][p] \in Measured /\ t.targets[i][p] \in Measured
          /\ t.raw[i]["filterMode"] \in SixteenBits
    /\ DOMAIN t.fields = SampleFields
    /\ \A f \in Distances : t.fields[f] \in Measured
    /\ \A f \in Reasons : t.fields[f] \in Reported[f]

LEMMA ClampedIsNearest ==
    ASSUME NEW v \in Measured, NEW r, NEW lo \in Int, NEW hi \in Int, lo <= 0, 0 < hi,
           v = NaN => r = 0,
           v # NaN /\ v > hi => r = hi,
           v # NaN /\ ~ (v > hi) /\ v <= lo => r = lo,
           v # NaN /\ ~ (v > hi) /\ ~ (v <= lo) => r = v
    PROVE  Nearest(r, v, lo, hi)
<1>1. CASE v = NaN
  BY <1>1 DEF Nearest
<1>2. CASE v # NaN
  <2>1. v \in Int
    BY <1>2 DEF Measured
  <2>2. v \in lo..hi <=> lo <= v /\ v <= hi
    BY <2>1
  <2>3. CASE v > hi
    BY <1>2, <2>1, <2>2, <2>3 DEF Nearest
  <2>4. CASE ~ (v > hi) /\ v <= lo
    BY <1>2, <2>1, <2>2, <2>4 DEF Nearest
  <2>5. CASE ~ (v > hi) /\ ~ (v <= lo)
    BY <1>2, <2>1, <2>2, <2>5 DEF Nearest
  <2> QED
    BY <2>3, <2>4, <2>5
<1> QED
  BY <1>1, <1>2

LEMMA ClampsAreNearest ==
    ASSUME NEW v \in Measured
    PROVE  /\ Nearest(ClampI16(v), v, -32768, 32767)
           /\ Nearest(ClampU16(v), v, 0, 65535)
           /\ v \in SixteenBits => ClampI16(v) = v
<1>1. CASE v = NaN
  <2>1. ClampI16(v) = 0 /\ ClampU16(v) = 0
    BY <1>1 DEF ClampI16, ClampU16
  <2>2. ~ (v \in SixteenBits)
    BY <1>1, NumbersAssumption DEF SixteenBits
  <2> QED
    BY <1>1, <2>1, <2>2 DEF Nearest
<1>2. CASE v # NaN
  <2>1. v \in Int
    BY <1>2 DEF Measured
  <2>2. ClampI16(v) = IF v > 32767 THEN 32767 ELSE IF v < -32768 THEN -32768 ELSE v
    BY <1>2 DEF ClampI16
  <2>3. ClampU16(v) = IF v <= 0 THEN 0 ELSE IF v > 65535 THEN 65535 ELSE v
    BY <1>2 DEF ClampU16
  <2>4. /\ v > 32767 => ClampI16(v) = 32767
        /\ ~ (v > 32767) /\ v <= -32768 => ClampI16(v) = -32768
        /\ ~ (v > 32767) /\ ~ (v <= -32768) => ClampI16(v) = v
    BY <2>1, <2>2
  <2>5. /\ v > 65535 => ClampU16(v) = 65535
        /\ ~ (v > 65535) /\ v <= 0 => ClampU16(v) = 0
        /\ ~ (v > 65535) /\ ~ (v <= 0) => ClampU16(v) = v
    BY <2>1, <2>3
  <2>6. Nearest(ClampI16(v), v, -32768, 32767)
    BY <1>2, <2>4, ClampedIsNearest
  <2>7. Nearest(ClampU16(v), v, 0, 65535)
    BY <1>2, <2>5, ClampedIsNearest
  <2>8. v \in SixteenBits => ClampI16(v) = v
    BY <2>1, <2>2 DEF SixteenBits
  <2> QED
    BY <2>6, <2>7, <2>8
<1> QED
  BY <1>1, <1>2

LEMMA RawIsRead ==
    ASSUME NEW t, ToldOK(t), NEW i \in TargetIndex, NEW p \in RawParts
    PROVE  PartIsRead(ReadRaw(LineOf(SampleOf(t)).r[i])[p], p, t.raw[i][p])
<1> DEFINE s == SampleOf(t)
           stored == s.raw[i]
           v == LineOf(s).r[i]
<1>1. \A q \in RawParts : stored[q] = StoredPart(q, t.raw[i][q])
  BY DEF SampleOf
<1>2. v = Picked(stored, <<"valid", "x", "y", "speed", "distance", "filterMode", "filtered",
                     "rangeValid">>)
  BY DEF LineOf
<1> HIDE DEF stored, v
<1>3. /\ v[1] = stored["valid"] /\ v[2] = stored["x"] /\ v[3] = stored["y"]
      /\ v[4] = stored["speed"] /\ v[5] = stored["distance"] /\ v[6] = stored["filterMode"]
      /\ v[7] = stored["filtered"] /\ v[8] = stored["rangeValid"]
  BY <1>2 DEF Picked
<1>4. ReadRaw(v)[p] = stored[p]
  BY <1>3 DEF ReadRaw, RawParts, Measurements
<1>5. PartIsRead(StoredPart(p, t.raw[i][p]), p, t.raw[i][p])
  <2>1. CASE p \in {"x", "y", "speed"}
    <3>1. t.raw[i][p] \in Measured
      BY <2>1 DEF ToldOK, Measurements
    <3> QED
      BY <2>1, <3>1, ClampsAreNearest DEF StoredPart, PartIsRead
  <2>2. CASE p = "distance"
    <3>1. t.raw[i][p] \in Measured
      BY <2>2 DEF ToldOK, Measurements
    <3> QED
      BY <2>2, <3>1, ClampsAreNearest DEF StoredPart, PartIsRead
  <2>3. CASE p = "filterMode"
    <3>1. t.raw[i][p] \in SixteenBits
      BY <2>3 DEF ToldOK
    <3>2. t.raw[i][p] \in Measured
      BY <3>1 DEF SixteenBits, Measured
    <3>3. ClampI16(t.raw[i][p]) = t.raw[i][p]
      BY <3>1, <3>2, ClampsAreNearest
    <3> QED
      BY <2>3, <3>3 DEF StoredPart, PartIsRead
  <2>4. CASE p \in {"valid", "filtered", "rangeValid"}
    BY <2>4 DEF StoredPart, PartIsRead
  <2> QED
    BY <2>1, <2>2, <2>3, <2>4 DEF RawParts, Measurements
<1> QED
  BY <1>1, <1>4, <1>5 DEF v, s

LEMMA TargetIsRead ==
    ASSUME NEW t, ToldOK(t), NEW i \in TargetIndex,
           NEW p \in DOMAIN ReadTarget(LineOf(SampleOf(t)).tg[i])
    PROVE  PartIsRead(ReadTarget(LineOf(SampleOf(t)).tg[i])[p], p, t.targets[i][p])
<1> DEFINE s == SampleOf(t)
           stored == s.targets[i]
           v == LineOf(s).tg[i]
<1>1. \A q \in Measurements \union {"valid"} : stored[q] = StoredPart(q, t.targets[i][q])
  BY DEF SampleOf
<1>2. v = Picked(stored, <<"valid", "x", "y", "speed", "distance">>)
  BY DEF LineOf
<1> HIDE DEF stored, v
<1>3. /\ v[1] = stored["valid"] /\ v[2] = stored["x"] /\ v[3] = stored["y"]
      /\ v[4] = stored["speed"] /\ v[5] = stored["distance"]
  BY <1>2 DEF Picked
<1>0. p \in {"valid", "x", "y", "speed", "distance"}
  BY DEF ReadTarget
<1>4. ReadTarget(v)[p] = stored[p]
  BY <1>0, <1>3 DEF ReadTarget
<1>5. PartIsRead(StoredPart(p, t.targets[i][p]), p, t.targets[i][p])
  <2>1. CASE p \in {"x", "y", "speed"}
    <3>1. t.targets[i][p] \in Measured
      BY <2>1 DEF ToldOK, Measurements
    <3> QED
      BY <2>1, <3>1, ClampsAreNearest DEF StoredPart, PartIsRead
  <2>2. CASE p = "distance"
    <3>1. t.targets[i][p] \in Measured
      BY <2>2 DEF ToldOK, Measurements
    <3> QED
      BY <2>2, <3>1, ClampsAreNearest DEF StoredPart, PartIsRead
  <2>3. CASE p = "valid"
    BY <2>3 DEF StoredPart, PartIsRead
  <2> QED
    BY <1>0, <2>1, <2>2, <2>3
<1> QED
  BY <1>0, <1>1, <1>4, <1>5 DEF v, s, Measurements

\* The two tables agree, and hold at most 17 reasons.
LEMMA TablesAgree ==
    ASSUME NEW f \in Reasons
    PROVE  /\ Names[f] = Codes[f]
           /\ DOMAIN Codes[f] \subseteq {k \in Int : 1 <= k /\ k <= 17}
<1>1. CASE f = "presenceReason"
  BY <1>1 DEF Names, Codes, PresenceCodes, PRESENCE_REASON, MOTION_REASON, STILL_STATE,
               STILL_REASON, RANGE_REASON, TRACKER_STATE, TRACKER_REASON
<1>2. CASE f = "offReason"
  BY <1>2 DEF Names, Codes, PresenceCodes, PRESENCE_REASON, MOTION_REASON, STILL_STATE,
               STILL_REASON, RANGE_REASON, TRACKER_STATE, TRACKER_REASON
<1>3. CASE f = "motionReason"
  BY <1>3 DEF Names, Codes, PresenceCodes, PRESENCE_REASON, MOTION_REASON, STILL_STATE,
               STILL_REASON, RANGE_REASON, TRACKER_STATE, TRACKER_REASON
<1>4. CASE f = "stillState"
  BY <1>4 DEF Names, Codes, PresenceCodes, PRESENCE_REASON, MOTION_REASON, STILL_STATE,
               STILL_REASON, RANGE_REASON, TRACKER_STATE, TRACKER_REASON
<1>5. CASE f = "stillReason"
  BY <1>5 DEF Names, Codes, PresenceCodes, PRESENCE_REASON, MOTION_REASON, STILL_STATE,
               STILL_REASON, RANGE_REASON, TRACKER_STATE, TRACKER_REASON
<1>6. CASE f = "rangeReason"
  BY <1>6 DEF Names, Codes, PresenceCodes, PRESENCE_REASON, MOTION_REASON, STILL_STATE,
               STILL_REASON, RANGE_REASON, TRACKER_STATE, TRACKER_REASON
<1>7. CASE f = "trackerState"
  BY <1>7 DEF Names, Codes, PresenceCodes, PRESENCE_REASON, MOTION_REASON, STILL_STATE,
               STILL_REASON, RANGE_REASON, TRACKER_STATE, TRACKER_REASON
<1>8. CASE f = "trackerReason"
  BY <1>8 DEF Names, Codes, PresenceCodes, PRESENCE_REASON, MOTION_REASON, STILL_STATE,
               STILL_REASON, RANGE_REASON, TRACKER_STATE, TRACKER_REASON
<1> QED
  BY <1>1, <1>2, <1>3, <1>4, <1>5, <1>6, <1>7, <1>8 DEF Reasons

\* Unnamed are just the reasons without a code.
LEMMA UnnamedHaveNoCode ==
    ASSUME NEW f \in Reasons, NEW r \in Reported[f]
    PROVE  r \in Unnamed[f] <=> \A k \in DOMAIN Codes[f] : Codes[f][k] # r
<1>1. ASSUME r \in Unnamed[f], NEW k \in DOMAIN Codes[f]
      PROVE  Codes[f][k] # r
  <2>1. CASE f = "presenceReason"
    BY <1>1, <2>1 DEF Codes, PresenceCodes, Unnamed
  <2>2. CASE f = "offReason"
    BY <1>1, <2>2 DEF Codes, PresenceCodes, Unnamed
  <2>3. CASE f = "motionReason"
    BY <1>1, <2>3 DEF Codes, PresenceCodes, Unnamed
  <2>4. CASE f = "stillState"
    BY <1>1, <2>4 DEF Codes, PresenceCodes, Unnamed
  <2>5. CASE f = "stillReason"
    BY <1>1, <2>5 DEF Codes, PresenceCodes, Unnamed
  <2>6. CASE f = "rangeReason"
    BY <1>1, <2>6 DEF Codes, PresenceCodes, Unnamed
  <2>7. CASE f = "trackerState"
    BY <1>1, <2>7 DEF Codes, PresenceCodes, Unnamed
  <2>8. CASE f = "trackerReason"
    BY <1>1, <2>8 DEF Codes, PresenceCodes, Unnamed
  <2> QED
    BY <2>1, <2>2, <2>3, <2>4, <2>5, <2>6, <2>7, <2>8 DEF Reasons
<1>2. ASSUME r \notin Unnamed[f], \A k \in DOMAIN Codes[f] : Codes[f][k] # r
      PROVE  FALSE
  <2>1. CASE f = "presenceReason"
    BY <1>2, <2>1 DEF Codes, PresenceCodes, Unnamed, Reported, OffReasons, TrackerStates,
                  TrackerReasons
  <2>2. CASE f = "offReason"
    BY <1>2, <2>2 DEF Codes, PresenceCodes, Unnamed, Reported, OffReasons, TrackerStates,
                  TrackerReasons
  <2>3. CASE f = "motionReason"
    BY <1>2, <2>3 DEF Codes, PresenceCodes, Unnamed, Reported, OffReasons, TrackerStates,
                  TrackerReasons
  <2>4. CASE f = "stillState"
    BY <1>2, <2>4 DEF Codes, PresenceCodes, Unnamed, Reported, OffReasons, TrackerStates,
                  TrackerReasons
  <2>5. CASE f = "stillReason"
    BY <1>2, <2>5 DEF Codes, PresenceCodes, Unnamed, Reported, OffReasons, TrackerStates,
                  TrackerReasons
  <2>6. CASE f = "rangeReason"
    BY <1>2, <2>6 DEF Codes, PresenceCodes, Unnamed, Reported, OffReasons, TrackerStates,
                  TrackerReasons
  <2>7. CASE f = "trackerState"
    BY <1>2, <2>7 DEF Codes, PresenceCodes, Unnamed, Reported, OffReasons, TrackerStates,
                  TrackerReasons
  <2>8. CASE f = "trackerReason"
    BY <1>2, <2>8 DEF Codes, PresenceCodes, Unnamed, Reported, OffReasons, TrackerStates,
                  TrackerReasons
  <2> QED
    BY <2>1, <2>2, <2>3, <2>4, <2>5, <2>6, <2>7, <2>8 DEF Reasons
<1> QED
  BY <1>1, <1>2

LEMMA ReasonsAreNamed ==
    ASSUME NEW f \in Reasons, NEW r \in Reported[f]
    PROVE  Name(f, Code(f, r)) = IF r \in Unnamed[f] THEN "unknown" ELSE r
<1> DEFINE at == {i \in DOMAIN Codes[f] : Codes[f][i] = r}
<1>1. CASE at = {}
  <2>1. Code(f, r) = Unknown
    BY <1>1 DEF Code
  <2>2. Name(f, Code(f, r)) = "unknown"
    BY <2>1 DEF Name
  <2>3. r \in Unnamed[f]
    BY <1>1, UnnamedHaveNoCode
  <2> QED
    BY <2>2, <2>3
<1>2. CASE at # {}
  <2> DEFINE k == CHOOSE i \in at : TRUE
  <2>1. k \in at
    BY <1>2
  <2>2. Code(f, r) = k - 1
    BY <1>2 DEF Code
  <2>3. k \in DOMAIN Codes[f] /\ Codes[f][k] = r
    BY <2>1
  <2> HIDE DEF k
  <2>4. k \in Int /\ 1 <= k /\ k <= 17
    BY <2>3, TablesAgree
  <2>5. Code(f, r) # Unknown /\ Code(f, r) + 1 = k
    BY <2>2, <2>4 DEF Unknown
  <2>6. Name(f, Code(f, r)) = Names[f][k]
    BY <2>3, <2>5, TablesAgree DEF Name
  <2>7. r \notin Unnamed[f]
    BY <2>3, UnnamedHaveNoCode
  <2> QED
    BY <2>3, <2>6, <2>7, TablesAgree
<1> QED
  BY <1>1, <1>2

LEMMA FieldsAreRead ==
    ASSUME NEW s, NEW f \in DOMAIN ReadSample(LineOf(s))
    PROVE  /\ f \in SampleFields
           /\ ReadSample(LineOf(s))[f] = (IF f \in Reasons THEN Name(f, s.fields[f])
                                         ELSE s.fields[f])
<1> DEFINE l == LineOf(s)
           S == s.fields
           read == ReadSample(l)
<1>1. l.sr = Picked(S, <<"available", "staticPresence", "moving", "still", "movingDistance",
                        "stillDistance", "movingEnergy", "stillEnergy",
                        "detectionDistance">>)
  BY DEF LineOf
<1>2. l.sf = Picked(S, <<"pirEvidence", "trackerEvidence", "armed", "active", "armPending",
                        "exitVeto", "armElapsed">>)
  BY DEF LineOf
<1>3. l.f = Picked(S, <<"blocked", "rangeReason", "suspects", "outOfRange", "candidates">>)
  BY DEF LineOf
<1>4. l.ex = Picked(S, <<"exitActive", "zoneMask", "exitTargets", "exitAge">>)
  BY DEF LineOf
<1>5. l.l = Picked(S, <<"presence", "motion", "stillTarget", "targets", "movers", "stills",
                        "confidence", "emptySamples", "presenceReason", "offReason",
                        "motionReason", "stillState", "stillReason">>)
  BY DEF LineOf
<1>6. l.tr = Picked(S, <<"trackerPresence", "trackerMotion", "trackerState",
                        "trackerReason", "score", "detections", "tracks", "tentative",
                        "confirmed", "coasting", "moverTracks", "stillTracks">>)
  BY DEF LineOf
<1>7. l.q = S["sequence"] /\ l.t = S["ms"] /\ l.p = S["pir"]
  BY DEF LineOf
<1> HIDE DEF l, S
<1>8. /\ l.sr[1] = S["available"] /\ l.sr[2] = S["staticPresence"] /\ l.sr[3] = S["moving"]
      /\ l.sr[4] = S["still"] /\ l.sr[5] = S["movingDistance"] /\ l.sr[6] = S["stillDistance"]
      /\ l.sr[7] = S["movingEnergy"] /\ l.sr[8] = S["stillEnergy"]
      /\ l.sr[9] = S["detectionDistance"]
  BY <1>1 DEF Picked
<1>9. /\ l.sf[1] = S["pirEvidence"] /\ l.sf[2] = S["trackerEvidence"] /\ l.sf[3] = S["armed"]
      /\ l.sf[4] = S["active"] /\ l.sf[5] = S["armPending"] /\ l.sf[6] = S["exitVeto"]
      /\ l.sf[7] = S["armElapsed"]
  BY <1>2 DEF Picked
<1>10. /\ l.f[1] = S["blocked"] /\ l.f[2] = S["rangeReason"] /\ l.f[3] = S["suspects"]
       /\ l.f[4] = S["outOfRange"] /\ l.f[5] = S["candidates"]
  BY <1>3 DEF Picked
<1>11. /\ l.ex[1] = S["exitActive"] /\ l.ex[2] = S["zoneMask"] /\ l.ex[3] = S["exitTargets"]
       /\ l.ex[4] = S["exitAge"]
  BY <1>4 DEF Picked
<1>12. /\ l.l[1] = S["presence"] /\ l.l[2] = S["motion"] /\ l.l[3] = S["stillTarget"]
       /\ l.l[4] = S["targets"] /\ l.l[5] = S["movers"] /\ l.l[6] = S["stills"]
       /\ l.l[7] = S["confidence"] /\ l.l[8] = S["emptySamples"]
       /\ l.l[9] = S["presenceReason"] /\ l.l[10] = S["offReason"]
       /\ l.l[11] = S["motionReason"] /\ l.l[12] = S["stillState"]
       /\ l.l[13] = S["stillReason"]
  BY <1>5 DEF Picked
<1>13. /\ l.tr[1] = S["trackerPresence"] /\ l.tr[2] = S["trackerMotion"]
       /\ l.tr[3] = S["trackerState"] /\ l.tr[4] = S["trackerReason"] /\ l.tr[5] = S["score"]
       /\ l.tr[6] = S["detections"] /\ l.tr[7] = S["tracks"] /\ l.tr[8] = S["tentative"]
       /\ l.tr[9] = S["confirmed"] /\ l.tr[10] = S["coasting"] /\ l.tr[11] = S["moverTracks"]
       /\ l.tr[12] = S["stillTracks"]
  BY <1>6 DEF Picked
<1>14. /\ read["sequence"] = S["sequence"] /\ read["ms"] = S["ms"] /\ read["pir"] = S["pir"]
  BY <1>7 DEF ReadSample
<1>15. /\ read["available"] = S["available"] /\ read["staticPresence"] = S["staticPresence"]
       /\ read["moving"] = S["moving"] /\ read["still"] = S["still"]
       /\ read["movingDistance"] = S["movingDistance"]
       /\ read["stillDistance"] = S["stillDistance"]
       /\ read["movingEnergy"] = S["movingEnergy"] /\ read["stillEnergy"] = S["stillEnergy"]
       /\ read["detectionDistance"] = S["detectionDistance"]
  BY <1>8 DEF ReadSample
<1>16. /\ read["pirEvidence"] = S["pirEvidence"]
       /\ read["trackerEvidence"] = S["trackerEvidence"] /\ read["armed"] = S["armed"]
       /\ read["active"] = S["active"] /\ read["armPending"] = S["armPending"]
       /\ read["exitVeto"] = S["exitVeto"] /\ read["armElapsed"] = S["armElapsed"]
  BY <1>9 DEF ReadSample
<1>17. /\ read["blocked"] = S["blocked"]
       /\ read["rangeReason"] = Name("rangeReason", S["rangeReason"])
       /\ read["suspects"] = S["suspects"] /\ read["outOfRange"] = S["outOfRange"]
       /\ read["candidates"] = S["candidates"]
  BY <1>10 DEF ReadSample
<1>18. /\ read["exitActive"] = S["exitActive"] /\ read["zoneMask"] = S["zoneMask"]
       /\ read["exitTargets"] = S["exitTargets"] /\ read["exitAge"] = S["exitAge"]
  BY <1>11 DEF ReadSample
<1>19. /\ read["presence"] = S["presence"] /\ read["motion"] = S["motion"]
       /\ read["stillTarget"] = S["stillTarget"] /\ read["targets"] = S["targets"]
       /\ read["movers"] = S["movers"] /\ read["stills"] = S["stills"]
       /\ read["confidence"] = S["confidence"] /\ read["emptySamples"] = S["emptySamples"]
       /\ read["presenceReason"] = Name("presenceReason", S["presenceReason"])
       /\ read["offReason"] = Name("offReason", S["offReason"])
       /\ read["motionReason"] = Name("motionReason", S["motionReason"])
       /\ read["stillState"] = Name("stillState", S["stillState"])
       /\ read["stillReason"] = Name("stillReason", S["stillReason"])
  BY <1>12 DEF ReadSample
<1>20. /\ read["trackerPresence"] = S["trackerPresence"]
       /\ read["trackerMotion"] = S["trackerMotion"]
       /\ read["trackerState"] = Name("trackerState", S["trackerState"])
       /\ read["trackerReason"] = Name("trackerReason", S["trackerReason"])
       /\ read["score"] = S["score"] /\ read["detections"] = S["detections"]
       /\ read["tracks"] = S["tracks"] /\ read["tentative"] = S["tentative"]
       /\ read["confirmed"] = S["confirmed"] /\ read["coasting"] = S["coasting"]
       /\ read["moverTracks"] = S["moverTracks"] /\ read["stillTracks"] = S["stillTracks"]
  BY <1>13 DEF ReadSample
<1> DEFINE OK(e) == e \in SampleFields /\ read[e] = (IF e \in Reasons THEN Name(e, S[e]) ELSE S[e])
<1> HIDE DEF read
<1>21. ASSUME f \in {"sequence", "ms", "pir"}
      PROVE  OK(f)
  BY <1>21, <1>14 DEF SampleFields, Reasons, Flags, Counts, Distances
<1>22. ASSUME f \in {"available", "staticPresence", "moving", "still", "movingDistance",
                    "stillDistance", "movingEnergy", "stillEnergy", "detectionDistance"}
      PROVE  OK(f)
  BY <1>22, <1>15 DEF SampleFields, Reasons, Flags, Counts, Distances
<1>23. ASSUME f \in {"pirEvidence", "trackerEvidence", "armed", "active", "armPending",
                    "exitVeto", "armElapsed"}
      PROVE  OK(f)
  BY <1>23, <1>16 DEF SampleFields, Reasons, Flags, Counts, Distances
<1>24. ASSUME f \in {"blocked", "rangeReason", "suspects", "outOfRange", "candidates"}
      PROVE  OK(f)
  BY <1>24, <1>17 DEF SampleFields, Reasons, Flags, Counts, Distances
<1>25. ASSUME f \in {"exitActive", "zoneMask", "exitTargets", "exitAge"}
      PROVE  OK(f)
  BY <1>25, <1>18 DEF SampleFields, Reasons, Flags, Counts, Distances
<1>26. ASSUME f \in {"presence", "motion", "stillTarget", "targets", "movers", "stills",
                    "confidence", "emptySamples", "presenceReason", "offReason",
                    "motionReason", "stillState", "stillReason"}
      PROVE  OK(f)
  BY <1>26, <1>19 DEF SampleFields, Reasons, Flags, Counts, Distances
<1>27. ASSUME f \in {"trackerPresence", "trackerMotion", "trackerState", "trackerReason",
                    "score", "detections", "tracks", "tentative", "confirmed", "coasting",
                    "moverTracks", "stillTracks"}
      PROVE  OK(f)
  BY <1>27, <1>20 DEF SampleFields, Reasons, Flags, Counts, Distances
<1>28. f \in {"sequence", "ms", "pir", "available", "staticPresence", "moving", "still",
              "movingDistance", "stillDistance", "movingEnergy", "stillEnergy",
              "detectionDistance", "pirEvidence", "trackerEvidence", "armed", "active",
              "armPending", "exitVeto", "armElapsed", "blocked", "rangeReason", "suspects",
              "outOfRange", "candidates", "exitActive", "zoneMask", "exitTargets",
              "exitAge", "presence", "motion", "stillTarget", "targets", "movers",
              "stills", "confidence", "emptySamples", "presenceReason", "offReason",
              "motionReason", "stillState", "stillReason", "trackerPresence",
              "trackerMotion", "trackerState", "trackerReason", "score", "detections",
              "tracks", "tentative", "confirmed", "coasting", "moverTracks", "stillTracks"}
  BY DEF ReadSample, l
<1> QED
  BY <1>21, <1>22, <1>23, <1>24, <1>25, <1>26, <1>27, <1>28 DEF l, S, read

LEMMA LineIsRead ==
    ASSUME NEW t, ToldOK(t), told = t, line = LineOf(SampleOf(t))
    PROVE  ReplayReadsBack
<1> DEFINE read == ReadSample(line)
           s == SampleOf(t)
<1>1. ASSUME NEW i \in TargetIndex
      PROVE  /\ \A p \in RawParts : PartIsRead(ReadRaw(line.r[i])[p], p, told.raw[i][p])
             /\ \A p \in DOMAIN ReadTarget(line.tg[i]) :
                   PartIsRead(ReadTarget(line.tg[i])[p], p, told.targets[i][p])
  BY <1>1, RawIsRead, TargetIsRead
<1>2. ASSUME NEW f \in DOMAIN read
      PROVE  IF f \in Distances THEN Nearest(read[f], told.fields[f], 0, 65535)
             ELSE IF f \in Reasons /\ told.fields[f] \in Unnamed[f] THEN read[f] = "unknown"
             ELSE read[f] = told.fields[f]
  <2>1. /\ f \in SampleFields
        /\ read[f] = (IF f \in Reasons THEN Name(f, s.fields[f]) ELSE s.fields[f])
    BY <1>2, FieldsAreRead
  <2>2. s.fields[f] = StoredField(f, t.fields[f])
    BY <2>1 DEF ToldOK, SampleOf
  <2> HIDE DEF read, s
  <2>3. CASE f \in Distances
    <3>1. f \notin Reasons
      BY <2>3 DEF Distances, Reasons
    <3>2. read[f] = ClampU16(t.fields[f])
      BY <2>1, <2>2, <2>3, <3>1 DEF StoredField
    <3> QED
      BY <2>3, <3>2, ClampsAreNearest DEF ToldOK
  <2>4. CASE f \in Reasons
    <3>1. f \notin Distances
      BY <2>4 DEF Distances, Reasons
    <3>2. read[f] = Name(f, Code(f, t.fields[f]))
      BY <2>1, <2>2, <2>4, <3>1 DEF StoredField
    <3>3. t.fields[f] \in Reported[f]
      BY <2>4 DEF ToldOK
    <3> QED
      BY <2>4, <3>1, <3>2, <3>3, ReasonsAreNamed
  <2>5. CASE f \notin Distances /\ f \notin Reasons
    <3>1. read[f] = t.fields[f]
      BY <2>1, <2>2, <2>5 DEF StoredField
    <3> QED
      BY <2>5, <3>1
  <2> QED
    BY <2>3, <2>4, <2>5
<1> QED
  BY <1>1, <1>2 DEF ReplayReadsBack

ReplayInv == ToldOK(told) /\ line = LineOf(SampleOf(told))

LEMMA QuietIsOK ==
    /\ ToldOK(Quiet)
    /\ \A i \in TargetIndex : DOMAIN Quiet.raw[i] = RawParts /\ DOMAIN Quiet.targets[i] = TargetParts
    /\ DOMAIN Quiet.raw = TargetIndex /\ DOMAIN Quiet.targets = TargetIndex
    /\ DOMAIN Quiet = {"raw", "targets", "lux", "fields"}
<1>1. 0 \in Measured /\ 0 \in SixteenBits
  BY DEF Measured, SixteenBits
<1>2. /\ \A i \in TargetIndex : \A p \in RawParts : Quiet.raw[i][p] = 0
      /\ \A i \in TargetIndex : \A p \in TargetParts : Quiet.targets[i][p] = 0
      /\ DOMAIN Quiet.fields = SampleFields
      /\ \A i \in TargetIndex : DOMAIN Quiet.raw[i] = RawParts /\ DOMAIN Quiet.targets[i] = TargetParts
      /\ DOMAIN Quiet.raw = TargetIndex /\ DOMAIN Quiet.targets = TargetIndex
      /\ DOMAIN Quiet = {"raw", "targets", "lux", "fields"}
  BY DEF Quiet, SampleFields
<1>3. \A f \in Distances : Quiet.fields[f] = 0
  BY DEF Quiet, Distances, Reasons
<1>4. ASSUME NEW f \in Reasons
      PROVE  Quiet.fields[f] \in Reported[f]
  <2>1. Quiet.fields[f] = FirstReason[f]
    BY <1>4 DEF Quiet
  <2>2. FirstReason[f] \in Reported[f]
    BY <1>4 DEF FirstReason, Reported, OffReasons, TrackerStates, TrackerReasons, Reasons
  <2> QED
    BY <2>1, <2>2
<1>5. Measurements \subseteq RawParts /\ Measurements \subseteq TargetParts /\ "filterMode" \in RawParts
  BY DEF RawParts, TargetParts, Measurements
<1> HIDE DEF Quiet
<1> QED
  BY <1>1, <1>2, <1>3, <1>4, <1>5 DEF ToldOK

LEMMA ToldIsOK ==
    ASSUME ReplayNext
    PROVE  ToldOK(told') /\ line' = LineOf(SampleOf(told'))
<1>1. ASSUME NEW t, Tell(t), ToldOK(t)
      PROVE  ToldOK(told') /\ line' = LineOf(SampleOf(told'))
  BY <1>1 DEF Tell
<1>2. Numbers \subseteq Measured /\ 1 \in SixteenBits
  BY NumbersAssumption DEF Measured, SixteenBits
<1>3. ASSUME NEW i \in TargetIndex, NEW p \in RawParts, NEW v,
             p \in Measurements => v \in Measured, p = "filterMode" => v \in SixteenBits
      PROVE  ToldOK([Quiet EXCEPT !.raw[i][p] = v])
  <2> DEFINE t == [Quiet EXCEPT !.raw[i][p] = v]
  <2>1. t.targets = Quiet.targets /\ t.fields = Quiet.fields
    BY QuietIsOK
  <2>2. t.raw = [Quiet.raw EXCEPT ![i][p] = v]
    BY QuietIsOK
  <2>3. ASSUME NEW j \in TargetIndex, NEW q \in RawParts
        PROVE  (t.raw[j][q] = v /\ q = p) \/ t.raw[j][q] = Quiet.raw[j][q]
    BY <2>2, <2>3, QuietIsOK
  <2>4. Measurements \subseteq RawParts /\ "filterMode" \in RawParts
    BY DEF RawParts
  <2> HIDE DEF t
  <2> QED
    BY <1>3, <2>1, <2>3, <2>4, QuietIsOK DEF ToldOK, t
<1>4. ASSUME NEW i \in TargetIndex, NEW p \in TargetParts, NEW v,
             p \in Measurements => v \in Measured
      PROVE  ToldOK([Quiet EXCEPT !.targets[i][p] = v])
  <2> DEFINE t == [Quiet EXCEPT !.targets[i][p] = v]
  <2>1. t.raw = Quiet.raw /\ t.fields = Quiet.fields
    BY QuietIsOK
  <2>2. t.targets = [Quiet.targets EXCEPT ![i][p] = v]
    BY QuietIsOK
  <2>3. ASSUME NEW j \in TargetIndex, NEW q \in TargetParts
        PROVE  (t.targets[j][q] = v /\ q = p) \/ t.targets[j][q] = Quiet.targets[j][q]
    BY <2>2, <2>3, QuietIsOK
  <2>4. Measurements \subseteq TargetParts
    BY DEF TargetParts
  <2> HIDE DEF t
  <2> QED
    BY <1>4, <2>1, <2>3, <2>4, QuietIsOK DEF ToldOK, t
<1>5. ASSUME NEW v
      PROVE  ToldOK([Quiet EXCEPT !.lux = v])
  BY QuietIsOK DEF ToldOK
<1>6. ASSUME NEW f \in SampleFields, NEW v,
             f \in Distances => v \in Measured, f \in Reasons => v \in Reported[f]
      PROVE  ToldOK([Quiet EXCEPT !.fields[f] = v])
  <2> DEFINE t == [Quiet EXCEPT !.fields[f] = v]
  <2>1. t.raw = Quiet.raw /\ t.targets = Quiet.targets
    BY QuietIsOK
  <2>2. t.fields = [Quiet.fields EXCEPT ![f] = v]
    BY QuietIsOK
  <2>3. /\ DOMAIN t.fields = SampleFields
        /\ \A g \in SampleFields : (t.fields[g] = v /\ g = f) \/ t.fields[g] = Quiet.fields[g]
    BY <2>2, QuietIsOK DEF ToldOK
  <2>4. Distances \subseteq SampleFields /\ Reasons \subseteq SampleFields
    BY DEF SampleFields
  <2> HIDE DEF t
  <2> QED
    BY <1>6, <2>1, <2>3, <2>4, QuietIsOK DEF ToldOK, t
<1>7. CASE \E i \in TargetIndex, p \in Measurements, v \in Numbers :
              Tell([Quiet EXCEPT !.raw[i][p] = v])
  BY <1>1, <1>2, <1>3, <1>7 DEF RawParts, Measurements
<1>8. CASE \E i \in TargetIndex, p \in RawParts \ Measurements :
              Tell([Quiet EXCEPT !.raw[i][p] = 1])
  BY <1>1, <1>2, <1>3, <1>8
<1>9. CASE \E i \in TargetIndex, p \in Measurements, v \in Numbers :
              Tell([Quiet EXCEPT !.targets[i][p] = v])
  BY <1>1, <1>2, <1>4, <1>9 DEF TargetParts, Measurements
<1>10. CASE \E i \in TargetIndex, p \in TargetParts \ Measurements :
               Tell([Quiet EXCEPT !.targets[i][p] = 1])
  BY <1>1, <1>4, <1>10
<1>11. CASE \E v \in Numbers : Tell([Quiet EXCEPT !.lux = v])
  BY <1>1, <1>5, <1>11
<1>12. CASE \E f \in Flags \union Counts : Tell([Quiet EXCEPT !.fields[f] = 1])
  <2>1. \A f \in Flags \union Counts : f \in SampleFields /\ f \notin Distances /\ f \notin Reasons
    BY DEF SampleFields, Flags, Counts, Distances, Reasons
  <2> QED
    BY <1>1, <1>6, <1>12, <2>1
<1>13. CASE \E f \in Distances, v \in Numbers : Tell([Quiet EXCEPT !.fields[f] = v])
  <2>1. \A f \in Distances : f \in SampleFields /\ f \notin Reasons
    BY DEF SampleFields, Distances, Reasons
  <2> QED
    BY <1>1, <1>2, <1>6, <1>13, <2>1
<1>14. CASE \E f \in Reasons : \E v \in Reported[f] : Tell([Quiet EXCEPT !.fields[f] = v])
  <2>1. \A f \in Reasons : f \in SampleFields /\ f \notin Distances
    BY DEF SampleFields, Distances, Reasons
  <2> QED
    BY <1>1, <1>6, <1>14, <2>1
<1> QED
  BY <1>7, <1>8, <1>9, <1>10, <1>11, <1>12, <1>13, <1>14 DEF ReplayNext

\* Whatever is measured, replay.py gets it back, clamped to its field, and every
\* reason that the loop gives, on either path, by its name or, where it has no
\* code, as unknown (presence_replay_log.cpp against replay.py).
THEOREM ReplayLineIsRead == ReplaySpec => []ReplayReadsBack
<1>1. ReplayInit => ReplayInv
  BY QuietIsOK DEF ReplayInit, ReplayInv
<1>2. ReplayInv /\ [ReplayNext]_replayVars => ReplayInv'
  <2>1. CASE UNCHANGED replayVars
    BY <2>1 DEF ReplayInv, replayVars, ToldOK
  <2>2. ReplayNext => ReplayInv'
    BY ToldIsOK DEF ReplayInv
  <2> QED
    BY <2>1, <2>2
<1>3. ReplayInv => ReplayReadsBack
  BY LineIsRead DEF ReplayInv
<1> QED
  BY <1>1, <1>2, <1>3, PTL DEF ReplaySpec

-----------------------------------------------------------------------------
(* The distance to the boundary of a room.  A target and an edge are looked  *)
(* at from the beginning of the edge, as vectors.                             *)

Points == Int \X Int

LEMMA SquareSign ==
    ASSUME NEW x \in Int
    PROVE  x * x \in Int /\ x * x >= 0 /\ (x * x = 0 <=> x = 0)
OBVIOUS

LEMMA SignOfProduct ==
    ASSUME NEW x \in Int, NEW y \in Int
    PROVE  /\ x >= 0 /\ y >= 0 => x * y >= 0
           /\ x <= 0 /\ y >= 0 => x * y <= 0
           /\ x <= 0 /\ y <= 0 => x * y >= 0
           /\ x > 0 /\ x * y <= 0 => y <= 0
           /\ x > 0 /\ x * y >= 0 => y >= 0
OBVIOUS

\* For vectors u, v and w: |u|^2 |v-w|^2 = (u.(v-w))^2 + (u x (v-w))^2.
LEMMA Lagrange ==
    ASSUME NEW a \in Int, NEW b \in Int, NEW c \in Int, NEW d \in Int
    PROVE  (a * a + b * b) * (c * c + d * d)
             = (a * c + b * d) * (a * c + b * d) + (a * d - b * c) * (a * d - b * c)
OBVIOUS

LEMMA DotProduct ==
    ASSUME NEW a \in Int, NEW b \in Int, NEW c \in Int, NEW d \in Int, NEW e \in Int, NEW f \in Int
    PROVE  (a * a + b * b) * (c * e + d * f)
             = (a * c + b * d) * (a * e + b * f) + (a * d - b * c) * (a * f - b * e)
OBVIOUS

LEMMA AlongLine ==
    ASSUME NEW a \in Int, NEW b \in Int, NEW c \in Int, NEW d \in Int, a * d - b * c = 0
    PROVE  /\ (a * a + b * b) * c = (a * c + b * d) * a
           /\ (a * a + b * b) * d = (a * c + b * d) * b
OBVIOUS

\* A vector w from one end of the edge u that ends on the edge.
OnVector(ux, uy, wx, wy) ==
    /\ ux * wy - uy * wx = 0
    /\ (0 <= wx /\ wx <= ux) \/ (ux <= wx /\ wx <= 0)
    /\ (0 <= wy /\ wy <= uy) \/ (uy <= wy /\ wy <= 0)

LEMMA OnVectorForward ==
    ASSUME NEW ux \in Int, NEW uy \in Int, NEW wx \in Int, NEW wy \in Int, OnVector(ux, uy, wx, wy)
    PROVE  ux * wx + uy * wy >= 0
<1>1. ux * wx >= 0 /\ uy * wy >= 0
  BY SignOfProduct DEF OnVector
<1> QED
  BY <1>1

LEMMA OnVectorReversed ==
    ASSUME NEW ux \in Int, NEW uy \in Int, NEW wx \in Int, NEW wy \in Int, OnVector(ux, uy, wx, wy)
    PROVE  OnVector(-ux, -uy, wx - ux, wy - uy)
<1>1. (-ux) * (wy - uy) - (-uy) * (wx - ux) = -(ux * wy - uy * wx)
  OBVIOUS
<1> QED
  BY <1>1 DEF OnVector

\* A foot that lies before the edge: its beginning is the nearest.
LEMMA BeginningIsNearest ==
    ASSUME NEW ux \in Int, NEW uy \in Int, NEW vx \in Int, NEW vy \in Int, NEW wx \in Int, NEW wy \in Int,
           OnVector(ux, uy, wx, wy), ux * vx + uy * vy < 0
    PROVE  vx * vx + vy * vy <= (vx - wx) * (vx - wx) + (vy - wy) * (vy - wy)
<1> DEFINE D == ux * ux + uy * uy
           vw == vx * wx + vy * wy
           uw == ux * wx + uy * wy
           uv == ux * vx + uy * vy
           cv == ux * vy - uy * vx
<1>1. D * vw = uv * uw + cv * (ux * wy - uy * wx)
  BY DotProduct
<1>2. ux * wy - uy * wx = 0 /\ uw >= 0
  BY OnVectorForward DEF OnVector
<1>3. D \in Int /\ vw \in Int /\ uw \in Int /\ uv \in Int /\ cv \in Int
  OBVIOUS
<1>4. D > 0
  <2>1. ux * ux >= 0 /\ uy * uy >= 0 /\ (ux * ux = 0 => ux = 0) /\ (uy * uy = 0 => uy = 0)
    BY SquareSign
  <2>2. ~ (ux = 0 /\ uy = 0)
    OBVIOUS
  <2>3. ux * ux \in Int /\ uy * uy \in Int
    OBVIOUS
  <2> QED
    BY <2>1, <2>2, <2>3
<1>5. uv <= 0
  OBVIOUS
<1> HIDE DEF D, vw, uw, uv, cv
<1>6. D * vw <= 0
  <2>1. uv * uw <= 0
    BY <1>2, <1>3, <1>5, SignOfProduct
  <2>2. cv * 0 = 0
    BY <1>3
  <2>3. D * vw = uv * uw
    BY <1>1, <1>2, <1>3, <2>2
  <2> QED
    BY <2>1, <2>3
<1>7. vw <= 0
  BY <1>3, <1>4, <1>6, SignOfProduct
<1>8. (vx - wx) * (vx - wx) + (vy - wy) * (vy - wy)
        = (vx * vx + vy * vy) - 2 * vw + (wx * wx + wy * wy)
  BY DEF vw
<1>9. wx * wx >= 0 /\ wy * wy >= 0 /\ wx * wx \in Int /\ wy * wy \in Int
      /\ vx * vx \in Int /\ vy * vy \in Int
  BY SquareSign
<1> QED
  BY <1>3, <1>7, <1>8, <1>9

\* The foot of the perpendicular is at least as near as any point of the edge.
LEMMA FootIsNearest ==
    ASSUME NEW ux \in Int, NEW uy \in Int, NEW vx \in Int, NEW vy \in Int, NEW wx \in Int, NEW wy \in Int,
           OnVector(ux, uy, wx, wy)
    PROVE  (ux * vy - uy * vx) * (ux * vy - uy * vx)
             <= ((vx - wx) * (vx - wx) + (vy - wy) * (vy - wy)) * (ux * ux + uy * uy)
<1> DEFINE c == vx - wx
           d == vy - wy
           dot == ux * c + uy * d
           cross == ux * d - uy * c
<1>1. (ux * ux + uy * uy) * (c * c + d * d) = dot * dot + cross * cross
  BY Lagrange
<1>2. cross = (ux * vy - uy * vx) - (ux * wy - uy * wx)
  OBVIOUS
<1>3. cross = ux * vy - uy * vx
  BY <1>2 DEF OnVector
<1>4. dot \in Int /\ cross \in Int /\ c \in Int /\ d \in Int
  OBVIOUS
<1> HIDE DEF c, d, dot, cross
<1>5. dot * dot >= 0
  BY <1>4, SquareSign
<1>6. (c * c + d * d) * (ux * ux + uy * uy) = (ux * ux + uy * uy) * (c * c + d * d)
  BY <1>4
<1>7. cross * cross <= (c * c + d * d) * (ux * ux + uy * uy)
  BY <1>1, <1>4, <1>5, <1>6
<1> QED
  BY <1>3, <1>7 DEF c, d

\* On the line of the edge, a foot within the edge is on the edge.
LEMMA FootOnEdge ==
    ASSUME NEW u \in Int, NEW v \in Int, NEW D \in Int, NEW along \in Int,
           D > 0, 0 <= along, along <= D, D * v = along * u
    PROVE  (0 <= v /\ v <= u) \/ (u <= v /\ v <= 0)
<1>1. D * (u - v) = (D - along) * u
  BY Z3
<1>2. CASE u >= 0
  <2>1. along * u >= 0 /\ (D - along) * u >= 0
    BY <1>2, SignOfProduct
  <2>2. v >= 0 /\ u - v >= 0
    BY <1>1, <2>1, SignOfProduct
  <2> QED
    BY <2>2
<1>3. CASE u <= 0
  <2>1. u * along <= 0 /\ u * (D - along) <= 0
    BY <1>3, SignOfProduct
  <2>2. along * u <= 0 /\ (D - along) * u <= 0
    BY <2>1
  <2>3. v <= 0 /\ u - v <= 0
    BY <1>1, <2>2, SignOfProduct
  <2> QED
    BY <2>3
<1> QED
  BY <1>2, <1>3

Fraction == {f \in Int \X Int : f[1] >= 0 /\ f[2] >= 1}

LEMMA NotBothSmall ==
    ASSUME NEW x \in Int, NEW y \in Int
    PROVE  /\ x * x + y * y \in Int /\ x * x + y * y >= 0
           /\ x * x + y * y = 0 <=> x = 0 /\ y = 0
<1>1. /\ x * x \in Int /\ y * y \in Int /\ x * x >= 0 /\ y * y >= 0
      /\ (x * x = 0 <=> x = 0) /\ (y * y = 0 <=> y = 0)
  BY SquareSign
<1> QED
  BY <1>1

\* The distance to an edge, with the coordinates taken from its beginning:
\* u is its end, v the target.
ToVector(ux, uy, vx, vy) ==
    LET D == ux * ux + uy * uy
        along == ux * vx + uy * vy
        cross == ux * vy - uy * vx
    IN  IF D = 0 \/ along < 0 THEN <<vx * vx + vy * vy, 1>>
        ELSE IF along > D THEN <<(vx - ux) * (vx - ux) + (vy - uy) * (vy - uy), 1>>
        ELSE <<cross * cross, D>>

LEMMA ToVectorIsFraction ==
    ASSUME NEW ux \in Int, NEW uy \in Int, NEW vx \in Int, NEW vy \in Int
    PROVE  ToVector(ux, uy, vx, vy) \in Fraction
<1> DEFINE D == ux * ux + uy * uy
           along == ux * vx + uy * vy
           cross == ux * vy - uy * vx
           first == vx * vx + vy * vy
           second == (vx - ux) * (vx - ux) + (vy - uy) * (vy - uy)
<1>1. D \in Int /\ D >= 0 /\ first \in Int /\ first >= 0
  BY NotBothSmall
<1>2. second \in Int /\ second >= 0
  <2>1. vx - ux \in Int /\ vy - uy \in Int
    OBVIOUS
  <2> QED
    BY <2>1, NotBothSmall
<1>3. cross * cross \in Int /\ cross * cross >= 0 /\ along \in Int
  <2>1. cross \in Int
    OBVIOUS
  <2> QED
    BY <2>1, SquareSign
<1>4. ToVector(ux, uy, vx, vy) = IF D = 0 \/ along < 0 THEN <<first, 1>>
                                 ELSE IF along > D THEN <<second, 1>> ELSE <<cross * cross, D>>
  BY DEF ToVector
<1> HIDE DEF D, along, first, second
<1>5. \A x \in Int : x >= 0 => <<x, 1>> \in Fraction
  BY DEF Fraction
<1>6. D # 0 => <<cross * cross, D>> \in Fraction
  <2> DEFINE square == cross * cross
  <2>1. square \in Int /\ square >= 0
    BY <1>3
  <2> HIDE DEF square
  <2>2. D # 0 => <<square, D>> \in Fraction
    BY <1>1, <2>1 DEF Fraction
  <2> QED
    BY <2>2 DEF square
<1> QED
  BY <1>1, <1>2, <1>4, <1>5, <1>6

LEMMA ToVectorIsNearest ==
    ASSUME NEW ux \in Int, NEW uy \in Int, NEW vx \in Int, NEW vy \in Int, NEW wx \in Int, NEW wy \in Int,
           OnVector(ux, uy, wx, wy)
    PROVE  AtMost(ToVector(ux, uy, vx, vy),
                  <<(vx - wx) * (vx - wx) + (vy - wy) * (vy - wy), 1>>)
<1> DEFINE D == ux * ux + uy * uy
           along == ux * vx + uy * vy
           cross == ux * vy - uy * vx
           first == vx * vx + vy * vy
           second == (vx - ux) * (vx - ux) + (vy - uy) * (vy - uy)
           far == (vx - wx) * (vx - wx) + (vy - wy) * (vy - wy)
<1>1. ToVector(ux, uy, vx, vy) = IF D = 0 \/ along < 0 THEN <<first, 1>>
                                 ELSE IF along > D THEN <<second, 1>> ELSE <<cross * cross, D>>
  BY DEF ToVector
<1>2. D \in Int /\ along \in Int /\ first \in Int /\ second \in Int /\ far \in Int
      /\ cross * cross \in Int
  OBVIOUS
<1>3. D = 0 => first <= far
  <2>1. SUFFICES ASSUME D = 0 PROVE first <= far
    OBVIOUS
  <2>2. ux = 0 /\ uy = 0
    BY <2>1, NotBothSmall
  <2>3. wx = 0 /\ wy = 0
    BY <2>2 DEF OnVector
  <2> QED
    BY <2>3
<1>4. along < 0 => first <= far
  BY BeginningIsNearest
<1>5. along > D => second <= far
  <2>1. SUFFICES ASSUME along > D PROVE second <= far
    OBVIOUS
  <2>2. OnVector(-ux, -uy, wx - ux, wy - uy)
    BY OnVectorReversed
  <2>3. (-ux) * (vx - ux) + (-uy) * (vy - uy) < 0
    <3>1. (-ux) * (vx - ux) + (-uy) * (vy - uy) = D - along
      OBVIOUS
    <3> HIDE DEF D, along
    <3> QED
      BY <1>2, <2>1, <3>1
  <2>4. \A x, y, a, b \in Int : OnVector(-ux, -uy, x, y) /\ (-ux) * a + (-uy) * b < 0
                                  => a * a + b * b <= (a - x) * (a - x) + (b - y) * (b - y)
    <3>1. -ux \in Int /\ -uy \in Int
      OBVIOUS
    <3> QED
      BY <3>1, BeginningIsNearest
  <2>5. second <= ((vx - ux) - (wx - ux)) * ((vx - ux) - (wx - ux))
                    + ((vy - uy) - (wy - uy)) * ((vy - uy) - (wy - uy))
    <3>1. vx - ux \in Int /\ vy - uy \in Int /\ wx - ux \in Int /\ wy - uy \in Int
      OBVIOUS
    <3> QED
      BY <2>2, <2>3, <2>4, <3>1
  <2>6. (vx - ux) - (wx - ux) = vx - wx /\ (vy - uy) - (wy - uy) = vy - wy
    OBVIOUS
  <2> QED
    BY <2>5, <2>6
<1>6. cross * cross <= far * D
  BY FootIsNearest
<1> HIDE DEF D, along, cross, first, second, far
<1>7. ASSUME NEW x \in Int, x <= far
      PROVE  AtMost(<<x, 1>>, <<far, 1>>)
  BY <1>2, <1>7 DEF AtMost
<1>8. AtMost(<<cross * cross, D>>, <<far, 1>>)
  <2> DEFINE square == cross * cross
  <2>1. square \in Int /\ square <= far * D
    BY <1>2, <1>6
  <2> HIDE DEF square
  <2>2. AtMost(<<square, D>>, <<far, 1>>)
    BY <1>2, <2>1 DEF AtMost
  <2> QED
    BY <2>2 DEF square
<1>9. AtMost(ToVector(ux, uy, vx, vy), <<far, 1>>)
  BY <1>1, <1>2, <1>3, <1>4, <1>5, <1>7, <1>8
<1> QED
  BY <1>9 DEF far

LEMMA ToVectorIsZero ==
    ASSUME NEW ux \in Int, NEW uy \in Int, NEW vx \in Int, NEW vy \in Int
    PROVE  ToVector(ux, uy, vx, vy)[1] = 0 <=> OnVector(ux, uy, vx, vy)
<1> DEFINE D == ux * ux + uy * uy
           along == ux * vx + uy * vy
           cross == ux * vy - uy * vx
           first == vx * vx + vy * vy
           second == (vx - ux) * (vx - ux) + (vy - uy) * (vy - uy)
<1>1. ToVector(ux, uy, vx, vy) = IF D = 0 \/ along < 0 THEN <<first, 1>>
                                 ELSE IF along > D THEN <<second, 1>> ELSE <<cross * cross, D>>
  BY DEF ToVector
<1>2. D \in Int /\ D >= 0 /\ along \in Int /\ first \in Int /\ second \in Int /\ cross \in Int
  BY NotBothSmall
<1>3. first = 0 => OnVector(ux, uy, vx, vy)
  <2>1. SUFFICES ASSUME first = 0 PROVE OnVector(ux, uy, vx, vy)
    OBVIOUS
  <2>2. vx = 0 /\ vy = 0
    BY <2>1, NotBothSmall
  <2> QED
    BY <2>2 DEF OnVector
<1>4. OnVector(ux, uy, vx, vy) => along >= 0
  BY OnVectorForward
<1>5. OnVector(ux, uy, vx, vy) => along <= D
  <2>1. SUFFICES ASSUME OnVector(ux, uy, vx, vy) PROVE along <= D
    OBVIOUS
  <2>2. OnVector(-ux, -uy, vx - ux, vy - uy)
    BY <2>1, OnVectorReversed
  <2>3. \A x, y \in Int : OnVector(-ux, -uy, x, y) => (-ux) * x + (-uy) * y >= 0
    <3>1. -ux \in Int /\ -uy \in Int
      OBVIOUS
    <3> QED
      BY <3>1, OnVectorForward
  <2>4. (-ux) * (vx - ux) + (-uy) * (vy - uy) >= 0
    <3>1. vx - ux \in Int /\ vy - uy \in Int
      OBVIOUS
    <3> QED
      BY <2>2, <2>3, <3>1
  <2>5. (-ux) * (vx - ux) + (-uy) * (vy - uy) = D - along
    OBVIOUS
  <2> HIDE DEF D, along
  <2> QED
    BY <1>2, <2>4, <2>5
<1>6. D = 0 /\ OnVector(ux, uy, vx, vy) => first = 0
  <2>1. SUFFICES ASSUME D = 0, OnVector(ux, uy, vx, vy) PROVE first = 0
    OBVIOUS
  <2>2. ux = 0 /\ uy = 0
    BY <2>1, NotBothSmall
  <2>3. vx = 0 /\ vy = 0
    BY <2>1, <2>2 DEF OnVector
  <2> QED
    BY <2>3
<1>7. second = 0 => along = D
  <2>1. SUFFICES ASSUME second = 0 PROVE along = D
    OBVIOUS
  <2>2. vx - ux = 0 /\ vy - uy = 0
    <3>1. vx - ux \in Int /\ vy - uy \in Int
      OBVIOUS
    <3> QED
      BY <2>1, <3>1, NotBothSmall
  <2>3. vx = ux /\ vy = uy
    BY <2>2
  <2> QED
    BY <2>3
<1>8. cross = 0 <=> cross * cross = 0
  BY <1>2, SquareSign
<1>9. OnVector(ux, uy, vx, vy) => cross = 0
  BY DEF OnVector
<1>10. D # 0 /\ 0 <= along /\ along <= D /\ cross = 0 => OnVector(ux, uy, vx, vy)
  <2>1. SUFFICES ASSUME D # 0, 0 <= along, along <= D, cross = 0 PROVE OnVector(ux, uy, vx, vy)
    OBVIOUS
  <2>2. D * vx = along * ux /\ D * vy = along * uy
    BY <2>1, AlongLine
  <2>3. D > 0
    BY <1>2, <2>1
  <2>4. cross = ux * vy - uy * vx
    OBVIOUS
  <2> HIDE DEF D, along, cross
  <2>5. (0 <= vx /\ vx <= ux) \/ (ux <= vx /\ vx <= 0)
    BY <1>2, <2>1, <2>2, <2>3, FootOnEdge
  <2>6. (0 <= vy /\ vy <= uy) \/ (uy <= vy /\ vy <= 0)
    BY <1>2, <2>1, <2>2, <2>3, FootOnEdge
  <2> QED
    BY <2>1, <2>4, <2>5, <2>6 DEF OnVector
<1> HIDE DEF D, along, cross, first, second
<1>11. CASE D = 0 \/ along < 0
  BY <1>1, <1>2, <1>3, <1>4, <1>6, <1>11
<1>12. CASE ~ (D = 0 \/ along < 0) /\ along > D
  BY <1>1, <1>2, <1>5, <1>7, <1>12
<1>13. CASE ~ (D = 0 \/ along < 0) /\ ~ (along > D)
  <2>1. ToVector(ux, uy, vx, vy)[1] = cross * cross
    BY <1>1, <1>13
  <2>2. 0 <= along /\ along <= D /\ D # 0
    BY <1>2, <1>13
  <2> QED
    BY <1>8, <1>9, <1>10, <2>1, <2>2
<1> QED
  BY <1>11, <1>12, <1>13

LEMMA SegmentIsVector ==
    ASSUME NEW p \in Points, NEW a \in Points, NEW b \in Points
    PROVE  ToSegment(p, a, b) = ToVector(b[1] - a[1], b[2] - a[2], p[1] - a[1], p[2] - a[2])
<1> DEFINE ux == b[1] - a[1]
           uy == b[2] - a[2]
           vx == p[1] - a[1]
           vy == p[2] - a[2]
<1>1. /\ p[1] \in Int /\ p[2] \in Int /\ a[1] \in Int /\ a[2] \in Int /\ b[1] \in Int /\ b[2] \in Int
  BY DEF Points
<1>2. Apart(a, b) = ux * ux + uy * uy
  <2>1. \A x, y \in Int : (x - y) * (x - y) = (y - x) * (y - x)
    OBVIOUS
  <2> QED
    BY <1>1, <2>1 DEF Apart, Square
<1>3. Apart(p, a) = vx * vx + vy * vy
  BY DEF Apart, Square
<1>4. Apart(p, b) = (vx - ux) * (vx - ux) + (vy - uy) * (vy - uy)
  <2>1. vx - ux = p[1] - b[1] /\ vy - uy = p[2] - b[2]
    BY <1>1
  <2> QED
    BY <2>1 DEF Apart, Square
<1>5. ToSegment(p, a, b) = IF Apart(a, b) = 0 \/ ux * vx + uy * vy < 0 THEN <<Apart(p, a), 1>>
                           ELSE IF ux * vx + uy * vy > Apart(a, b) THEN <<Apart(p, b), 1>>
                           ELSE <<Square(ux * vy - uy * vx), Apart(a, b)>>
  BY DEF ToSegment
<1>6. Square(ux * vy - uy * vx) = (ux * vy - uy * vx) * (ux * vy - uy * vx)
  BY DEF Square
<1> HIDE DEF ux, uy, vx, vy
<1>7. ToSegment(p, a, b) = ToVector(ux, uy, vx, vy)
  BY <1>2, <1>3, <1>4, <1>5, <1>6 DEF ToVector
<1> QED
  BY <1>7 DEF ux, uy, vx, vy

LEMMA EdgeIsVector ==
    ASSUME NEW a \in Points, NEW b \in Points, NEW q \in Points
    PROVE  OnEdge(<<b, a>>, q) <=> OnVector(b[1] - a[1], b[2] - a[2], q[1] - a[1], q[2] - a[2])
<1> DEFINE ux == b[1] - a[1]
           uy == b[2] - a[2]
           wx == q[1] - a[1]
           wy == q[2] - a[2]
<1>1. /\ q[1] \in Int /\ q[2] \in Int /\ a[1] \in Int /\ a[2] \in Int /\ b[1] \in Int /\ b[2] \in Int
  BY DEF Points
<1>2. Turn(b, a, q) = -(ux * wy - uy * wx)
  BY <1>1 DEF Turn
<1>3. \A x, y, z \in Int :
         (x <= z /\ z <= y) \/ (y <= z /\ z <= x)
           <=> (0 <= z - y /\ z - y <= x - y) \/ (x - y <= z - y /\ z - y <= 0)
  OBVIOUS
<1>4. (b[1] <= q[1] /\ q[1] <= a[1]) \/ (a[1] <= q[1] /\ q[1] <= b[1])
        <=> (0 <= wx /\ wx <= ux) \/ (ux <= wx /\ wx <= 0)
  BY <1>1, <1>3
<1>5. (b[2] <= q[2] /\ q[2] <= a[2]) \/ (a[2] <= q[2] /\ q[2] <= b[2])
        <=> (0 <= wy /\ wy <= uy) \/ (uy <= wy /\ wy <= 0)
  BY <1>1, <1>3
<1>6. OnEdge(<<b, a>>, q) <=>
         /\ Turn(b, a, q) = 0
         /\ (b[1] <= q[1] /\ q[1] <= a[1]) \/ (a[1] <= q[1] /\ q[1] <= b[1])
         /\ (b[2] <= q[2] /\ q[2] <= a[2]) \/ (a[2] <= q[2] /\ q[2] <= b[2])
  <2>1. \A k : k \in 1..2 <=> k = 1 \/ k = 2
    OBVIOUS
  <2> QED
    BY <2>1 DEF OnEdge
<1>7. ux \in Int /\ uy \in Int /\ wx \in Int /\ wy \in Int
  BY <1>1
<1> HIDE DEF ux, uy, wx, wy
<1>8. Turn(b, a, q) = 0 <=> ux * wy - uy * wx = 0
  <2>1. ux * wy - uy * wx \in Int
    BY <1>7
  <2> QED
    BY <1>2, <2>1
<1>9. OnEdge(<<b, a>>, q) <=> OnVector(ux, uy, wx, wy)
  BY <1>4, <1>5, <1>6, <1>8 DEF OnVector
<1> QED
  BY <1>9 DEF ux, uy, wx, wy

\* What the distance to one edge tells.
LEMMA SegmentIsNearest ==
    ASSUME NEW p \in Points, NEW a \in Points, NEW b \in Points
    PROVE  /\ ToSegment(p, a, b) \in Fraction
           /\ \A q \in Points : OnEdge(<<b, a>>, q) => AtMost(ToSegment(p, a, b), <<Apart(p, q), 1>>)
           /\ ToSegment(p, a, b)[1] = 0 <=> OnEdge(<<b, a>>, p)
<1> DEFINE ux == b[1] - a[1]
           uy == b[2] - a[2]
           vx == p[1] - a[1]
           vy == p[2] - a[2]
<1>1. \A q \in Points : q[1] \in Int /\ q[2] \in Int
  BY DEF Points
<1>2. ux \in Int /\ uy \in Int /\ vx \in Int /\ vy \in Int
  BY <1>1
<1>3. ToSegment(p, a, b) = ToVector(ux, uy, vx, vy)
  BY SegmentIsVector
<1>4. OnEdge(<<b, a>>, p) <=> OnVector(ux, uy, vx, vy)
  BY EdgeIsVector
<1>5. ASSUME NEW q \in Points, OnEdge(<<b, a>>, q)
      PROVE  AtMost(ToVector(ux, uy, vx, vy), <<Apart(p, q), 1>>)
  <2> DEFINE wx == q[1] - a[1]
             wy == q[2] - a[2]
  <2>1. OnVector(ux, uy, wx, wy)
    BY <1>5, EdgeIsVector
  <2>2. wx \in Int /\ wy \in Int
    BY <1>1
  <2>3. Apart(p, q) = (vx - wx) * (vx - wx) + (vy - wy) * (vy - wy)
    <3>1. vx - wx = p[1] - q[1] /\ vy - wy = p[2] - q[2]
      BY <1>1
    <3> QED
      BY <3>1 DEF Apart, Square
  <2> HIDE DEF ux, uy, vx, vy, wx, wy
  <2>4. AtMost(ToVector(ux, uy, vx, vy), <<(vx - wx) * (vx - wx) + (vy - wy) * (vy - wy), 1>>)
    BY <1>2, <2>1, <2>2, ToVectorIsNearest
  <2> QED
    BY <2>3, <2>4
<1> HIDE DEF ux, uy, vx, vy
<1>6. ToVector(ux, uy, vx, vy) \in Fraction
  BY <1>2, ToVectorIsFraction
<1>7. ToVector(ux, uy, vx, vy)[1] = 0 <=> OnVector(ux, uy, vx, vy)
  BY <1>2, ToVectorIsZero
<1> QED
  BY <1>3, <1>4, <1>5, <1>6, <1>7

LEMMA AtMostIsTransitive ==
    ASSUME NEW f \in Fraction, NEW g \in Fraction, NEW h \in Fraction, AtMost(f, g), AtMost(g, h)
    PROVE  AtMost(f, h)
<1> DEFINE a == f[1]  b == f[2]  c == g[1]  d == g[2]  x == h[1]  y == h[2]
<1>1. /\ a \in Int /\ b \in Int /\ c \in Int /\ d \in Int /\ x \in Int /\ y \in Int
      /\ a >= 0 /\ b >= 1 /\ c >= 0 /\ d >= 1 /\ x >= 0 /\ y >= 1
  BY DEF Fraction
<1>2. a * d <= c * b /\ c * y <= x * d
  BY DEF AtMost
<1> HIDE DEF a, b, c, d, x, y
<1>3. \A k, l, m \in Int : k <= l /\ m >= 0 => k * m <= l * m
  <2>1. ASSUME NEW k \in Int, NEW l \in Int, NEW m \in Int, k <= l, m >= 0
        PROVE  k * m <= l * m
    <3>1. (l - k) * m >= 0
      <4>1. l - k \in Int /\ l - k >= 0
        BY <2>1
      <4> QED
        BY <2>1, <4>1, SignOfProduct
    <3>2. (l - k) * m = l * m - k * m
      OBVIOUS
    <3>3. l * m \in Int /\ k * m \in Int
      OBVIOUS
    <3> QED
      BY <3>1, <3>2, <3>3
  <2> QED
    BY <2>1
<1>4. (a * d) * y <= (c * b) * y /\ (c * y) * b <= (x * d) * b
  <2>1. a * d \in Int /\ c * b \in Int /\ c * y \in Int /\ x * d \in Int /\ y >= 0 /\ b >= 0
    BY <1>1
  <2> QED
    BY <1>1, <1>2, <1>3, <2>1
<1>5. (c * b) * y = (c * y) * b /\ (a * d) * y = d * (a * y) /\ (x * d) * b = d * (x * b)
  BY <1>1
<1>6. d * (a * y) <= d * (x * b)
  <2>1. (a * d) * y \in Int /\ (c * b) * y \in Int /\ (x * d) * b \in Int
    BY <1>1
  <2> QED
    BY <1>4, <1>5, <2>1
<1>7. d * (a * y - x * b) <= 0
  <2>1. d * (a * y - x * b) = d * (a * y) - d * (x * b)
    BY <1>1
  <2>2. d * (a * y) \in Int /\ d * (x * b) \in Int
    BY <1>1
  <2> QED
    BY <1>6, <2>1, <2>2
<1>8. a * y - x * b <= 0
  <2>1. a * y - x * b \in Int /\ d > 0
    BY <1>1
  <2> QED
    BY <1>1, <1>7, <2>1, SignOfProduct
<1>9. a * y <= x * b
  <2>1. a * y \in Int /\ x * b \in Int
    BY <1>1
  <2> QED
    BY <1>8, <2>1
<1> QED
  BY <1>9 DEF AtMost, a, b, x, y

LEMMA AtMostIsTotal ==
    ASSUME NEW f \in Fraction, NEW g \in Fraction
    PROVE  (AtMost(f, g) \/ AtMost(g, f)) /\ AtMost(f, f)
<1>1. f[1] \in Int /\ f[2] \in Int /\ g[1] \in Int /\ g[2] \in Int
  BY DEF Fraction
<1>2. f[1] * g[2] \in Int /\ g[1] * f[2] \in Int /\ f[1] * f[2] \in Int
  BY <1>1
<1> QED
  BY <1>2 DEF AtMost

LEMMA LeastNatural ==
    ASSUME NEW S \in SUBSET Nat, S # {}
    PROVE  \E n \in S : \A m \in S : n <= m
<1>1. PICK n \in S : \A m \in S : ~(<<m, n>> \in OpToRel(<, Nat))
  BY NatLessThanWellFounded, WFMin
<1>2. \A m \in S : ~(m < n)
  BY <1>1 DEF OpToRel
<1> QED
  BY <1>2

\* Of finitely many fractions one is the least.
LEMMA LeastFraction ==
    ASSUME NEW n \in Nat, n >= 1, NEW F, \A i \in 1..n : F[i] \in Fraction
    PROVE  \E i \in 1..n : \A j \in 1..n : AtMost(F[i], F[j])
<1> DEFINE Has(k) == \E i \in 1..k : \A j \in 1..k : AtMost(F[i], F[j])
           Bad == {k \in Nat : 1 <= k /\ k <= n /\ ~Has(k)}
<1>1. SUFFICES ASSUME Bad # {} PROVE FALSE
  <2>1. n \notin Bad => Has(n)
    OBVIOUS
  <2> HIDE DEF Bad
  <2> QED
    BY <2>1 DEF Has
<1>2. PICK k \in Bad : \A m \in Bad : k <= m
  <2>1. Bad \in SUBSET Nat
    OBVIOUS
  <2> HIDE DEF Bad
  <2> QED
    BY <1>1, <2>1, LeastNatural
<1>3. k \in Nat /\ 1 <= k /\ k <= n /\ ~Has(k)
  OBVIOUS
<1>4. CASE k = 1
  <2>1. Has(1)
    <3>1. F[1] \in Fraction /\ \A j : j \in 1..1 <=> j = 1
      BY <1>3
    <3>2. AtMost(F[1], F[1])
      BY <3>1, AtMostIsTotal
    <3> QED
      BY <3>1, <3>2
  <2> QED
    BY <1>3, <1>4, <2>1
<1>5. CASE k # 1
  <2> DEFINE m == k - 1
  <2>1. m \in Nat /\ 1 <= m /\ m <= n /\ m < k /\ k = m + 1
    BY <1>3, <1>5
  <2>2. m \notin Bad
    <3>1. ~ (k <= m)
      BY <1>3, <2>1
    <3> HIDE DEF Bad
    <3> QED
      BY <1>2, <3>1
  <2>3. Has(m)
    BY <2>1, <2>2
  <2>4. PICK i \in 1..m : \A j \in 1..m : AtMost(F[i], F[j])
    BY <2>3
  <2>5. \A j \in 1..k : j \in 1..m \/ j = k
    BY <2>1
  <2>6. i \in 1..k /\ k \in 1..k /\ F[i] \in Fraction /\ F[k] \in Fraction
    BY <1>3, <2>1, <2>4
  <2> HIDE DEF m
  <2>7. CASE AtMost(F[i], F[k])
    BY <1>3, <2>4, <2>5, <2>6, <2>7
  <2>8. CASE ~AtMost(F[i], F[k])
    <3>1. AtMost(F[k], F[i]) /\ AtMost(F[k], F[k])
      BY <2>6, <2>8, AtMostIsTotal
    <3>2. ASSUME NEW j \in 1..m
          PROVE  AtMost(F[k], F[j])
      <4>1. F[j] \in Fraction
        BY <1>3, <2>1
      <4>2. AtMost(F[i], F[j])
        BY <2>4
      <4> QED
        BY <2>6, <3>1, <4>1, <4>2, AtMostIsTransitive
    <3>3. \A j \in 1..k : AtMost(F[k], F[j])
      BY <2>5, <3>1, <3>2
    <3> QED
      BY <1>3, <2>6, <3>3
  <2> QED
    BY <2>7, <2>8
<1> QED
  BY <1>4, <1>5

GeometryInv == area \in Areas /\ target \in Points

LEMMA GeometryIsTyped == GeometrySpec => []GeometryInv
<1>1. GeometryInit => GeometryInv
  BY DEF GeometryInit, GeometryInv, Points
<1>2. GeometryInv /\ [GeometryNext]_geometryVars => GeometryInv'
  BY GeometryAssumption DEF GeometryInv, GeometryNext, MoveTarget, geometryVars, Points
<1> QED
  BY <1>1, <1>2, PTL DEF GeometrySpec

LEMMA NearestOfAllEdges ==
    ASSUME NEW corners \in Seq(Points), Len(corners) >= 3, NEW p \in Points
    PROVE  LET d == SignedDistance(corners, p)
           IN  /\ \A q \in Points : (\E e \in Edges(corners) : OnEdge(e, q)) =>
                                       AtMost(d.far, <<Apart(p, q), 1>>)
               /\ d.far[1] = 0 <=> \E e \in Edges(corners) : OnEdge(e, p)
<1> DEFINE n == Len(corners)
           before(i) == IF i = 1 THEN n ELSE i - 1
           F == [i \in 1..n |-> ToSegment(p, corners[before(i)], corners[i])]
           all == {ToSegment(p, e[2], e[1]) : e \in Edges(corners)}
           far == CHOOSE f \in all : \A g \in all : AtMost(f, g)
<1>1. n \in Nat /\ n >= 3 /\ DOMAIN corners = 1..n /\ \A i \in 1..n : corners[i] \in Points
  OBVIOUS
<1>2. \A i \in 1..n : before(i) \in 1..n
  <2> HIDE DEF n
  <2> QED
    BY <1>1
<1>3. Edges(corners) = {<<corners[i], corners[before(i)]>> : i \in 1..n}
  BY <1>1 DEF Edges
<1>4. all = {F[i] : i \in 1..n}
  <2>1. \A e \in Edges(corners) : \E i \in 1..n : e = <<corners[i], corners[before(i)]>>
    BY <1>3
  <2>2. \A i \in 1..n : <<corners[i], corners[before(i)]>> \in Edges(corners)
    BY <1>3
  <2> HIDE DEF n, before
  <2>3. ASSUME NEW i \in 1..n
        PROVE  F[i] \in all
    <3> DEFINE edge == <<corners[i], corners[before(i)]>>
    <3>1. edge \in Edges(corners) /\ edge[1] = corners[i] /\ edge[2] = corners[before(i)]
      BY <2>2
    <3> HIDE DEF edge
    <3>2. F[i] = ToSegment(p, edge[2], edge[1])
      BY <3>1
    <3> QED
      BY <3>1, <3>2
  <2>4. \A f \in all : \E i \in 1..n : f = F[i]
    BY <2>1
  <2> HIDE DEF all, F
  <2> QED
    BY <2>3, <2>4
<1> HIDE DEF n, before
<1>5. ASSUME NEW i \in 1..n
      PROVE  /\ F[i] \in Fraction
             /\ \A q \in Points : OnEdge(<<corners[i], corners[before(i)]>>, q)
                                    => AtMost(F[i], <<Apart(p, q), 1>>)
             /\ F[i][1] = 0 <=> OnEdge(<<corners[i], corners[before(i)]>>, p)
  <2>1. corners[i] \in Points /\ corners[before(i)] \in Points
    BY <1>1, <1>2
  <2>2. F[i] = ToSegment(p, corners[before(i)], corners[i])
    OBVIOUS
  <2> HIDE DEF F
  <2> QED
    BY <2>1, <2>2, SegmentIsNearest
<1> HIDE DEF F, all
<1>6. far \in all /\ \A g \in all : AtMost(far, g)
  <2>1. \E i \in 1..n : \A j \in 1..n : AtMost(F[i], F[j])
    <3>1. n \in Nat /\ n >= 1
      BY <1>1
    <3>2. \A i \in 1..n : F[i] \in Fraction
      BY <1>5
    <3> QED
      BY <3>1, <3>2, LeastFraction
  <2>2. \E f \in all : \A g \in all : AtMost(f, g)
    BY <1>4, <2>1
  <2> QED
    BY <2>2
<1>7. SignedDistance(corners, p).far = far
  <2>1. ~ (Len(corners) < 3)
    BY <1>1 DEF n
  <2> QED
    BY <2>1 DEF SignedDistance, all
<1> HIDE DEF far
<1>8. PICK k \in 1..n : far = F[k]
  BY <1>4, <1>6
<1>9. far \in Fraction
  BY <1>5, <1>8
<1>10. \A q \in Points : <<Apart(p, q), 1>> \in Fraction
  <2>1. ASSUME NEW q \in Points PROVE <<Apart(p, q), 1>> \in Fraction
    <3>1. p[1] - q[1] \in Int /\ p[2] - q[2] \in Int
      BY DEF Points
    <3>2. Apart(p, q) \in Int /\ Apart(p, q) >= 0
      BY <3>1, NotBothSmall DEF Apart, Square
    <3> QED
      BY <3>2 DEF Fraction
  <2> QED
    BY <2>1
<1>11. ASSUME NEW q \in Points, NEW e \in Edges(corners), OnEdge(e, q)
       PROVE  AtMost(far, <<Apart(p, q), 1>>)
  <2>1. PICK i \in 1..n : e = <<corners[i], corners[before(i)]>>
    BY <1>3
  <2>2. AtMost(F[i], <<Apart(p, q), 1>>)
    BY <1>5, <1>11, <2>1
  <2>3. AtMost(far, F[i]) /\ F[i] \in Fraction
    BY <1>4, <1>5, <1>6
  <2> QED
    BY <1>9, <1>10, <2>2, <2>3, AtMostIsTransitive
<1>12. far[1] = 0 => \E e \in Edges(corners) : OnEdge(e, p)
  BY <1>3, <1>5, <1>8
<1>13. ASSUME NEW e \in Edges(corners), OnEdge(e, p)
       PROVE  far[1] = 0
  <2>1. PICK i \in 1..n : e = <<corners[i], corners[before(i)]>>
    BY <1>3
  <2>2. F[i][1] = 0 /\ F[i] \in Fraction /\ AtMost(far, F[i])
    BY <1>4, <1>5, <1>6, <1>13, <2>1
  <2>3. \A f, g \in Fraction : AtMost(f, g) /\ g[1] = 0 => f[1] = 0
    <3>1. ASSUME NEW f \in Fraction, NEW g \in Fraction, AtMost(f, g), g[1] = 0
          PROVE  f[1] = 0
      <4>1. f[1] \in Int /\ g[2] \in Int /\ f[1] >= 0 /\ g[2] >= 1 /\ f[2] \in Int
        BY DEF Fraction
      <4>2. f[1] * g[2] <= 0 * f[2]
        BY <3>1 DEF AtMost
      <4>3. g[2] * f[1] <= 0
        BY <4>1, <4>2
      <4>4. f[1] <= 0
        <5>1. g[2] > 0
          BY <4>1
        <5> QED
          BY <4>1, <4>3, <5>1, SignOfProduct
      <4> QED
        BY <4>1, <4>4
    <3> QED
      BY <3>1
  <2> QED
    BY <1>9, <2>2, <2>3
<1> QED
  BY <1>7, <1>11, <1>12, <1>13

\* For rooms of any shape and size, degenerate ones too, and any target: the
\* distance that floorplan_room_signed_distance computes edge by edge is that
\* to the nearest point of the boundary, and zero exactly on the boundary.
THEOREM BoundaryIsNearest == GeometrySpec => []DistanceIsToTheBoundary
<1>1. GeometryInv => DistanceIsToTheBoundary
  <2>1. SUFFICES ASSUME GeometryInv, Len(Corners) >= 3
                 PROVE  LET d == SignedDistance(Corners, target)
                        IN  /\ \A q \in Grid \X Grid :
                                  (\E e \in Edges(Corners) : OnEdge(e, q)) =>
                                     AtMost(d.far, <<Apart(target, q), 1>>)
                            /\ (d.far[1] = 0) = (\E e \in Edges(Corners) : OnEdge(e, target))
    BY DEF DistanceIsToTheBoundary
  <2>2. Corners \in Seq(Points) /\ target \in Points /\ Grid \X Grid \subseteq Points
    BY <2>1, GeometryAssumption DEF Corners, GeometryInv, Points
  <2>3. LET d == SignedDistance(Corners, target)
        IN  /\ \A q \in Points : (\E e \in Edges(Corners) : OnEdge(e, q)) =>
                                    AtMost(d.far, <<Apart(target, q), 1>>)
            /\ d.far[1] = 0 <=> \E e \in Edges(Corners) : OnEdge(e, target)
    BY <2>1, <2>2, NearestOfAllEdges
  <2> QED
    BY <2>2, <2>3
<1> QED
  BY <1>1, GeometryIsTyped, PTL
=============================================================================
