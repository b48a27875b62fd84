------------------------------ MODULE WalkProofs ------------------------------
(***************************************************************************)
(* Proofs about people who walk: what RoomCrossing states of the walk out   *)
(* of a room, and PresenceHandover of one person who replaces another.      *)
(***************************************************************************)
EXTENDS RoomCrossing, PresenceHandover, PresencePipelineProofs,
        FiniteSetTheorems, WellFoundedInduction

-----------------------------------------------------------------------------
(***************************************************************************)
(* Room-exit evidence always stands for a walk out of the room.             *)
(***************************************************************************)

(***************************************************************************)
(* The inductive invariant, for one track t and its walk w: the last sample *)
(* is no deeper inside than the walk; the evidence, also while the target   *)
(* is not outside, belongs to a walk that left and whose last sample is not *)
(* confidently inside; an idle slot has left no distance and no evidence.   *)
(***************************************************************************)
Consistent(t, w) ==
  /\ w.depth \in Int
  /\ t.distance <= w.depth
  /\ t.state = "idle" => ~t.roomExit /\ t.distance <= 0
  /\ t.roomExit => w.left /\ ~Inside(t)

(* What Judged makes of the walk of a track that is not idle. *)
LEMMA JudgedWalk ==
  ASSUME NEW u \in TrackType, NEW w, w.depth \in Int, u.state # "idle"
  PROVE  /\ Judged(w, u).depth \in Int
         /\ u.distance <= Judged(w, u).depth
         /\ Judged(w, u).left = ((w.left \/ (Outside(u) /\ w.depth > u.margin)) /\ ~Inside(u))
BY DEF Judged, Greater, TrackType

(* A frame that changes neither the last sample nor the evidence of a track. *)
LEMMA JudgedUnchanged ==
  ASSUME NEW t \in TrackType, NEW u \in TrackType, NEW w, Consistent(t, w),
         u.distance = t.distance, u.margin = t.margin, u.roomExit = t.roomExit,
         u.state # "idle"
  PROVE  Consistent(u, Judged(w, u))
<1>1. Inside(u) = Inside(t)
  BY DEF Inside
<1> QED
  BY <1>1, JudgedWalk DEF Consistent

(* A new sample, with a margin of its own. *)
LEMMA JudgedSample ==
  ASSUME NEW t \in TrackType, NEW u \in TrackType, NEW w, Consistent(t, w),
         NEW o \in Observations, u.state # "idle",
         u.distance = o.distance, u.margin = o.margin, u.roomExit = RoomExitAfter(t, o)
  PROVE  Consistent(u, Judged(w, u))
<1>1. o.distance \in Int /\ o.margin \in Nat /\ t.distance \in Int /\ w.depth \in Int
  BY InputAssumption DEF ObservationOK, TrackType, Consistent
<1>2. u.roomExit = ((t.roomExit \/ (t.distance > o.margin /\ Outside(u))) /\ ~Inside(u))
  BY DEF RoomExitAfter, CrossedOutward, Inside, Outside
<1>3. t.roomExit => w.left
  BY DEF Consistent
<1>4. t.distance > o.margin => w.depth > u.margin
  BY <1>1 DEF Consistent
<1>5. u.roomExit => Judged(w, u).left /\ ~Inside(u)
  BY <1>1, <1>2, <1>3, <1>4, JudgedWalk
<1> QED
  BY <1>1, <1>5, JudgedWalk DEF Consistent

(* An idle slot has no walk. *)
LEMMA JudgedIdle ==
  ASSUME NEW w, NEW u, u.state = "idle", ~u.roomExit, u.distance <= 0
  PROVE  Consistent(u, Judged(w, u))
BY DEF Judged, NoWalk, Consistent

(* age_track_ forgets a track or leaves its room evidence alone. *)
LEMMA AgedTrack ==
  ASSUME NEW t \in TrackType
  PROVE  \/ AgeTrack(t) = IdleTrack
         \/ AgeTrack(t) = t /\ t.state = "idle"
         \/ /\ AgeTrack(t) \in TrackType
            /\ t.state # "idle" /\ AgeTrack(t).state # "idle"
            /\ AgeTrack(t).distance = t.distance /\ AgeTrack(t).margin = t.margin
            /\ AgeTrack(t).roomExit = t.roomExit
<1>1. /\ Missed(t) \in TrackType /\ Missed(t).state = t.state
      /\ Missed(t).distance = t.distance /\ Missed(t).margin = t.margin
      /\ Missed(t).roomExit = t.roomExit
  <2> DEFINE m == [t EXCEPT !.missed = t.missed + 1]
  <2>1. m \in TrackType /\ m.distance = t.distance /\ m.margin = t.margin /\ m.roomExit = t.roomExit
    BY DEF TrackType
  <2>2. Missed(t) = RecordObservation(m, FALSE)
    BY DEF Missed
  <2> HIDE DEF m
  <2>3. /\ RecordObservation(m, FALSE).distance = m.distance
        /\ RecordObservation(m, FALSE).margin = m.margin
        /\ RecordObservation(m, FALSE).roomExit = m.roomExit
    BY <2>1 DEF RecordObservation, TrackType
  <2> QED
    BY <2>1, <2>2, <2>3, MissedType
<1>2. CASE t.state = "idle"
  BY <1>2 DEF AgeTrack
<1>3. CASE t.state # "idle" /\ Expires(Missed(t))
  BY <1>3 DEF AgeTrack
<1>4. CASE t.state # "idle" /\ ~Expires(Missed(t)) /\ IsStable(Missed(t))
  <2>1. AgeTrack(t) = [Missed(t) EXCEPT !.state = "coasting"]
    BY <1>4, Zenon DEF AgeTrack
  <2>2. LET c == [Missed(t) EXCEPT !.state = "coasting"]
        IN  /\ c \in TrackType /\ c.state = "coasting"
            /\ c.distance = Missed(t).distance /\ c.margin = Missed(t).margin
            /\ c.roomExit = Missed(t).roomExit
    BY <1>1 DEF TrackType
  <2> QED
    BY <1>1, <1>4, <2>1, <2>2
<1>5. CASE t.state # "idle" /\ ~Expires(Missed(t)) /\ ~IsStable(Missed(t))
  <2>1. AgeTrack(t) = Missed(t)
    BY <1>5, Zenon DEF AgeTrack
  <2> QED
    BY <1>1, <1>5, <2>1
<1> QED
  BY <1>2, <1>3, <1>4, <1>5

CrossingInv == \A s \in Slots : Consistent(tracks[s], walk[s])

LEMMA CrossingStep ==
  ASSUME TypeOK, CrossingInv, Next, walk' = [s \in Slots |-> Judged(walk[s], tracks'[s])]
  PROVE  CrossingInv'
<1> SUFFICES ASSUME NEW s \in Slots
             PROVE  Consistent(tracks'[s], Judged(walk[s], tracks'[s]))
  BY DEF CrossingInv
<1>1. PICK ticks \in Elapses :
        \/ tracks'[s] = AgeTrack(Elapse(tracks[s], ticks))
        \/ \E o \in Observations, pir \in BOOLEAN, configured \in BOOLEAN :
             tracks'[s] = UpdateTrack(Elapse(tracks[s], ticks), o, pir, configured)
  BY NextStep DEF SlotStep, SlotForm
<1> DEFINE t == Elapse(tracks[s], ticks)
           w == walk[s]
<1>2. tracks[s] \in TrackType /\ ticks \in Nat /\ Consistent(tracks[s], w)
  BY InputAssumption DEF TypeOK, CrossingInv
<1>3. t \in TrackType /\ Consistent(t, w)
  <2>1. /\ t \in TrackType /\ t.state = tracks[s].state
        /\ t.distance = tracks[s].distance /\ t.margin = tracks[s].margin
        /\ t.roomExit = tracks[s].roomExit
    BY <1>2, ElapseType DEF Elapse, TrackType
  <2> QED
    BY <1>2, <2>1 DEF Consistent, Inside
<1> HIDE DEF t, w
<1>4. CASE tracks'[s] = AgeTrack(t)
  <2>1. CASE tracks'[s] = IdleTrack
    BY <2>1, JudgedIdle DEF IdleTrack, NoDistance, w
  <2>2. CASE tracks'[s] = t /\ t.state = "idle"
    BY <1>3, <2>2, JudgedIdle DEF Consistent, w
  <2> QED
    BY <1>3, <1>4, <2>1, <2>2, AgedTrack, JudgedUnchanged DEF w
<1>5. ASSUME NEW o \in Observations, NEW pir \in BOOLEAN, NEW configured \in BOOLEAN,
             tracks'[s] = UpdateTrack(t, o, pir, configured)
      PROVE  Consistent(tracks'[s], Judged(w, tracks'[s]))
  <2>1. tracks'[s] \in TrackType /\ tracks'[s].state # "idle"
    BY <1>3, <1>5, UpdateTrackType
  <2>2. CASE configured
    <3>1. tracks'[s].distance = o.distance /\ tracks'[s].margin = o.margin
          /\ tracks'[s].roomExit = RoomExitAfter(t, o)
      <4>1. LET u == UpdateTrack(t, o, pir, configured)
            IN  configured => u.distance = o.distance /\ u.margin = o.margin /\ u.roomExit = RoomExitAfter(t, o)
        BY <1>3, UpdateTrackEvidence
      <4> QED
        BY <1>5, <2>2, <4>1, Zenon
    <3> QED
      BY <1>3, <2>1, <3>1, JudgedSample
  <2>3. CASE ~configured
    <3>1. tracks'[s].distance = t.distance /\ tracks'[s].margin = t.margin
          /\ tracks'[s].roomExit = t.roomExit
      BY <1>3, <1>5, <2>3, UpdateTrackEvidence
    <3> QED
      BY <1>3, <2>1, <3>1, JudgedUnchanged
  <2> QED
    BY <2>2, <2>3
<1> QED
  BY <1>1, <1>4, <1>5 DEF t, w

(***************************************************************************)
(* For every policy and every walk, with any margin at any sample: a track  *)
(* carries room-exit evidence only if a sample of its target lay outside by *)
(* more than its margin, after one that lay inside by more than that, and   *)
(* no sample has been confidently inside since.                             *)
(***************************************************************************)
THEOREM RoomExitsAreCrossings == WalkSpec => []RoomExitIsACrossing
<1>1. WalkInit => TypeOK /\ CrossingInv
  <2> SUFFICES ASSUME WalkInit PROVE TypeOK /\ CrossingInv
    OBVIOUS
  <2>1. TypeOK
    BY InitType DEF WalkInit
  <2>2. Consistent(IdleTrack, NoWalk)
    BY DEF Consistent, IdleTrack, NoWalk, NoDistance
  <2> QED
    BY <2>1, <2>2 DEF WalkInit, Init, CrossingInv
<1>2. TypeOK /\ CrossingInv /\ [WalkNext]_walkVars => TypeOK' /\ CrossingInv'
  <2> SUFFICES ASSUME TypeOK, CrossingInv, [WalkNext]_walkVars
               PROVE  TypeOK' /\ CrossingInv'
    OBVIOUS
  <2>1. CASE WalkNext
    BY <2>1, NextType, CrossingStep DEF WalkNext
  <2>2. CASE UNCHANGED walkVars
    BY <2>2 DEF walkVars, trackerVars, TypeOK, CrossingInv
  <2> QED
    BY <2>1, <2>2
<1>3. CrossingInv => RoomExitIsACrossing
  BY DEF CrossingInv, Consistent, RoomExitIsACrossing, HasRoomExit
<1> QED
  BY <1>1, <1>2, <1>3, PTL DEF WalkSpec

-----------------------------------------------------------------------------
(***************************************************************************)
(* One person replaces another.                                            *)
(***************************************************************************)

(* Somebody was seen in the last k frames, by the track t. *)
Streak(t, k) ==
  t.state # "idle" /\ 0 .. (k - 1) \subseteq t.hits /\ k <= t.frames

(* At least two hits confirm, and the window holds them. *)
LEMMA Hits ==
  /\ ConfirmHits \in Nat /\ ConfirmWindow \in Nat
  /\ 2 <= ConfirmHits /\ ConfirmHits <= ConfirmWindow
BY PolicyAssumption

(* k hits in the last k frames are k recent hits. *)
LEMMA HitCount ==
  ASSUME NEW t \in TrackType
  PROVE  /\ RecentHitCount(t) \in Nat
         /\ \A k \in Nat : 0 .. (k - 1) \subseteq t.hits /\ k <= t.frames => RecentHitCount(t) >= k
<1> DEFINE counted == t.hits \cap 0 .. (t.frames - 1)
<1>1. t.frames \in Nat /\ t.hits \subseteq Nat
  BY Hits DEF TrackType
<1>2. IsFiniteSet(0 .. (t.frames - 1))
  BY <1>1, FS_Interval
<1>3. IsFiniteSet(counted)
  BY <1>2, FS_Subset
<1>4. Cardinality(counted) \in Nat
  BY <1>3, FS_CardinalityType
<1>5. ASSUME NEW k \in Nat, 0 .. (k - 1) \subseteq t.hits, k <= t.frames
      PROVE  Cardinality(counted) >= k
  <2>1. 0 .. (k - 1) \subseteq counted
    BY <1>1, <1>5
  <2>2. Cardinality(0 .. (k - 1)) <= Cardinality(counted)
    BY <1>3, <2>1, FS_Subset
  <2>3. Cardinality(0 .. (k - 1)) = k
    BY FS_Interval
  <2> QED
    BY <1>4, <2>2, <2>3
<1> QED
  BY <1>4, <1>5 DEF RecentHitCount

(* Every further frame lengthens the streak, and ConfirmHits frames confirm. *)
LEMMA StreakGrows ==
  ASSUME NEW t \in TrackType, NEW o \in Observations, NEW k \in 0 .. (ConfirmHits - 1),
         k = 0 \/ Streak(t, k)
  PROVE  LET u == UpdateTrack(t, o, FALSE, FALSE)
         IN  Streak(u, k + 1) /\ (k + 1 = ConfirmHits => IsStable(u))
<1> DEFINE seen  == Sighted(Begun(t), o.moving)
           exits == UpdateExitEvidence(seen, o)
           room  == UpdateRoomEvidence(exits, o, FALSE)
           known == RecordObservation(room, TRUE)
           u     == UpdateTrack(t, o, FALSE, FALSE)
<1>0. k \in Nat /\ k < ConfirmWindow /\ t.frames \in Nat /\ t.frames <= ConfirmWindow
  BY Hits DEF TrackType
<1>1. o.moving \in BOOLEAN
  BY InputAssumption DEF ObservationOK
<1>2. seen \in TrackType /\ seen.hits = t.hits /\ seen.frames = t.frames
      /\ seen.state = Begun(t).state
  <2>1. Begun(t) \in TrackType /\ Begun(t).hits = t.hits /\ Begun(t).frames = t.frames
    BY DEF Begun, TrackType
  <2>2. seen \in TrackType /\ seen.state = Begun(t).state
    BY <1>1, <2>1, SightedType
  <2>3. seen.hits = Begun(t).hits /\ seen.frames = Begun(t).frames
    BY <2>1 DEF Sighted, TrackType
  <2> QED
    BY <2>1, <2>2, <2>3
<1> HIDE DEF seen
<1>3. exits \in TrackType /\ exits.hits = t.hits /\ exits.frames = t.frames
      /\ exits.state = Begun(t).state
  <2>1. exits \in TrackType /\ exits.state = seen.state
    BY <1>2, UpdateExitEvidenceType
  <2>2. exits.hits = seen.hits /\ exits.frames = seen.frames
    BY <1>2 DEF UpdateExitEvidence, TrackType
  <2> QED
    BY <1>2, <2>1, <2>2
<1> HIDE DEF exits
<1>4. room = exits
  BY DEF UpdateRoomEvidence
<1>5. /\ known \in TrackType /\ known.state = Begun(t).state
      /\ known.frames = Lesser(t.frames + 1, ConfirmWindow)
      /\ known.hits = {b \in 0 .. (ConfirmWindow - 1) : b = 0 \/ (b > 0 /\ (b - 1) \in t.hits)}
  <2>1. known \in TrackType /\ known.state = room.state
    BY <1>3, <1>4, RecordObservationType
  <2>2. known.frames = Lesser(room.frames + 1, ConfirmWindow)
    BY <1>3, <1>4 DEF RecordObservation, TrackType
  <2>3. known.hits = {b \in 0 .. (ConfirmWindow - 1) : b = 0 \/ (b > 0 /\ (b - 1) \in room.hits)}
    BY <1>3, <1>4 DEF RecordObservation, TrackType
  <2> QED
    BY <1>3, <1>4, <2>1, <2>2, <2>3
<1>6. u = Promoted(known, FALSE)
  BY Zenon DEF UpdateTrack, seen, exits, room
<1> HIDE DEF known, room
<1>7. 0 .. k \subseteq known.hits
  <2>1. ASSUME NEW b \in 0 .. k
        PROVE  b \in 0 .. (ConfirmWindow - 1) /\ (b = 0 \/ (b > 0 /\ (b - 1) \in t.hits))
    <3>1. b \in Nat /\ b <= k /\ b \in 0 .. (ConfirmWindow - 1)
      BY <1>0, <2>1, Hits
    <3>2. CASE b = 0
      BY <3>1, <3>2
    <3>3. CASE b # 0
      <4>1. b - 1 \in 0 .. (k - 1) /\ k # 0 /\ b > 0
        BY <1>0, <3>1, <3>3
      <4>2. 0 .. (k - 1) \subseteq t.hits
        BY <4>1 DEF Streak
      <4> QED
        BY <3>1, <4>1, <4>2
    <3> QED
      BY <3>2, <3>3
  <2>2. \A b \in 0 .. k : b \in known.hits
    BY <1>5, <2>1, Zenon
  <2> QED
    BY <2>2
<1>8. k + 1 <= known.frames
  <2>1. k <= t.frames
    BY <1>0 DEF Streak
  <2> QED
    BY <1>0, <1>5, <2>1, Hits DEF Lesser
<1>9. u.state \in {"tentative", "confirmed"}
  BY UpdateTrackType
<1>10. u.hits = known.hits /\ u.frames = known.frames
  BY <1>5, <1>6 DEF Promoted, TrackType
<1>11. Streak(u, k + 1)
  <2>1. (k + 1) - 1 = k
    BY <1>0
  <2>2. u.state # "idle"
    BY <1>9
  <2>3. 0 .. ((k + 1) - 1) \subseteq u.hits /\ k + 1 <= u.frames
    BY <1>7, <1>8, <1>10, <2>1
  <2> HIDE DEF u
  <2> QED
    BY <2>2, <2>3 DEF Streak
<1>12. ASSUME k + 1 = ConfirmHits
       PROVE  IsStable(u)
  <2>1. RecentHitCount(known) >= ConfirmHits /\ known.frames >= ConfirmHits
    BY <1>0, <1>5, <1>7, <1>8, <1>12, HitCount, Hits
  <2>2. ShouldConfirm(known, FALSE)
    BY <2>1 DEF ShouldConfirm
  <2>3. known.state \in {"tentative", "confirmed", "coasting"}
    BY <1>5, BegunType DEF TrackType
  <2> QED
    BY <1>5, <1>6, <2>2, <2>3 DEF Promoted, IsStable, TrackType
<1> QED
  BY <1>11, <1>12

-----------------------------------------------------------------------------
(* A target that no track takes opens one, as long as none is stable. *)

(* A set of naturals that is not empty has a least element. *)
LEMMA Least ==
  ASSUME NEW S \in SUBSET Nat, S # {}
  PROVE  \E n \in S : \A m \in S : n <= m
<1>1. PICK n \in S : \A m \in S : ~(<<m, n>> \in OpToRel(<, Nat))
  BY NatLessThanWellFounded, WFMin
<1>2. \A m \in S : ~(m < n)
  BY <1>1 DEF OpToRel
<1> QED
  BY <1>2

(* track_score_ is clamped to 0 .. 100. *)
LEMMA ScoreIsNatural ==
  ASSUME NEW t \in TrackType
  PROVE  TrackScore(t) \in Nat
<1>1. RecentHitCount(t) \in Nat /\ t.observed \in Nat /\ t.missed \in Nat
  BY HitCount DEF TrackType
<1> DEFINE bonus == CASE t.state = "confirmed" -> 20 [] t.state = "coasting" -> 10 [] OTHER -> 0
           raw == RecentHitCount(t) * 18 + t.observed * 6 - Lesser(t.missed, 8) * 8 + bonus
<1>2. bonus \in Nat
  OBVIOUS
<1>3. Lesser(t.missed, 8) \in Nat
  BY <1>1 DEF Lesser
<1> HIDE DEF bonus
<1>4. raw \in Int
  BY <1>1, <1>2, <1>3
<1>5. TrackScore(t) = Greater(0, Lesser(raw, 100))
  BY DEF TrackScore, bonus
<1> HIDE DEF raw
<1> QED
  BY <1>4, <1>5 DEF Greater, Lesser

(* Whatever the tracks are, one slot comes before all others: an idle one, *)
(* the lowest, or the one with the least score.                            *)
LEMMA SomeSlotIsPreferred ==
  ASSUME NEW T \in [Slots -> TrackType]
  PROVE  \E s \in Slots : \A r \in Slots : ~PreferredSlot(T, r, s)
<1>0. Slots # {} /\ Slots \subseteq Nat
  BY PolicyAssumption DEF Slots
<1>1. CASE \E s \in Slots : T[s].state = "idle"
  <2> DEFINE free == {s \in Slots : T[s].state = "idle"}
  <2>1. PICK s \in free : \A r \in free : s <= r
    BY <1>0, <1>1, Least
  <2> QED
    BY <1>0, <2>1 DEF PreferredSlot
<1>2. CASE \A s \in Slots : T[s].state # "idle"
  <2> DEFINE scores == {TrackScore(T[s]) : s \in Slots}
  <2>1. scores \in SUBSET Nat /\ scores # {}
    BY <1>0, ScoreIsNatural
  <2>2. PICK n \in scores : \A m \in scores : n <= m
    BY <2>1, Least
  <2> DEFINE worst == {s \in Slots : TrackScore(T[s]) = n}
  <2>3. worst \in SUBSET Nat /\ worst # {}
    BY <1>0, <2>2
  <2>4. PICK s \in worst : \A r \in worst : s <= r
    BY <2>3, Least
  <2>5. ASSUME NEW r \in Slots
        PROVE  ~PreferredSlot(T, r, s)
    <3>1. n <= TrackScore(T[r]) /\ TrackScore(T[s]) = n /\ TrackScore(T[r]) \in Nat /\ n \in Nat
      BY <2>1, <2>2, <2>4
    <3>2. TrackScore(T[r]) = n => s <= r
      BY <2>4
    <3>3. s \in Nat /\ r \in Nat /\ s \in Slots
      BY <1>0, <2>4
    <3> HIDE DEF worst, scores
    <3> QED
      BY <1>2, <3>1, <3>2, <3>3 DEF PreferredSlot
  <2> QED
    BY <2>4, <2>5
<1> QED
  BY <1>1, <1>2

(* The one target, matched with nothing, takes a slot. *)
LEMMA NewcomerOpens ==
  ASSUME NEW T \in [Slots -> TrackType], NEW assoc, DOMAIN assoc = {}, StableSlots(T) = {}
  PROVE  Newcomers(T, {1}, assoc) # {}
<1>1. PICK s \in Slots : \A r \in Slots : ~PreferredSlot(T, r, s)
  BY SomeSlotIsPreferred
<1>2. {1} \ {assoc[r] : r \in DOMAIN assoc} = {1}
  OBVIOUS
<1>3. Reusable(T, DOMAIN assoc) = Slots
  BY DEF Reusable, StableSlots, IsStable, TrackType
<1>4. {r \in Slots : PreferredSlot(T, r, s)} = {}
  BY <1>1
<1>5. {h \in {1} : h < 1} = {}
  OBVIOUS
<1>6. Cardinality({}) = 0 /\ Cardinality({1}) = 1
  BY FS_EmptySet, FS_Singleton
<1>7. <<s, 1>> \in Newcomers(T, {1}, assoc)
  BY <1>2, <1>3, <1>4, <1>5, <1>6 DEF Newcomers
<1> QED
  BY <1>7

(* A track that is not updated is forgotten or has missed a frame. *)
LEMMA AgedIsMissed ==
  ASSUME NEW t \in TrackType
  PROVE  AgeTrack(t).state = "idle" \/ AgeTrack(t).missed # 0
<1> DEFINE m == Missed(t)
<1>1. m \in TrackType /\ m.missed = t.missed + 1 /\ t.missed \in Nat
  BY MissedType DEF TrackType
<1> HIDE DEF m
<1>2. \/ t.state = "idle" /\ AgeTrack(t) = t
      \/ AgeTrack(t) = IdleTrack \/ AgeTrack(t) = [m EXCEPT !.state = "coasting"]
      \/ AgeTrack(t) = m
  BY Zenon DEF AgeTrack, m
<1>3. [m EXCEPT !.state = "coasting"].missed = m.missed
  BY <1>1 DEF TrackType
<1>4. IdleTrack.state = "idle"
  BY DEF IdleTrack
<1>5. CASE AgeTrack(t) = IdleTrack \/ (t.state = "idle" /\ AgeTrack(t) = t)
  BY <1>4, <1>5
<1>6. CASE AgeTrack(t) = [m EXCEPT !.state = "coasting"] \/ AgeTrack(t) = m
  <2>1. AgeTrack(t).missed = m.missed
    BY <1>3, <1>6
  <2>2. m.missed # 0
    BY <1>1
  <2> QED
    BY <2>1, <2>2
<1> QED
  BY <1>2, <1>5, <1>6

(* What a frame with the one target does. *)
LEMMA PersonFrame ==
  ASSUME TypeOK, 1 \in Elapses, NEW obs \in [{1} -> Observations],
         NEW assoc \in Associations(tracks, {1}), Update(1, FALSE, FALSE, {1}, obs, assoc)
  PROVE  \E updated \in SUBSET Slots :
           /\ \A s \in Slots : s \in updated <=> tracks'[s].state # "idle" /\ tracks'[s].missed = 0
           /\ \A s \in updated : \E o \in Observations :
                tracks'[s] = UpdateTrack(Elapse(tracks[s], 1), o, FALSE, FALSE)
           /\ StableSlots(tracks) = {} => updated # {}
           /\ \A s \in DOMAIN assoc : updated = {s}
<1>0. PICK off \in BOOLEAN : off = FALSE
  OBVIOUS
<1>00. Update(1, off, off, {1}, obs, assoc)
  BY <1>0
<1> DEFINE now       == Advance(1)
           matched   == Matched(now, obs, assoc, off, off)
           newcomers == Newcomers(matched, {1}, assoc)
           opened    == Opened(matched, obs, newcomers, off, off)
           updated   == DOMAIN assoc \cup {p[1] : p \in newcomers}
<1>1. /\ now \in [Slots -> TrackType]
      /\ \A s \in Slots : now[s] = Elapse(tracks[s], 1) /\ now[s].state = tracks[s].state
  BY AdvanceType DEF Advance
<1>2. \A s \in Slots : tracks'[s] = IF s \in updated THEN opened[s] ELSE AgeTrack(opened[s])
  BY <1>00 DEF Update
<1>3. updated \in SUBSET Slots
  <2>1. DOMAIN assoc \subseteq Slots
    BY AssociationsType
  <2>2. ASSUME NEW p \in newcomers PROVE p[1] \in Slots
    <3> HIDE DEF matched
    <3> QED
      BY <2>2, NewcomersType
  <2> HIDE DEF newcomers
  <2> QED
    BY <2>1, <2>2
<1>4. ASSUME NEW s \in Slots
      PROVE  /\ s \notin updated => opened[s] = now[s]
             /\ s \in updated => /\ opened[s].missed = 0 /\ opened[s].state # "idle"
                                 /\ \E o \in Observations : opened[s] = UpdateTrack(now[s], o, off, off)
  <2>0. now \in [Slots -> TrackType]
    BY <1>1
  <2> HIDE DEF now
  <2>1. /\ opened[s] \in TrackType
        /\ s \notin updated => opened[s] = now[s]
        /\ s \in updated =>
             /\ opened[s].missed = 0
             /\ opened[s].state \in {"tentative", "confirmed"}
             /\ IsStable(now[s]) => opened[s].state = "confirmed"
             /\ \E o \in Observations : opened[s] = UpdateTrack(now[s], o, off, off)
    BY <2>0, SlotUpdate
  <2> HIDE DEF opened, updated
  <2> QED
    BY <2>1
<1>5. StableSlots(tracks) = {} => updated # {}
  <2>1. ASSUME StableSlots(tracks) = {}, DOMAIN assoc = {}
        PROVE  newcomers # {}
    <3>1. matched = now
      BY <1>1, <2>1 DEF Matched
    <3>2. StableSlots(now) = {}
      BY <1>1, <2>1 DEF StableSlots, IsStable
    <3> QED
      BY <1>1, <2>1, <3>1, <3>2, NewcomerOpens
  <2>2. DOMAIN assoc # {} => updated # {}
    OBVIOUS
  <2> HIDE DEF newcomers
  <2>3. newcomers # {} => updated # {}
    OBVIOUS
  <2> QED
    BY <2>1, <2>2, <2>3
<1>6. ASSUME NEW s \in DOMAIN assoc
      PROVE  updated = {s}
  <2>1. DOMAIN assoc \subseteq Slots /\ \A r \in DOMAIN assoc : assoc[r] = 1
    BY AssociationsType
  <2>2. \A r \in DOMAIN assoc : r = s
    BY <2>1, <1>6 DEF Associations, Injective
  <2>3. {1} \ {assoc[r] : r \in DOMAIN assoc} = {}
    BY <1>6, <2>1
  <2>4. newcomers = {}
    BY <2>3 DEF Newcomers
  <2> QED
    BY <1>6, <2>2, <2>4
<1> HIDE DEF now, updated, opened
<1>7. ASSUME NEW s \in Slots
      PROVE  s \in updated <=> tracks'[s].state # "idle" /\ tracks'[s].missed = 0
  <2>1. CASE s \in updated
    BY <1>2, <1>4, <2>1
  <2>2. CASE s \notin updated
    <3>1. tracks'[s] = AgeTrack(now[s]) /\ now[s] \in TrackType
      BY <1>1, <1>2, <1>4, <2>2
    <3>2. AgeTrack(now[s]).state = "idle" \/ AgeTrack(now[s]).missed # 0
      BY <3>1, AgedIsMissed
    <3> QED
      BY <2>2, <3>1, <3>2
  <2> QED
    BY <2>1, <2>2
<1>8. ASSUME NEW s \in updated
      PROVE  \E o \in Observations :
               tracks'[s] = UpdateTrack(Elapse(tracks[s], 1), o, FALSE, FALSE)
  <2>1. s \in Slots
    BY <1>3
  <2>2. tracks'[s] = opened[s] /\ now[s] = Elapse(tracks[s], 1)
    BY <1>1, <1>2, <2>1
  <2>3. PICK o \in Observations : opened[s] = UpdateTrack(now[s], o, off, off)
    BY <1>4, <2>1
  <2> QED
    BY <1>0, <2>2, <2>3
<1> WITNESS updated \in SUBSET Slots
<1> QED
  BY <1>5, <1>6, <1>7, <1>8

-----------------------------------------------------------------------------
(***************************************************************************)
(* While a person who was once reported together with a stable track is     *)
(* reported in every frame, the time since the last stable track is the     *)
(* length of the streak that leads to the next one.                         *)
(***************************************************************************)
Bridged ==
  person \in {Unfollowed} \cup Slots =>
    \/ StableSlots(tracks) # {} /\ presenceIdle = 0
    \/ /\ StableSlots(tracks) = {}
       /\ \E k \in 0 .. (ConfirmHits - 1) :
             /\ presenceIdle = k + 1
             /\ k # 0 => person \in Slots /\ Streak(tracks[person], k)

HandoverInv ==
  /\ TypeOK /\ presence \in BOOLEAN /\ presenceIdle \in 0 .. PresenceHold
  /\ person \in PersonType /\ Bridged

(* Slots are numbered from 1. *)
LEMMA SlotIds ==
  /\ Away \notin {Unfollowed} \cup Slots /\ Unsettled \notin {Unfollowed} \cup Slots
  /\ Unfollowed \notin Slots /\ Away # Unsettled
BY DEF Slots, Away, Unsettled, Unfollowed

(* With PIR and static radar silent, a stable track is the only evidence. *)
LEMMA Published ==
  ASSUME NEW blocked \in BOOLEAN, Publication(blocked),
         presence \in BOOLEAN, presenceIdle \in 0 .. PresenceHold
  PROVE  LET on == ~blocked /\ StableSlots(tracks') # {}
             w  == Capped(presenceIdle + 1, PresenceHold)
         IN  /\ presence' = (on \/ (presence /\ w < PresenceHold))
             /\ presenceIdle' = IF on THEN 0 ELSE w
             /\ presence' \in BOOLEAN /\ presenceIdle' \in 0 .. PresenceHold
<1> DEFINE tr == TrackerOutput(tracks', drop')
           on == ~blocked /\ StableSlots(tracks') # {}
           w  == Capped(presenceIdle + 1, PresenceHold)
<1>1. tr.presence = (StableSlots(tracks') # {})
  BY DEF TrackerOutput
<1>2. Fuse(1, FALSE, blocked, presence, FALSE, tr) /\ Publish(1, fused'.presence, fused'.motion)
  BY DEF Publication
<1> HIDE DEF tr
<1>3. fused'.presence = on
  BY <1>1, <1>2 DEF Fuse
<1>4. presence' = (on \/ (presence /\ w < PresenceHold)) /\ presenceIdle' = IF on THEN 0 ELSE w
  BY <1>2, <1>3 DEF Publish, Debounce
<1>5. w \in 0 .. PresenceHold
  BY HoldAssumption DEF Capped
<1> HIDE DEF w, on
<1> QED
  BY <1>4, <1>5, HoldAssumption DEF w, on

(* The slot that follows the person, of those a frame has updated. *)
Chosen(S) == IF S = {} THEN Unfollowed ELSE CHOOSE s \in S : TRUE

(* A frame with the person keeps the invariant, and presence on. *)
LEMMA PersonSeenStep ==
  ASSUME HandoverInv, 1 \in Elapses, 1 \in Targets, FALSE \in RoomConfigured,
         ConfirmHits < PresenceHold, PersonSeen
  PROVE  /\ HandoverInv'
         /\ person \in {Unfollowed} \cup Slots /\ presence => presence'
<1>1. PICK obs \in [{1} -> Observations], assoc \in Associations(tracks, {1}) :
        FollowsPerson(assoc) /\ Update(1, FALSE, FALSE, {1}, obs, assoc)
  BY DEF PersonSeen
<1>2. /\ person' = IF person \in {Away, Unsettled} /\ StableSlots(tracks') = {}
                   THEN Unsettled ELSE Follower
      /\ Publication(FALSE)
  BY DEF PersonSeen
<1>3. /\ TypeOK /\ presence \in BOOLEAN /\ presenceIdle \in 0 .. PresenceHold /\ Bridged
      /\ person \in PersonType
  BY DEF HandoverInv
<1>4. TypeOK'
  <2>1. TrackFrame(1, FALSE, {1})
    BY <1>1 DEF TrackFrame
  <2>2. Next
    BY <2>1 DEF Next
  <2> QED
    BY <1>3, <2>2, NextType
<1> DEFINE on == StableSlots(tracks') # {}
           w  == Capped(presenceIdle + 1, PresenceHold)
<1>5. /\ presence' = (on \/ (presence /\ w < PresenceHold))
      /\ presenceIdle' = IF on THEN 0 ELSE w
      /\ presence' \in BOOLEAN /\ presenceIdle' \in 0 .. PresenceHold
  BY <1>2, <1>3, Published
<1>6. PICK updated \in SUBSET Slots :
        /\ \A s \in Slots : s \in updated <=> tracks'[s].state # "idle" /\ tracks'[s].missed = 0
        /\ \A s \in updated : \E o \in Observations :
             tracks'[s] = UpdateTrack(Elapse(tracks[s], 1), o, FALSE, FALSE)
        /\ StableSlots(tracks) = {} => updated # {}
        /\ \A s \in DOMAIN assoc : updated = {s}
  BY <1>1, <1>3, PersonFrame
<1>7. Follower = Chosen(updated)
  <2> DEFINE hit == {s \in Slots : tracks'[s].state # "idle" /\ tracks'[s].missed = 0}
  <2>1. hit = updated
    BY <1>6
  <2>2. Follower = Chosen(hit)
    BY Zenon DEF Follower, Chosen
  <2> HIDE DEF hit
  <2> QED
    BY <2>1, <2>2, Zenon
<1>11. /\ Follower \in {Unfollowed} \cup Slots /\ person' \in PersonType
       /\ updated # {} => Follower \in updated
  <2>1. updated # {} => Follower \in updated
    BY <1>7 DEF Chosen
  <2>2. updated = {} => Follower = Unfollowed
    BY <1>7 DEF Chosen
  <2>3. Follower \in {Unfollowed} \cup Slots
    BY <1>6, <2>1, <2>2
  <2> QED
    BY <1>2, <2>1, <2>3 DEF PersonType
<1> HIDE DEF on, w
<1>8. CASE on
  BY <1>4, <1>5, <1>11, <1>8 DEF HandoverInv, Bridged, on
<1>9. CASE ~on /\ person \in {Away, Unsettled}
  <2>1. person' = Unsettled
    BY <1>2, <1>9 DEF on
  <2> QED
    BY <1>4, <1>5, <1>11, <1>9, <2>1, SlotIds DEF HandoverInv, Bridged
<1>10. CASE ~on /\ person \notin {Away, Unsettled}
  <2>1. person' = Follower /\ person \in {Unfollowed} \cup Slots /\ StableSlots(tracks') = {}
    BY <1>2, <1>3, <1>10 DEF PersonType, on
  <2>2. \E k \in 0 .. (ConfirmHits - 1) :
          /\ w = k + 1 /\ w < PresenceHold
          /\ k # 0 => person' \in Slots /\ Streak(tracks'[person'], k)
    <3>1. CASE StableSlots(tracks) # {} /\ presenceIdle = 0
      BY <3>1, Hits, HoldAssumption DEF w, Capped
    <3>2. ASSUME StableSlots(tracks) = {}, NEW k \in 0 .. (ConfirmHits - 1), presenceIdle = k + 1,
                 k # 0 => person \in Slots /\ Streak(tracks[person], k)
          PROVE  \E i \in 0 .. (ConfirmHits - 1) :
                   /\ w = i + 1 /\ w < PresenceHold
                   /\ i # 0 => person' \in Slots /\ Streak(tracks'[person'], i)
      <4>1. person' \in updated /\ person' \in Slots
        BY <1>6, <1>11, <2>1, <3>2
      <4>2. k # 0 => person' = person
        <5> SUFFICES ASSUME k # 0 PROVE person' = person
          OBVIOUS
        <5>1. person \in Active(tracks)
          BY <3>2 DEF Active, Streak
        <5>2. person \in DOMAIN assoc
          BY <1>1, <3>2, <5>1 DEF FollowsPerson
        <5>3. updated = {person}
          BY <1>6, <5>2
        <5> QED
          BY <4>1, <5>3
      <4> DEFINE t == Elapse(tracks[person'], 1)
      <4>3. t \in TrackType /\ (k = 0 \/ Streak(t, k))
        <5>1. tracks[person'] \in TrackType /\ 1 \in Nat
          BY <1>3, <4>1 DEF TypeOK
        <5>2. t \in TrackType /\ t.state = tracks[person'].state
          BY <5>1, ElapseType
        <5>3. t.hits = tracks[person'].hits /\ t.frames = tracks[person'].frames
          BY <5>1 DEF Elapse, TrackType
        <5> QED
          BY <3>2, <4>2, <5>2, <5>3 DEF Streak
      <4>4. PICK o \in Observations : tracks'[person'] = UpdateTrack(t, o, FALSE, FALSE)
        BY <1>6, <4>1
      <4> HIDE DEF t
      <4>5. /\ Streak(tracks'[person'], k + 1)
            /\ k + 1 = ConfirmHits => IsStable(tracks'[person'])
        BY <4>3, <4>4, StreakGrows
      <4>6. k + 1 # ConfirmHits
        BY <2>1, <4>1, <4>5 DEF StableSlots
      <4>7. /\ k + 1 \in 0 .. (ConfirmHits - 1) /\ k + 1 # 0
            /\ w = (k + 1) + 1 /\ w < PresenceHold
        BY <3>2, <4>6, Hits, HoldAssumption DEF w, Capped
      <4> QED
        BY <4>1, <4>5, <4>7
    <3> QED
      BY <1>3, <2>1, <3>1, <3>2 DEF Bridged
  <2>3. presenceIdle' = w /\ (presence => presence')
    BY <1>5, <1>10, <2>2
  <2> QED
    BY <1>4, <1>5, <1>11, <2>1, <2>2, <2>3 DEF HandoverInv, Bridged
<1> QED
  BY <1>8, <1>9, <1>10

(* A frame without one, or a blocked one, starts anew. *)
LEMMA NobodySeenStep ==
  ASSUME HandoverInv, 1 \in Elapses, NobodySeen \/ FrameBlocked
  PROVE  HandoverInv' /\ person' = Away
<1>1. Next /\ person' = Away /\ \E blocked \in BOOLEAN : Publication(blocked)
  <2>1. CASE NobodySeen
    <3>1. {} \in SUBSET Targets /\ FALSE \in BOOLEAN
      OBVIOUS
    <3> QED
      BY <2>1, <3>1 DEF NobodySeen, Next
  <2>2. CASE FrameBlocked
    BY <2>2 DEF FrameBlocked, Next
  <2> QED
    BY <2>1, <2>2
<1>2. TypeOK'
  BY <1>1, NextType DEF HandoverInv
<1>3. presence' \in BOOLEAN /\ presenceIdle' \in 0 .. PresenceHold
  BY <1>1, Published DEF HandoverInv
<1> QED
  BY <1>1, <1>2, <1>3, SlotIds DEF HandoverInv, Bridged, PersonType

(***************************************************************************)
(* Presence survives the change from one person to the next, whenever the   *)
(* hold is longer than the frames that confirm a track (3 of them against   *)
(* 3 s, 6 ticks): for any slots, windows and limits.                        *)
(***************************************************************************)
THEOREM HandoversKeepPresence ==
  ASSUME ConfirmHits < PresenceHold, 1 \in Elapses, 1 \in Targets, FALSE \in RoomConfigured
  PROVE  HandoverSpec => HandoverKeepsPresence
<1>1. HandoverInit => HandoverInv
  <2> SUFFICES ASSUME HandoverInit PROVE HandoverInv
    OBVIOUS
  <2>1. TypeOK /\ person = Away
    BY InitType DEF HandoverInit, PipelineInit
  <2>2. presence = FALSE /\ presenceIdle = 0
    BY DEF HandoverInit, PipelineInit
  <2>3. presence \in BOOLEAN /\ presenceIdle \in 0 .. PresenceHold
    <3>1. presence \in BOOLEAN
      BY <2>2, Zenon
    <3>2. 0 \in 0 .. PresenceHold
      BY HoldAssumption
    <3> QED
      BY <2>2, <3>1, <3>2, Zenon
  <2> QED
    BY <2>1, <2>3, SlotIds DEF HandoverInv, Bridged, PersonType
<1>2. HandoverInv /\ [HandoverNext]_handoverVars => HandoverInv'
  <2> SUFFICES ASSUME HandoverInv, [HandoverNext]_handoverVars PROVE HandoverInv'
    OBVIOUS
  <2>1. CASE HandoverNext
    BY <2>1, PersonSeenStep, NobodySeenStep DEF HandoverNext
  <2>2. CASE UNCHANGED handoverVars
    <3>1. /\ tracks' = tracks /\ drop' = drop /\ presence' = presence
          /\ presenceIdle' = presenceIdle /\ person' = person
      BY <2>2 DEF handoverVars, vars, trackerVars, debounceVars
    <3> QED
      BY <3>1 DEF HandoverInv, Bridged, TypeOK, StableSlots, IsStable, Streak
  <2> QED
    BY <2>1, <2>2
<1>3. HandoverInv /\ [HandoverNext]_handoverVars =>
        [(/\ person \in {Unfollowed} \cup Slots
          /\ person' \notin {Away, Unsettled}
          /\ presence) => (presence' = TRUE)]_handoverVars
  <2> SUFFICES ASSUME HandoverInv, HandoverNext,
                      person \in {Unfollowed} \cup Slots, person' \notin {Away, Unsettled},
                      presence
               PROVE  presence' = TRUE
    OBVIOUS
  <2>1. PersonSeen
    BY NobodySeenStep DEF HandoverNext
  <2>2. presence' /\ presence' \in BOOLEAN
    BY <2>1, PersonSeenStep DEF HandoverInv
  <2> QED
    BY <2>2
<1> QED
  BY <1>1, <1>2, <1>3, PTL DEF HandoverSpec, HandoverKeepsPresence
=============================================================================
