----------------------- MODULE PresencePipelineProofs -----------------------
(***************************************************************************)
(* Proofs about PresenceTracker for any number of slots and targets, any    *)
(* policy and any inputs that satisfy its assumptions; and about one tick   *)
(* of the presence path, for every arming time, reentry window and hold     *)
(* too: lemmas about the operators of PresenceFusion and about a tick of    *)
(* PresencePipeline, for the theorems of PresenceSessionProofs.             *)
(***************************************************************************)
EXTENDS PresencePipeline, TLAPS

-----------------------------------------------------------------------------
(* The operators on one track. *)

LEMMA IdleTrackType == IdleTrack \in TrackType
BY PolicyAssumption DEF IdleTrack, TrackType, NoExit, Stale, NoDistance

LEMMA ElapseType ==
  ASSUME NEW t \in TrackType, NEW ticks \in Nat
  PROVE  /\ Elapse(t, ticks) \in TrackType
         /\ Elapse(t, ticks).state = t.state
         /\ Elapse(t, ticks).missed = t.missed
BY PolicyAssumption DEF Elapse, TrackType, Lesser, NoExit, Stale

LEMMA RecordObservationType ==
  ASSUME NEW t \in TrackType, NEW seen \in BOOLEAN
  PROVE  /\ RecordObservation(t, seen) \in TrackType
         /\ RecordObservation(t, seen).state = t.state
         /\ RecordObservation(t, seen).missed = t.missed
<1> DEFINE shifted == {b \in 0 .. (ConfirmWindow - 1) :
                         \/ b = 0 /\ seen
                         \/ b > 0 /\ (b - 1) \in t.hits}
           longer  == Lesser(t.frames + 1, ConfirmWindow)
<1>1. shifted \in SUBSET (0 .. (ConfirmWindow - 1))
  OBVIOUS
<1>2. longer \in 0 .. ConfirmWindow
  BY PolicyAssumption DEF Lesser, TrackType
<1>3. RecordObservation(t, seen) = [t EXCEPT !.hits = shifted, !.frames = longer]
  BY Zenon DEF RecordObservation
<1> HIDE DEF shifted, longer
<1> QED
  BY <1>1, <1>2, <1>3 DEF TrackType

LEMMA RoomSampleType ==
  ASSUME NEW t \in TrackType, NEW o \in Observations, NEW r \in BOOLEAN
  PROVE  /\ RoomSample(t, o, r) \in TrackType
         /\ RoomSample(t, o, r).state = t.state
         /\ RoomSample(t, o, r).missed = t.missed
<1>1. o.distance \in Int /\ o.margin \in Nat
  BY InputAssumption DEF ObservationOK
<1>2. (o.distance < 0) \in BOOLEAN
  OBVIOUS
<1> DEFINE beyond == o.distance < 0
<1> HIDE DEF beyond
<1>3. LET u == [t EXCEPT !.distance = o.distance, !.margin = o.margin, !.outside = beyond,
                         !.roomExit = r]
      IN  u \in TrackType /\ u.state = t.state /\ u.missed = t.missed
  BY <1>1, <1>2 DEF TrackType, beyond
<1> QED
  BY <1>3, Zenon DEF RoomSample, beyond

LEMMA UpdateRoomEvidenceType ==
  ASSUME NEW t \in TrackType, NEW o \in Observations, NEW configured \in BOOLEAN
  PROVE  /\ UpdateRoomEvidence(t, o, configured) \in TrackType
         /\ UpdateRoomEvidence(t, o, configured).state = t.state
         /\ UpdateRoomEvidence(t, o, configured).missed = t.missed
<1>1. CASE ~configured
  BY <1>1 DEF UpdateRoomEvidence
<1>2. CASE configured
  <2> DEFINE exit == (t.roomExit \/ CrossedOutward(t, o)) /\ ~(o.distance > o.margin)
  <2>2. exit \in BOOLEAN
    OBVIOUS
  <2>3. UpdateRoomEvidence(t, o, configured) = RoomSample(t, o, exit)
    BY <1>2 DEF UpdateRoomEvidence
  <2> HIDE DEF exit
  <2>4. /\ RoomSample(t, o, exit) \in TrackType
        /\ RoomSample(t, o, exit).state = t.state
        /\ RoomSample(t, o, exit).missed = t.missed
    BY <2>2, RoomSampleType, Zenon
  <2> QED
    BY <2>3, <2>4, Zenon
<1> QED
  BY <1>1, <1>2

LEMMA UpdateExitEvidenceType ==
  ASSUME NEW t \in TrackType, NEW o
  PROVE  /\ UpdateExitEvidence(t, o) \in TrackType
         /\ UpdateExitEvidence(t, o).state = t.state
         /\ UpdateExitEvidence(t, o).missed = t.missed
BY PolicyAssumption DEF UpdateExitEvidence, TrackType, NoExit, Stale

LEMMA BegunType ==
  ASSUME NEW t \in TrackType
  PROVE  /\ Begun(t) \in TrackType
         /\ Begun(t).state = IF t.state = "idle" THEN "tentative" ELSE t.state
BY DEF Begun, TrackType

LEMMA SightedType ==
  ASSUME NEW t \in TrackType, NEW moving \in BOOLEAN
  PROVE  /\ Sighted(t, moving) \in TrackType
         /\ Sighted(t, moving).state = t.state
         /\ Sighted(t, moving).missed = 0
<1> DEFINE count == Lesser(t.observed + 1, 4)
<1>1. count \in 0 .. 4
  BY DEF TrackType, Lesser
<1>2. Sighted(t, moving) = [t EXCEPT !.moving = moving, !.missed = 0, !.observed = count]
  BY DEF Sighted
<1> HIDE DEF count
<1>3. /\ [t EXCEPT !.moving = moving, !.missed = 0, !.observed = count] \in TrackType
      /\ [t EXCEPT !.moving = moving, !.missed = 0, !.observed = count].state = t.state
      /\ [t EXCEPT !.moving = moving, !.missed = 0, !.observed = count].missed = 0
  BY <1>1 DEF TrackType
<1> QED
  BY <1>2, <1>3, Zenon

LEMMA PromotedType ==
  ASSUME NEW t \in TrackType, NEW pir
  PROVE  /\ Promoted(t, pir) \in TrackType
         /\ Promoted(t, pir).missed = t.missed
         /\ Promoted(t, pir).state \in {t.state, "confirmed"}
         /\ t.state = "coasting" => Promoted(t, pir).state = "confirmed"
<1>1. CASE t.state = "coasting" \/ (t.state = "tentative" /\ ShouldConfirm(t, pir))
  <2>1. Promoted(t, pir) = [t EXCEPT !.state = "confirmed"]
    BY <1>1, Zenon DEF Promoted
  <2> QED
    BY <2>1 DEF TrackType
<1>2. CASE ~(t.state = "coasting" \/ (t.state = "tentative" /\ ShouldConfirm(t, pir)))
  <2>1. Promoted(t, pir) = t
    BY <1>2, Zenon DEF Promoted
  <2> QED
    BY <1>2, <2>1
<1> QED
  BY <1>1, <1>2

(* update_track_ leaves a typed track that is active, has no missed frame,  *)
(* does not coast, and is confirmed if it was stable.                       *)
LEMMA UpdateTrackType ==
  ASSUME NEW t \in TrackType, NEW o \in Observations,
         NEW pir, NEW configured \in BOOLEAN
  PROVE  LET u == UpdateTrack(t, o, pir, configured)
         IN  /\ u \in TrackType
             /\ u.missed = 0
             /\ u.state \in {"tentative", "confirmed"}
             /\ IsStable(t) => u.state = "confirmed"
<1> DEFINE seen  == Sighted(Begun(t), o.moving)
           exits == UpdateExitEvidence(seen, o)
           room  == UpdateRoomEvidence(exits, o, configured)
           known == RecordObservation(room, TRUE)
<1>1. o.moving \in BOOLEAN
  BY InputAssumption DEF ObservationOK
<1>2. seen \in TrackType /\ seen.state = Begun(t).state /\ seen.missed = 0
  BY <1>1, BegunType, SightedType
<1> HIDE DEF seen
<1>3. exits \in TrackType /\ exits.state = Begun(t).state /\ exits.missed = 0
  BY <1>2, UpdateExitEvidenceType
<1> HIDE DEF exits
<1>4. room \in TrackType /\ room.state = Begun(t).state /\ room.missed = 0
  BY <1>3, UpdateRoomEvidenceType
<1> HIDE DEF room
<1>5. known \in TrackType /\ known.state = Begun(t).state /\ known.missed = 0
  BY <1>4, RecordObservationType
<1>6. UpdateTrack(t, o, pir, configured) = Promoted(known, pir)
  BY Zenon DEF UpdateTrack, seen, exits, room
<1> HIDE DEF known
<1>7. t.state \in {"idle", "tentative", "confirmed", "coasting"}
  BY DEF TrackType
<1> QED
  BY <1>5, <1>6, <1>7, BegunType, PromotedType DEF IsStable

(* The room evidence and the first frame, through the same steps. *)
RoomExitAfter(t, o) == (t.roomExit \/ CrossedOutward(t, o)) /\ ~(o.distance > o.margin)

LEMMA UpdateTrackEvidence ==
  ASSUME NEW t \in TrackType, NEW o \in Observations,
         NEW pir \in BOOLEAN, NEW configured \in BOOLEAN
  PROVE  LET u == UpdateTrack(t, o, pir, configured)
         IN  /\ ~configured => /\ u.distance = t.distance /\ u.margin = t.margin
                               /\ u.roomExit = t.roomExit
             /\ configured => /\ u.distance = o.distance /\ u.margin = o.margin
                              /\ u.roomExit = RoomExitAfter(t, o)
             /\ t.state = "idle" /\ t.frames = 0 => u.state = "tentative"
<1> DEFINE seen  == Sighted(Begun(t), o.moving)
           exits == UpdateExitEvidence(seen, o)
           room  == UpdateRoomEvidence(exits, o, configured)
           known == RecordObservation(room, TRUE)
<1>1. /\ o.moving \in BOOLEAN /\ o.distance \in Int /\ o.margin \in Nat
      /\ TRUE \in BOOLEAN
  BY InputAssumption DEF ObservationOK
<1>2. /\ seen \in TrackType /\ seen.frames = t.frames
      /\ seen.distance = t.distance /\ seen.margin = t.margin /\ seen.roomExit = t.roomExit
      /\ seen.state = Begun(t).state
  <2>1. /\ Begun(t) \in TrackType /\ Begun(t).frames = t.frames
        /\ Begun(t).distance = t.distance /\ Begun(t).margin = t.margin
        /\ Begun(t).roomExit = t.roomExit
    BY DEF Begun, TrackType
  <2>2. seen \in TrackType /\ seen.state = Begun(t).state
    BY <1>1, <2>1, SightedType
  <2>3. /\ seen.frames = Begun(t).frames
        /\ seen.distance = Begun(t).distance /\ seen.margin = Begun(t).margin
        /\ seen.roomExit = Begun(t).roomExit
    BY <2>1 DEF Sighted, TrackType
  <2> QED
    BY <2>1, <2>2, <2>3
<1> HIDE DEF seen
<1>3. /\ exits \in TrackType /\ exits.frames = t.frames
      /\ exits.distance = t.distance /\ exits.margin = t.margin /\ exits.roomExit = t.roomExit
      /\ exits.state = Begun(t).state
  <2>1. exits \in TrackType /\ exits.state = seen.state
    BY <1>2, UpdateExitEvidenceType
  <2>2. /\ exits.frames = seen.frames
        /\ exits.distance = seen.distance /\ exits.margin = seen.margin
        /\ exits.roomExit = seen.roomExit
    BY <1>2 DEF UpdateExitEvidence, TrackType
  <2> QED
    BY <1>2, <2>1, <2>2
<1> HIDE DEF exits
<1>4. /\ room \in TrackType /\ room.frames = t.frames /\ room.state = Begun(t).state
      /\ ~configured => /\ room.distance = t.distance /\ room.margin = t.margin
                        /\ room.roomExit = t.roomExit
      /\ configured => /\ room.distance = o.distance /\ room.margin = o.margin
                       /\ room.roomExit = RoomExitAfter(t, o)
  <2>1. room \in TrackType /\ room.state = exits.state
    BY <1>3, UpdateRoomEvidenceType
  <2>2. CASE ~configured
    BY <1>3, <2>1, <2>2 DEF UpdateRoomEvidence
  <2>3. CASE configured
    <3> DEFINE exit == (exits.roomExit \/ CrossedOutward(exits, o)) /\ ~(o.distance > o.margin)
    <3>1. room = RoomSample(exits, o, exit)
      BY <2>3 DEF UpdateRoomEvidence
    <3>2. exit \in BOOLEAN
      OBVIOUS
    <3>3. exit = RoomExitAfter(t, o)
      BY <1>3, Zenon DEF RoomExitAfter, CrossedOutward
    <3> HIDE DEF exit
    <3>4. /\ RoomSample(exits, o, exit).frames = exits.frames
          /\ RoomSample(exits, o, exit).distance = o.distance
          /\ RoomSample(exits, o, exit).margin = o.margin
          /\ RoomSample(exits, o, exit).roomExit = exit
      BY <1>1, <1>3, <3>2 DEF RoomSample, TrackType
    <3> HIDE DEF room
    <3> QED
      BY <1>3, <2>1, <2>3, <3>1, <3>3, <3>4, Zenon
  <2> QED
    BY <2>2, <2>3
<1> HIDE DEF room
<1>5. /\ known \in TrackType /\ known.state = Begun(t).state
      /\ known.frames = Lesser(t.frames + 1, ConfirmWindow)
      /\ known.distance = room.distance /\ known.margin = room.margin
      /\ known.roomExit = room.roomExit
  <2>1. known \in TrackType /\ known.state = room.state
    BY <1>1, <1>4, RecordObservationType
  <2>2. /\ known.frames = Lesser(room.frames + 1, ConfirmWindow)
        /\ known.distance = room.distance /\ known.margin = room.margin
        /\ known.roomExit = room.roomExit
    BY <1>4 DEF RecordObservation, TrackType
  <2> QED
    BY <1>4, <2>1, <2>2
<1>6. UpdateTrack(t, o, pir, configured) = Promoted(known, pir)
  BY Zenon DEF UpdateTrack, seen, exits, room
<1> HIDE DEF known
<1>7. /\ Promoted(known, pir).distance = known.distance
      /\ Promoted(known, pir).margin = known.margin
      /\ Promoted(known, pir).roomExit = known.roomExit
  BY <1>5 DEF Promoted, TrackType
<1>8. ASSUME t.state = "idle", t.frames = 0
      PROVE  Promoted(known, pir).state = "tentative"
  <2>1. known.state = "tentative"
    BY <1>5, <1>8, BegunType
  <2>2. known.frames < 2
    BY <1>5, <1>8, PolicyAssumption DEF Lesser
  <2>3. ~ShouldConfirm(known, pir)
    <3>1. known.frames \in Int
      BY <1>5 DEF TrackType
    <3>2. PirConfirmHits \in Int /\ ConfirmHits \in Int /\ PirConfirmHits >= 2 /\ ConfirmHits >= 2
      BY PolicyAssumption
    <3>3. ~(known.frames >= (IF pir THEN PirConfirmHits ELSE ConfirmHits))
      BY <2>2, <3>1, <3>2
    <3> QED
      BY <3>3, Zenon DEF ShouldConfirm
  <2> QED
    BY <2>1, <2>3 DEF Promoted
<1> QED
  BY <1>4, <1>5, <1>6, <1>7, <1>8, Zenon

(* age_track_ *)
LEMMA MissedType ==
  ASSUME NEW t \in TrackType
  PROVE  /\ Missed(t) \in TrackType
         /\ Missed(t).state = t.state
         /\ Missed(t).missed = t.missed + 1
<1>1. /\ [t EXCEPT !.missed = t.missed + 1] \in TrackType
      /\ [t EXCEPT !.missed = t.missed + 1].state = t.state
      /\ [t EXCEPT !.missed = t.missed + 1].missed = t.missed + 1
  BY DEF TrackType
<1> QED
  BY <1>1, RecordObservationType DEF Missed

LEMMA CoastingLimitType ==
  ASSUME NEW t
  PROVE  /\ CoastingLimit(t) \in Nat
         /\ ExitLimit <= CoastingLimit(t)
         /\ CoastingLimit(t) <= NonExitLimit
BY PolicyAssumption DEF CoastingLimit

(* A track that was missed is forgotten, or keeps within its limit.         *)
LEMMA AgeTrackType ==
  ASSUME NEW t \in TrackType
  PROVE  LET u == AgeTrack(t)
         IN  /\ u \in TrackType
             /\ u.state # "confirmed"
             /\ u.state = "tentative" => u.missed <= TentativeLimit
             /\ u.state = "coasting"  => u.missed <= CoastingLimit(u)
             /\ IsStable(t) =>
                  \/ /\ u = IdleTrack
                     /\ Expires(Missed(t))
                     /\ t.missed >= ExitLimit
                  \/ IsStable(u) /\ u.missed = t.missed + 1
<1> DEFINE m == Missed(t)
<1>1. m \in TrackType /\ m.state = t.state /\ m.missed = t.missed + 1
  BY MissedType
<1>2. t.missed \in Nat /\ t.state \in {"idle", "tentative", "confirmed", "coasting"}
  BY DEF TrackType
<1> HIDE DEF m
<1>3. CASE t.state = "idle"
  BY <1>3 DEF AgeTrack, IsStable
<1>4. CASE t.state # "idle" /\ Expires(m)
  <2>1. AgeTrack(t) = IdleTrack
    BY <1>4, Zenon DEF AgeTrack, m
  <2>2. IsStable(t) => m.missed > CoastingLimit(m)
    BY <1>1, <1>4 DEF Expires, IsStable
  <2>3. IsStable(t) => t.missed >= ExitLimit
    BY <2>2, <1>1, <1>2, CoastingLimitType, PolicyAssumption
  <2>4. IdleTrack.state = "idle"
    BY DEF IdleTrack
  <2> QED
    BY <1>4, <2>1, <2>3, <2>4, IdleTrackType DEF m
<1>5. CASE t.state # "idle" /\ ~Expires(m) /\ IsStable(m)
  <2> DEFINE u == [m EXCEPT !.state = "coasting"]
  <2>1. AgeTrack(t) = u
    BY <1>5, Zenon DEF AgeTrack, m
  <2>2. u \in TrackType /\ u.state = "coasting" /\ u.missed = m.missed
    BY <1>1 DEF TrackType
  <2>3. CoastingLimit(u) = CoastingLimit(m)
    BY <1>1 DEF CoastingLimit, HasRecentExit, HasRoomExit, TrackType
  <2>4. m.missed <= CoastingLimit(m)
    BY <1>1, <1>2, <1>5, CoastingLimitType DEF Expires
  <2> HIDE DEF u
  <2> QED
    BY <1>1, <2>1, <2>2, <2>3, <2>4 DEF IsStable
<1>6. CASE t.state # "idle" /\ ~Expires(m) /\ ~IsStable(m)
  <2>1. AgeTrack(t) = m
    BY <1>6, Zenon DEF AgeTrack, m
  <2>2. m.state = "tentative"
    BY <1>1, <1>2, <1>6 DEF IsStable
  <2>3. m.missed <= TentativeLimit
    BY <1>1, <1>2, <1>6, <2>2, PolicyAssumption DEF Expires
  <2> QED
    BY <1>1, <1>6, <2>1, <2>2, <2>3 DEF IsStable
<1> QED
  BY <1>3, <1>4, <1>5, <1>6

-----------------------------------------------------------------------------
(***************************************************************************)
(* One frame.  Every slot is either updated with some target or aged; a    *)
(* stable track is only ever updated as itself, never taken by a newcomer. *)
(***************************************************************************)
LEMMA AdvanceType ==
  ASSUME TypeOK, NEW ticks \in Elapses
  PROVE  /\ Advance(ticks) \in [Slots -> TrackType]
         /\ \A s \in Slots : /\ Advance(ticks)[s].state = tracks[s].state
                            /\ Advance(ticks)[s].missed = tracks[s].missed
<1>1. \A s \in Slots : tracks[s] \in TrackType
  BY DEF TypeOK
<1>2. ticks \in Nat
  BY InputAssumption
<1> QED
  BY <1>1, <1>2, ElapseType DEF Advance

LEMMA AssociationsType ==
  ASSUME NEW T, NEW valid, NEW f \in Associations(T, valid)
  PROVE  /\ DOMAIN f \subseteq Slots
         /\ \A s \in DOMAIN f : f[s] \in valid
BY DEF Associations, Active

LEMMA NewcomersType ==
  ASSUME NEW T, NEW valid, NEW assoc, NEW p \in Newcomers(T, valid, assoc)
  PROVE  /\ p[1] \in Slots \ DOMAIN assoc
         /\ ~IsStable(T[p[1]])
         /\ p[2] \in valid
BY DEF Newcomers, Reusable, IsStable

LEMMA SlotUpdate ==
  ASSUME NEW T \in [Slots -> TrackType], NEW valid, NEW obs \in [valid -> Observations],
         NEW assoc \in Associations(tracks, valid), NEW pir, NEW configured \in BOOLEAN,
         NEW s \in Slots
  PROVE  LET matched   == Matched(T, obs, assoc, pir, configured)
             newcomers == Newcomers(matched, valid, assoc)
             opened    == Opened(matched, obs, newcomers, pir, configured)
             updated   == DOMAIN assoc \cup {p[1] : p \in newcomers}
         IN  /\ matched[s] \in TrackType /\ opened[s] \in TrackType
             /\ s \notin updated => opened[s] = T[s]
             /\ s \in updated =>
                  /\ opened[s].missed = 0
                  /\ opened[s].state \in {"tentative", "confirmed"}
                  /\ IsStable(T[s]) => opened[s].state = "confirmed"
                  /\ \E o \in Observations :
                       opened[s] = UpdateTrack(T[s], o, pir, configured)
<1> DEFINE matched   == Matched(T, obs, assoc, pir, configured)
           newcomers == Newcomers(matched, valid, assoc)
           opened    == Opened(matched, obs, newcomers, pir, configured)
           mine      == {p \in newcomers : p[1] = s}
<1>1. matched[s] = IF s \in DOMAIN assoc
                   THEN UpdateTrack(T[s], obs[assoc[s]], pir, configured) ELSE T[s]
  BY DEF Matched
<1>2. T[s] \in TrackType
  OBVIOUS
<1>3. CASE s \in DOMAIN assoc
  <2>1. obs[assoc[s]] \in Observations
    BY <1>3, AssociationsType
  <2>2. matched[s] = UpdateTrack(T[s], obs[assoc[s]], pir, configured)
    BY <1>1, <1>3
  <2>3. /\ matched[s] \in TrackType
        /\ matched[s].missed = 0
        /\ matched[s].state \in {"tentative", "confirmed"}
        /\ IsStable(T[s]) => matched[s].state = "confirmed"
    BY <1>2, <2>1, <2>2, UpdateTrackType
  <2>4. mine = {}
    BY <1>3, NewcomersType
  <2>5. opened[s] = matched[s]
    BY <2>4 DEF Opened
  <2> QED
    BY <1>3, <2>1, <2>2, <2>3, <2>5
<1>4. CASE s \notin DOMAIN assoc /\ mine = {}
  <2>1. matched[s] = T[s]
    BY <1>1, <1>4
  <2>2. opened[s] = matched[s]
    BY <1>4 DEF Opened
  <2>3. s \notin {p[1] : p \in newcomers}
    BY <1>4
  <2> QED
    BY <1>2, <1>4, <2>1, <2>2, <2>3
<1>5. CASE s \notin DOMAIN assoc /\ mine # {}
  <2> DEFINE q == CHOOSE p \in mine : TRUE
  <2>1. matched[s] = T[s]
    BY <1>1, <1>5
  <2>2. q \in newcomers /\ q[1] = s
    BY <1>5
  <2>3. q[2] \in valid /\ ~IsStable(T[s])
    BY <2>1, <2>2, NewcomersType
  <2>4. obs[q[2]] \in Observations
    BY <2>3
  <2>5. opened[s] = UpdateTrack(T[s], obs[q[2]], pir, configured)
    BY <1>5, <2>1 DEF Opened
  <2>6. /\ opened[s] \in TrackType
        /\ opened[s].missed = 0
        /\ opened[s].state \in {"tentative", "confirmed"}
    BY <1>2, <2>4, <2>5, UpdateTrackType
  <2>7. s \in {p[1] : p \in newcomers}
    BY <2>2
  <2> QED
    BY <1>2, <1>5, <2>1, <2>3, <2>4, <2>5, <2>6, <2>7
<1> QED
  BY <1>3, <1>4, <1>5

DropOK(d) ==
  /\ d \in [reason : DropReasons, fresh : BOOLEAN]
  /\ d.fresh => d.reason # "none"

LEMMA DropOfType ==
  ASSUME NEW T, NEW updated, NEW old, DropOK(old)
  PROVE  LET d == DropOf(T, updated, old)
         IN  /\ DropOK(d)
             /\ DroppedSlots(T, updated) # {} => d.fresh /\ d.reason # "none"
<1> DEFINE dropped == DroppedSlots(T, updated)
           lost    == DropReason(Missed(T[CHOOSE s \in dropped : \A r \in dropped : r <= s]))
<1>1. lost \in DropReasons /\ lost # "none"
  BY DEF DropReason, DropReasons
<1>2. CASE dropped # {}
  <2>1. DropOf(T, updated, old) = [reason |-> lost, fresh |-> TRUE]
    BY <1>2 DEF DropOf
  <2> HIDE DEF lost
  <2> QED
    BY <1>1, <2>1 DEF DropOK
<1>3. CASE dropped = {} /\ updated # {}
  <2>1. DropOf(T, updated, old) = NoDrop
    BY <1>3 DEF DropOf
  <2> QED
    BY <1>3, <2>1 DEF DropOK, NoDrop, DropReasons
<1>4. CASE dropped = {} /\ updated = {}
  <2>1. DropOf(T, updated, old) = [old EXCEPT !.fresh = FALSE]
    BY <1>4 DEF DropOf
  <2> QED
    BY <1>4, <2>1 DEF DropOK
<1> QED
  BY <1>2, <1>3, <1>4

(* The two things a frame can do to a slot. *)
SlotForm(s) ==
  \E ticks \in Elapses :
     \/ tracks'[s] = AgeTrack(Elapse(tracks[s], ticks))
     \/ \E o \in Observations, pir \in BOOLEAN, configured \in BOOLEAN :
          tracks'[s] = UpdateTrack(Elapse(tracks[s], ticks), o, pir, configured)

(* What that means for the slot, however it was computed. *)
SlotStep(s) ==
  /\ SlotForm(s)
  /\ tracks'[s] \in TrackType
  /\ tracks'[s].state = "tentative" => tracks'[s].missed <= TentativeLimit
  /\ tracks'[s].state = "confirmed" => tracks'[s].missed = 0
  /\ tracks'[s].state = "coasting"  => tracks'[s].missed <= CoastingLimit(tracks'[s])
  /\ IsStable(tracks[s]) =>
       \/ IsStable(tracks'[s]) /\ tracks'[s].missed \in {0, tracks[s].missed + 1}
       \/ /\ tracks'[s] = IdleTrack
          /\ tracks[s].missed >= ExitLimit
          /\ drop'.fresh /\ drop'.reason # "none"

LEMMA BlockedFrameStep ==
  ASSUME TypeOK, NEW ticks \in Elapses, BlockedFrame(ticks)
  PROVE  DropOK(drop') /\ \A s \in Slots : SlotStep(s)
<1> DEFINE now == Advance(ticks)
<1>1. DropOK(drop)
  BY DEF TypeOK, DropOK
<1>2. drop' = DropOf(now, {}, drop)
  BY DEF BlockedFrame
<1>3. DropOK(drop')
  BY <1>1, <1>2, DropOfType
<1>4. ASSUME NEW s \in Slots
      PROVE  SlotStep(s)
  <2>1. /\ now[s] \in TrackType
        /\ now[s].state = tracks[s].state
        /\ now[s].missed = tracks[s].missed
    BY AdvanceType
  <2>2. tracks'[s] = AgeTrack(now[s])
    BY DEF BlockedFrame
  <2>0. SlotForm(s)
    BY <2>2 DEF SlotForm, Advance
  <2>3. IsStable(now[s]) /\ Expires(Missed(now[s])) => s \in DroppedSlots(now, {})
    BY DEF DroppedSlots
  <2>4. s \in DroppedSlots(now, {}) => drop'.fresh /\ drop'.reason # "none"
    BY <1>1, <1>2, DropOfType
  <2> HIDE DEF now
  <2> QED
    BY <2>0, <2>1, <2>2, <2>3, <2>4, AgeTrackType DEF SlotStep, IsStable
<1> QED
  BY <1>3, <1>4

LEMMA TrackFrameStep ==
  ASSUME TypeOK, NEW ticks \in Elapses, NEW pir \in BOOLEAN, NEW valid, TrackFrame(ticks, pir, valid)
  PROVE  DropOK(drop') /\ \A s \in Slots : SlotStep(s)
<1>1. PICK configured \in RoomConfigured, obs \in [valid -> Observations],
           assoc \in Associations(tracks, valid) :
             Update(ticks, pir, configured, valid, obs, assoc)
  BY DEF TrackFrame
<1> DEFINE now       == Advance(ticks)
           matched   == Matched(now, obs, assoc, pir, configured)
           newcomers == Newcomers(matched, valid, assoc)
           opened    == Opened(matched, obs, newcomers, pir, configured)
           updated   == DOMAIN assoc \cup {p[1] : p \in newcomers}
<1>2. configured \in BOOLEAN
  BY InputAssumption
<1>3. DropOK(drop)
  BY DEF TypeOK, DropOK
<1>4. drop' = DropOf(opened, updated, drop)
  BY <1>1 DEF Update
<1>5. DropOK(drop')
  BY <1>3, <1>4, DropOfType
<1>6. ASSUME NEW s \in Slots
      PROVE  SlotStep(s)
  <2>1. /\ now \in [Slots -> TrackType]
        /\ now[s].state = tracks[s].state
        /\ now[s].missed = tracks[s].missed
    BY AdvanceType
  <2>2. tracks'[s] = IF s \in updated THEN opened[s] ELSE AgeTrack(opened[s])
    BY <1>1 DEF Update
  <2>3. /\ opened[s] \in TrackType
        /\ s \notin updated => opened[s] = now[s]
        /\ s \in updated =>
             /\ opened[s].missed = 0
             /\ opened[s].state \in {"tentative", "confirmed"}
             /\ IsStable(now[s]) => opened[s].state = "confirmed"
             /\ \E o \in Observations : opened[s] = UpdateTrack(now[s], o, pir, configured)
    BY <1>2, <2>1, SlotUpdate
  <2>4. s \notin updated /\ IsStable(opened[s]) /\ Expires(Missed(opened[s]))
          => s \in DroppedSlots(opened, updated)
    BY DEF DroppedSlots
  <2>5. s \in DroppedSlots(opened, updated) => drop'.fresh /\ drop'.reason # "none"
    BY <1>3, <1>4, DropOfType
  <2> HIDE DEF opened, updated
  <2>0. SlotForm(s)
    BY <1>2, <2>2, <2>3 DEF SlotForm, Advance
  <2> HIDE DEF now
  <2>6. CASE s \in updated
    BY <2>0, <2>1, <2>2, <2>3, <2>6, PolicyAssumption DEF SlotStep, IsStable
  <2>7. CASE s \notin updated
    BY <2>0, <2>1, <2>2, <2>3, <2>4, <2>5, <2>7, AgeTrackType DEF SlotStep, IsStable
  <2> QED
    BY <2>6, <2>7
<1> QED
  BY <1>5, <1>6

LEMMA NextStep ==
  ASSUME TypeOK, Next
  PROVE  DropOK(drop') /\ \A s \in Slots : SlotStep(s)
BY BlockedFrameStep, TrackFrameStep DEF Next

LEMMA NextDomain ==
  ASSUME Next
  PROVE  tracks' = [s \in Slots |-> tracks'[s]]
<1>1. ASSUME NEW ticks, BlockedFrame(ticks)
      PROVE  tracks' = [s \in Slots |-> tracks'[s]]
  BY <1>1 DEF BlockedFrame
<1>2. ASSUME NEW ticks, NEW pir, NEW valid, TrackFrame(ticks, pir, valid)
      PROVE  tracks' = [s \in Slots |-> tracks'[s]]
  <2>1. PICK configured \in RoomConfigured, obs \in [valid -> Observations],
             assoc \in Associations(tracks, valid) :
               Update(ticks, pir, configured, valid, obs, assoc)
    BY <1>2 DEF TrackFrame
  <2> DEFINE matched   == Matched(Advance(ticks), obs, assoc, pir, configured)
             newcomers == Newcomers(matched, valid, assoc)
             opened    == Opened(matched, obs, newcomers, pir, configured)
             updated   == DOMAIN assoc \cup {p[1] : p \in newcomers}
  <2>2. tracks' = [s \in Slots |-> IF s \in updated THEN opened[s] ELSE AgeTrack(opened[s])]
    BY <2>1 DEF Update
  <2> HIDE DEF opened, updated
  <2> QED
    BY <2>2
<1> QED
  BY <1>1, <1>2 DEF Next

LEMMA InitType == Init => TypeOK /\ CoastingWithinBudget
<1> SUFFICES ASSUME Init PROVE TypeOK /\ CoastingWithinBudget
  OBVIOUS
<1>1. TypeOK
  BY IdleTrackType DEF Init, TypeOK, NoDrop, DropReasons
<1>2. CoastingWithinBudget
  BY DEF Init, CoastingWithinBudget, IdleTrack
<1> QED
  BY <1>1, <1>2

LEMMA NextType == TypeOK /\ [Next]_trackerVars => TypeOK'
<1> SUFFICES ASSUME TypeOK, [Next]_trackerVars PROVE TypeOK'
  OBVIOUS
<1>1. CASE Next
  <2>1. tracks' \in [Slots -> TrackType]
    BY <1>1, NextStep, NextDomain DEF SlotStep
  <2> QED
    BY <1>1, <2>1, NextStep DEF TypeOK, DropOK
<1>2. CASE UNCHANGED trackerVars
  BY <1>2 DEF trackerVars, TypeOK, TrackType
<1> QED
  BY <1>1, <1>2

-----------------------------------------------------------------------------
(***************************************************************************)
(* Type correctness: whatever the sensor reports, however late the loop    *)
(* runs, every slot holds a well-formed record (hit history within its     *)
(* window, counters within their range) and a reported loss has a reason.  *)
(***************************************************************************)
THEOREM TypeCorrectness == Spec => []TypeOK
<1>1. Init => TypeOK
  BY InitType
<1> QED
  BY <1>1, NextType, PTL DEF Spec

(***************************************************************************)
(* No track outlives the missed frames its state and evidence allow, for   *)
(* every number of slots and targets and for every policy.                 *)
(***************************************************************************)
THEOREM TracksStayWithinBudget == Spec => []CoastingWithinBudget
<1>1. Init => CoastingWithinBudget
  BY InitType
<1>2. TypeOK /\ CoastingWithinBudget /\ [Next]_trackerVars => CoastingWithinBudget'
  <2> SUFFICES ASSUME TypeOK, CoastingWithinBudget, [Next]_trackerVars
               PROVE  CoastingWithinBudget'
    OBVIOUS
  <2>1. CASE Next
    BY <2>1, NextStep DEF SlotStep, CoastingWithinBudget
  <2>2. CASE UNCHANGED trackerVars
    BY <2>2 DEF trackerVars, CoastingWithinBudget
  <2> QED
    BY <2>1, <2>2
<1> QED
  BY <1>1, <1>2, TypeCorrectness, PTL DEF Spec

(***************************************************************************)
(* A stable track is neither demoted nor taken over, and is forgotten only  *)
(* after more than ExitLimit missed frames in a row.                        *)
(***************************************************************************)
THEOREM StableTracksPersist == Spec => StableTrackPersists
<1>1. TypeOK /\ [Next]_trackerVars =>
        [\A s \in Slots :
           IsStable(tracks[s]) =>
             \/ IsStable(tracks'[s]) /\ tracks'[s].missed \in {0, tracks[s].missed + 1}
             \/ tracks'[s] = IdleTrack /\ tracks[s].missed >= ExitLimit]_trackerVars
  BY NextStep DEF SlotStep
<1> QED
  BY <1>1, TypeCorrectness, PTL DEF Spec, StableTrackPersists

(***************************************************************************)
(* Every frame that forgets a stable track reports a loss with its reason,  *)
(* also when the same frame updates other tracks.                           *)
(***************************************************************************)
THEOREM LossesAreReported == Spec => LossIsReported
<1>1. TypeOK /\ [Next]_trackerVars =>
        [\A s \in Slots :
           IsStable(tracks[s]) /\ ~IsStable(tracks'[s]) =>
             drop'.fresh /\ drop'.reason # "none"]_trackerVars
  BY NextStep DEF SlotStep
<1> QED
  BY <1>1, TypeCorrectness, PTL DEF Spec, LossIsReported
(* A slot is only idle once its record was cleared. *)
IdleIsBlank == \A s \in Slots : tracks[s].state = "idle" => tracks[s].frames = 0

LEMMA FreshSlot ==
  ASSUME TypeOK, IdleIsBlank, Next, NEW s \in Slots
  PROVE  /\ tracks'[s].state = "idle" => tracks'[s].frames = 0
         /\ tracks[s].state = "idle" => ~IsStable(tracks'[s])
<1>1. PICK ticks \in Elapses :
        \/ tracks'[s] = AgeTrack(Elapse(tracks[s], ticks))
        \/ \E o \in Observations, pir \in BOOLEAN, configured \in BOOLEAN :
             tracks'[s] = UpdateTrack(Elapse(tracks[s], ticks), o, pir, configured)
  BY NextStep DEF SlotStep, SlotForm
<1> DEFINE t == Elapse(tracks[s], ticks)
<1>2. tracks[s] \in TrackType /\ ticks \in Nat
  BY InputAssumption DEF TypeOK
<1>3. /\ t \in TrackType /\ t.state = tracks[s].state /\ t.frames = tracks[s].frames
      /\ t.state = "idle" => t.frames = 0
  <2>1. t \in TrackType /\ t.state = tracks[s].state
    BY <1>2, ElapseType
  <2>2. t.frames = tracks[s].frames
    BY <1>2 DEF Elapse, TrackType
  <2> QED
    BY <2>1, <2>2 DEF IdleIsBlank
<1> HIDE DEF t
<1>4. CASE tracks'[s] = AgeTrack(t)
  <2>1. CASE t.state = "idle"
    BY <1>3, <1>4, <2>1 DEF AgeTrack, IsStable
  <2>2. CASE t.state # "idle"
    <3>1. Missed(t) \in TrackType /\ Missed(t).state = t.state
      BY <1>3, MissedType
    <3>2. CASE Expires(Missed(t))
      BY <1>3, <1>4, <2>2, <3>2 DEF AgeTrack, IdleTrack
    <3>3. CASE ~Expires(Missed(t)) /\ IsStable(Missed(t))
      <4>1. AgeTrack(t) = [Missed(t) EXCEPT !.state = "coasting"]
        BY <2>2, <3>3, Zenon DEF AgeTrack
      <4>2. [Missed(t) EXCEPT !.state = "coasting"].state = "coasting"
        BY <3>1 DEF TrackType
      <4> QED
        BY <1>3, <1>4, <2>2, <4>1, <4>2
    <3>4. CASE ~Expires(Missed(t)) /\ ~IsStable(Missed(t))
      BY <1>3, <1>4, <2>2, <3>1, <3>4 DEF AgeTrack
    <3> QED
      BY <3>2, <3>3, <3>4
  <2> QED
    BY <2>1, <2>2
<1>5. ASSUME NEW o \in Observations, NEW pir \in BOOLEAN, NEW configured \in BOOLEAN,
             tracks'[s] = UpdateTrack(t, o, pir, configured)
      PROVE  /\ tracks'[s].state # "idle"
             /\ t.state = "idle" => tracks'[s].state = "tentative"
  BY <1>3, <1>5, UpdateTrackType, UpdateTrackEvidence
<1> QED
  BY <1>1, <1>3, <1>4, <1>5 DEF IsStable, t

(***************************************************************************)
(* A slot that was idle needs more than one frame to hold a stable track:   *)
(* a forgotten track leaves no history behind, whoever opens the next one.  *)
(***************************************************************************)
THEOREM FreshTracksWait == Spec => FreshTrackWaits
<1>1. Init => IdleIsBlank
  BY DEF Init, IdleIsBlank, IdleTrack
<1>2. TypeOK /\ IdleIsBlank /\ [Next]_trackerVars =>
        /\ IdleIsBlank'
        /\ [\A s \in Slots :
              tracks[s].state = "idle" => ~IsStable(tracks'[s])]_trackerVars
  <2> SUFFICES ASSUME TypeOK, IdleIsBlank, [Next]_trackerVars
               PROVE  /\ IdleIsBlank'
                      /\ [\A s \in Slots :
                            tracks[s].state = "idle" => ~IsStable(tracks'[s])]_trackerVars
    OBVIOUS
  <2>1. CASE Next
    BY <2>1, FreshSlot DEF IdleIsBlank
  <2>2. CASE UNCHANGED trackerVars
    BY <2>2 DEF trackerVars, IdleIsBlank
  <2> QED
    BY <2>1, <2>2
<1> QED
  BY <1>1, <1>2, TypeCorrectness, PTL DEF Spec, FreshTrackWaits

-----------------------------------------------------------------------------
(* The tracker's part of a tick is a step of PresenceTracker. *)

LEMMA TickIsNext ==
  ASSUME NEW ticks \in Elapses, NEW pir \in BOOLEAN, NEW blocked \in BOOLEAN, NEW static,
         NEW valid \in SUBSET Targets, Tick(ticks, pir, blocked, static, valid)
  PROVE  Next
BY Zenon DEF Tick, Next

(* The drop record as the fusion reads it. *)
LEMMA OutputOfDrop ==
  ASSUME NEW T, NEW d, DropOK(d)
  PROVE  LET tr == TrackerOutput(T, d)
         IN  /\ tr.newDrop = d.fresh
             /\ tr.exitDrop = (d.reason \in ExitDrops)
             /\ tr.presence = (StableSlots(T) # {})
             /\ tr.tracks = Cardinality(StableSlots(T))
             /\ tr.confirmed = (\E s \in Slots : T[s].state = "confirmed")
             /\ tr.motion => tr.presence
<1>1. d.fresh \in BOOLEAN /\ (d.fresh => d.reason # "none")
  BY DEF DropOK
<1>2. (\E s \in Slots : T[s].state = "confirmed" /\ T[s].moving) => StableSlots(T) # {}
  BY DEF StableSlots, IsStable
<1> QED
  BY <1>1, <1>2 DEF TrackerOutput

-----------------------------------------------------------------------------
(* The operators of the fusion on one session. *)

LEMMA CappedType ==
  ASSUME NEW n \in Nat, NEW cap \in Nat
  PROVE  /\ Capped(n, cap) \in 0 .. cap
         /\ Capped(n, cap) <= n
         /\ Capped(n, cap) < cap => Capped(n, cap) = n
BY DEF Capped

LEMMA NoSessionType == NoSession \in AssistType
BY FusionAssumption DEF NoSession, AssistType

(* The three record updates the fusion makes. *)
LEMMA ArmUpdate ==
  ASSUME NEW a \in AssistType, NEW x \in BOOLEAN, NEW p \in BOOLEAN, NEW n \in 0 .. ArmTicks
  PROVE  LET u == [a EXCEPT !.armed = x, !.pending = p, !.armElapsed = n]
         IN  /\ u \in AssistType
             /\ u.armed = x /\ u.pending = p /\ u.armElapsed = n
             /\ u.veto = a.veto /\ u.reentry = a.reentry
             /\ u.reentryElapsed = a.reentryElapsed
BY DEF AssistType

LEMMA PendingUpdate ==
  ASSUME NEW a \in AssistType, NEW p \in BOOLEAN, NEW n \in 0 .. ArmTicks
  PROVE  LET u == [a EXCEPT !.pending = p, !.armElapsed = n]
         IN  /\ u \in AssistType
             /\ u.pending = p /\ u.armElapsed = n
             /\ u.armed = a.armed /\ u.veto = a.veto /\ u.reentry = a.reentry
             /\ u.reentryElapsed = a.reentryElapsed
BY DEF AssistType

LEMMA ReentryUpdate ==
  ASSUME NEW a \in AssistType, NEW r \in BOOLEAN, NEW n \in 0 .. ReentryTicks
  PROVE  LET u == [a EXCEPT !.reentry = r, !.reentryElapsed = n]
         IN  /\ u \in AssistType
             /\ u.reentry = r /\ u.reentryElapsed = n
             /\ u.armed = a.armed /\ u.veto = a.veto /\ u.pending = a.pending
             /\ u.armElapsed = a.armElapsed
BY DEF AssistType

LEMMA ElapsedType ==
  ASSUME NEW a \in AssistType, NEW ticks \in Nat
  PROVE  LET e == Elapsed(a, ticks)
         IN  /\ e \in AssistType
             /\ e.armed = a.armed /\ e.pending = a.pending
             /\ e.veto = a.veto /\ e.reentry = a.reentry
             /\ a.pending => e.armElapsed = Capped(a.armElapsed + ticks, ArmTicks)
             /\ a.reentry => e.reentryElapsed = Capped(a.reentryElapsed + ticks, ReentryTicks)
<1> DEFINE arm == IF a.pending THEN Capped(a.armElapsed + ticks, ArmTicks) ELSE 0
           re  == IF a.reentry THEN Capped(a.reentryElapsed + ticks, ReentryTicks) ELSE 0
<1>1. arm \in 0 .. ArmTicks /\ re \in 0 .. ReentryTicks
  BY FusionAssumption DEF AssistType, Capped
<1>2. Elapsed(a, ticks) = [a EXCEPT !.armElapsed = arm, !.reentryElapsed = re]
  BY DEF Elapsed
<1>3. /\ a.pending => arm = Capped(a.armElapsed + ticks, ArmTicks)
      /\ a.reentry => re = Capped(a.reentryElapsed + ticks, ReentryTicks)
  OBVIOUS
<1> HIDE DEF arm, re
<1> QED
  BY <1>1, <1>2, <1>3 DEF AssistType

(* Without stable presence an armed session is one inside its window. *)
LEMMA SessionType ==
  ASSUME NEW a \in AssistType, NEW stable \in BOOLEAN, NEW blocked \in BOOLEAN,
         previousStable \in BOOLEAN
  PROVE  LET s == SessionAfterStable(a, stable, blocked)
         IN  /\ s \in AssistType
             /\ \/ s = NoSession /\ ~stable
                \/ /\ s.armed = a.armed /\ s.pending = a.pending /\ s.veto = a.veto
                   /\ s.armElapsed = a.armElapsed
                   /\ stable => ~s.reentry
                   /\ ~stable => /\ s.reentry /\ ~blocked
                                 /\ s.reentryElapsed < ReentryTicks
                                 /\ \/ a.reentry /\ s.reentryElapsed = a.reentryElapsed
                                    \/ previousStable
<1> DEFINE opened == IF previousStable /\ ~stable /\ a.armed /\ ~a.veto /\ ~blocked
                     THEN [a EXCEPT !.reentry = TRUE, !.reentryElapsed = 0] ELSE a
           over   == \/ ~opened.reentry
                     \/ opened.reentryElapsed >= ReentryTicks
                     \/ blocked
<1> DEFINE closed == [a EXCEPT !.reentry = FALSE, !.reentryElapsed = 0]
           window == [a EXCEPT !.reentry = TRUE, !.reentryElapsed = 0]
<1>0. 0 \in 0 .. ReentryTicks /\ TRUE \in BOOLEAN /\ FALSE \in BOOLEAN
  BY FusionAssumption
<1>1. SessionAfterStable(a, stable, blocked) =
        IF stable THEN closed ELSE IF over THEN NoSession ELSE opened
  BY DEF SessionAfterStable
<1>2. /\ closed \in AssistType /\ ~closed.reentry
      /\ closed.armed = a.armed /\ closed.pending = a.pending /\ closed.veto = a.veto
      /\ closed.armElapsed = a.armElapsed
  BY <1>0, ReentryUpdate, Zenon
<1>3. /\ window \in AssistType
      /\ window.armed = a.armed /\ window.pending = a.pending /\ window.veto = a.veto
      /\ window.armElapsed = a.armElapsed
  BY <1>0, ReentryUpdate, Zenon
<1> HIDE DEF closed, window
<1>4. (opened = window /\ previousStable) \/ opened = a
  BY Zenon DEF window
<1> HIDE DEF opened
<1>5. CASE stable
  BY <1>1, <1>2, <1>5, Zenon
<1>6. CASE ~stable /\ over
  BY <1>1, <1>6, NoSessionType, Zenon
<1>7. CASE ~stable /\ ~over
  <2>1. opened \in AssistType
    BY <1>3, <1>4, Zenon
  <2>2. /\ opened.reentry /\ ~blocked
        /\ opened.reentryElapsed < ReentryTicks
    BY <1>7, <2>1, FusionAssumption DEF AssistType
  <2>3. SessionAfterStable(a, stable, blocked) = opened
    BY <1>1, <1>7, Zenon
  <2> QED
    BY <1>3, <1>4, <1>7, <2>1, <2>2, <2>3, Zenon
<1> QED
  BY <1>5, <1>6, <1>7, Zenon

LEMMA VetoUpdate ==
  ASSUME NEW a \in AssistType, NEW w \in BOOLEAN
  PROVE  LET v == [a EXCEPT !.veto = w]
         IN  /\ v \in AssistType
             /\ v.armed = a.armed /\ v.pending = a.pending /\ v.armElapsed = a.armElapsed
             /\ v.reentry = a.reentry /\ v.reentryElapsed = a.reentryElapsed
             /\ v.veto = w
BY DEF AssistType

LEMMA ArmedType ==
  ASSUME NEW a \in AssistType, NEW canArm \in BOOLEAN
  PROVE  LET r == Armed(a, canArm)
         IN  /\ r \in AssistType
             /\ r.veto = a.veto /\ r.reentry = a.reentry
             /\ r.reentryElapsed = a.reentryElapsed
             /\ a.armed => r = a
             /\ ~a.armed /\ r.armed =>
                  canArm /\ a.pending /\ a.armElapsed >= ArmTicks /\ ~r.pending
             /\ ~a.armed /\ r.pending =>
                  canArm /\ (r.armElapsed = 0 \/ (a.pending /\ r.armElapsed = a.armElapsed))
<1>0. 0 \in 0 .. ArmTicks /\ TRUE \in BOOLEAN /\ FALSE \in BOOLEAN
  BY FusionAssumption
<1>1. CASE a.armed
  BY <1>1 DEF Armed
<1>2. CASE ~a.armed /\ ~canArm
  <2> DEFINE u == [a EXCEPT !.pending = FALSE, !.armElapsed = 0]
  <2>1. Armed(a, canArm) = u
    BY <1>2 DEF Armed
  <2>2. /\ u \in AssistType
        /\ u.pending = FALSE /\ u.armElapsed = 0
        /\ u.armed = a.armed /\ u.veto = a.veto /\ u.reentry = a.reentry
        /\ u.reentryElapsed = a.reentryElapsed
    BY <1>0, PendingUpdate
  <2> HIDE DEF u
  <2> QED
    BY <1>2, <2>1, <2>2, Zenon
<1>3. CASE ~a.armed /\ canArm /\ ~a.pending
  <2> DEFINE u == [a EXCEPT !.pending = TRUE, !.armElapsed = 0]
  <2>1. Armed(a, canArm) = u
    BY <1>3 DEF Armed
  <2>2. /\ u \in AssistType
        /\ u.pending = TRUE /\ u.armElapsed = 0
        /\ u.armed = a.armed /\ u.veto = a.veto /\ u.reentry = a.reentry
        /\ u.reentryElapsed = a.reentryElapsed
    BY <1>0, PendingUpdate
  <2> HIDE DEF u
  <2> QED
    BY <1>3, <2>1, <2>2, Zenon
<1>4. CASE ~a.armed /\ canArm /\ a.pending
  <2> DEFINE u == [a EXCEPT !.armed = TRUE, !.pending = FALSE, !.armElapsed = 0]
  <2>1. Armed(a, canArm) = IF a.armElapsed >= ArmTicks THEN u ELSE a
    BY <1>4 DEF Armed
  <2>2. /\ u \in AssistType
        /\ u.armed = TRUE /\ u.pending = FALSE /\ u.armElapsed = 0
        /\ u.veto = a.veto /\ u.reentry = a.reentry
        /\ u.reentryElapsed = a.reentryElapsed
    BY <1>0, ArmUpdate
  <2> HIDE DEF u
  <2> QED
    BY <1>4, <2>1, <2>2, Zenon
<1> QED
  BY <1>1, <1>2, <1>3, <1>4
-----------------------------------------------------------------------------
(* One update of the fusion. *)

FusionTypeOK ==
  /\ assist \in AssistType
  /\ previousPir \in BOOLEAN /\ previousStable \in BOOLEAN /\ spatialTarget \in BOOLEAN
  /\ fused \in [presence : BOOLEAN, motion : BOOLEAN, active : BOOLEAN, held : BOOLEAN]

(* The session the update starts from. *)
Session(ticks, stable, blocked) ==
  SessionAfterStable(Elapsed(assist, ticks), stable, blocked)

(* Without stable presence it is a new one, or one inside its window. *)
SessionOutcome(s, ticks, stable, blocked) ==
  \/ ~stable /\ ~s.armed /\ ~s.pending /\ ~s.veto /\ ~s.reentry
  \/ /\ s.armed = assist.armed /\ s.pending = assist.pending /\ s.veto = assist.veto
     /\ s.pending => s.armElapsed = Capped(assist.armElapsed + ticks, ArmTicks)
     /\ stable => ~s.reentry
     /\ ~stable =>
          /\ s.reentry /\ ~blocked /\ s.reentryElapsed < ReentryTicks
          /\ \/ previousStable
             \/ /\ assist.reentry
                /\ s.reentryElapsed = Capped(assist.reentryElapsed + ticks, ReentryTicks)

LEMMA SessionStep ==
  ASSUME FusionTypeOK, NEW ticks \in Nat, NEW stable \in BOOLEAN, NEW blocked \in BOOLEAN
  PROVE  LET s == Session(ticks, stable, blocked)
         IN  s \in AssistType /\ SessionOutcome(s, ticks, stable, blocked)
<1> DEFINE e == Elapsed(assist, ticks)
           s == SessionAfterStable(e, stable, blocked)
<1>1. /\ e \in AssistType
      /\ e.armed = assist.armed /\ e.pending = assist.pending
      /\ e.veto = assist.veto /\ e.reentry = assist.reentry
      /\ assist.pending => e.armElapsed = Capped(assist.armElapsed + ticks, ArmTicks)
      /\ assist.reentry =>
           e.reentryElapsed = Capped(assist.reentryElapsed + ticks, ReentryTicks)
  BY ElapsedType DEF FusionTypeOK
<1> HIDE DEF e
<1>2. previousStable \in BOOLEAN
  BY DEF FusionTypeOK
<1>3. /\ s \in AssistType
      /\ \/ s = NoSession /\ ~stable
         \/ /\ s.armed = e.armed /\ s.pending = e.pending /\ s.veto = e.veto
            /\ s.armElapsed = e.armElapsed
            /\ stable => ~s.reentry
            /\ ~stable => /\ s.reentry /\ ~blocked
                          /\ s.reentryElapsed < ReentryTicks
                          /\ \/ e.reentry /\ s.reentryElapsed = e.reentryElapsed
                             \/ previousStable
  BY <1>1, <1>2, SessionType
<1>4. Session(ticks, stable, blocked) = s
  BY DEF Session, e
<1> HIDE DEF s
<1>5. CASE s = NoSession /\ ~stable
  BY <1>3, <1>4, <1>5 DEF NoSession, SessionOutcome
<1>6. CASE ~(s = NoSession /\ ~stable)
  BY <1>1, <1>3, <1>4, <1>6, Zenon DEF SessionOutcome
<1> QED
  BY <1>5, <1>6

OutputOK(tr) ==
  /\ tr.presence \in BOOLEAN /\ tr.motion \in BOOLEAN /\ tr.confirmed \in BOOLEAN
  /\ tr.newDrop \in BOOLEAN /\ tr.exitDrop \in BOOLEAN

(* What an update does, as far as the invariants need to know. *)
FuseOutcome(ticks, pir, blocked, stable, static, tr) ==
  LET s    == Session(ticks, stable, blocked)
      base == pir \/ (~blocked /\ tr.presence)
  IN  /\ previousPir' = pir /\ previousStable' = stable
      /\ assist'.veto = ((IF tr.newDrop THEN tr.exitDrop ELSE s.veto)
                         /\ ~(tr.confirmed \/ (pir /\ ~previousPir /\ stable)))
      /\ assist'.reentry = s.reentry /\ assist'.reentryElapsed = s.reentryElapsed
      /\ s.armed => /\ assist'.armed /\ assist'.pending = s.pending
                    /\ assist'.armElapsed = s.armElapsed
      /\ ~s.armed /\ assist'.armed =>
           /\ ~blocked /\ ~assist'.veto /\ base /\ static
           /\ s.pending /\ s.armElapsed >= ArmTicks /\ ~assist'.pending
      /\ ~s.armed /\ assist'.pending =>
           /\ ~blocked /\ base /\ static
           /\ assist'.armElapsed = 0 \/ (s.pending /\ assist'.armElapsed = s.armElapsed)
      /\ fused'.active => ~blocked /\ ~assist'.veto /\ assist'.armed /\ ~base
      /\ fused'.held => fused'.active /\ spatialTarget'
      /\ fused'.presence = (base \/ fused'.active)
      /\ fused'.motion => ~blocked /\ (pir \/ tr.motion)
      /\ spatialTarget' => /\ tr.tracks = 1 \/ (tr.tracks = 0 /\ spatialTarget)
                           /\ ~(tr.newDrop /\ tr.exitDrop)

LEMMA FuseStep ==
  ASSUME FusionTypeOK, NEW ticks \in Nat, NEW pir \in BOOLEAN, NEW blocked \in BOOLEAN,
         NEW stable \in BOOLEAN, NEW static \in BOOLEAN, NEW tr, OutputOK(tr),
         Fuse(ticks, pir, blocked, stable, static, tr)
  PROVE  FusionTypeOK' /\ FuseOutcome(ticks, pir, blocked, stable, static, tr)
<1> DEFINE s      == Session(ticks, stable, blocked)
           base   == pir \/ (~blocked /\ tr.presence)
           vetoed == Vetoed(s, tr.newDrop, tr.exitDrop, tr.confirmed, pir, stable)
           canArm == ~blocked /\ ~vetoed.veto /\ base /\ static
           armed  == Armed(vetoed, canArm)
           active == ~blocked /\ ~armed.veto /\ armed.armed /\ static /\ ~base
           reset  == SessionReset(Elapsed(assist, ticks), stable, blocked)
           target == RetainedTarget(tr, reset)
           moving == ~blocked /\ (pir \/ tr.motion)
           held   == active /\ target
<1>1. /\ assist' = armed /\ previousPir' = pir /\ previousStable' = stable
      /\ spatialTarget' = target
      /\ fused' = [presence |-> base \/ active, motion |-> moving,
                   active |-> active, held |-> held]
  BY Zenon DEF Fuse, Session
<1>2. s \in AssistType
  BY SessionStep
<1> HIDE DEF s
<1>3. /\ vetoed \in AssistType
      /\ vetoed.armed = s.armed /\ vetoed.pending = s.pending
      /\ vetoed.armElapsed = s.armElapsed
      /\ vetoed.reentry = s.reentry /\ vetoed.reentryElapsed = s.reentryElapsed
      /\ vetoed.veto = ((IF tr.newDrop THEN tr.exitDrop ELSE s.veto)
                        /\ ~(tr.confirmed \/ (pir /\ ~previousPir /\ stable)))
  <2> DEFINE w == (IF tr.newDrop THEN tr.exitDrop ELSE s.veto)
                  /\ ~(tr.confirmed \/ (pir /\ ~previousPir /\ stable))
  <2>1. vetoed = [s EXCEPT !.veto = w]
    BY Zenon DEF Vetoed
  <2>2. w \in BOOLEAN
    OBVIOUS
  <2>3. w = ((IF tr.newDrop THEN tr.exitDrop ELSE s.veto)
             /\ ~(tr.confirmed \/ (pir /\ ~previousPir /\ stable)))
    OBVIOUS
  <2> HIDE DEF w, vetoed
  <2>4. LET v == [s EXCEPT !.veto = w]
        IN  /\ v \in AssistType
            /\ v.armed = s.armed /\ v.pending = s.pending /\ v.armElapsed = s.armElapsed
            /\ v.reentry = s.reentry /\ v.reentryElapsed = s.reentryElapsed
            /\ v.veto = w
    BY <1>2, <2>2, VetoUpdate
  <2> QED
    BY <2>1, <2>3, <2>4, Zenon
<1> HIDE DEF vetoed
<1>4. base \in BOOLEAN /\ canArm \in BOOLEAN
  BY DEF OutputOK
<1> HIDE DEF base
<1>5. /\ armed \in AssistType
      /\ armed.veto = vetoed.veto /\ armed.reentry = vetoed.reentry
      /\ armed.reentryElapsed = vetoed.reentryElapsed
      /\ vetoed.armed => armed = vetoed
      /\ ~vetoed.armed /\ armed.armed =>
           canArm /\ vetoed.pending /\ vetoed.armElapsed >= ArmTicks /\ ~armed.pending
      /\ ~vetoed.armed /\ armed.pending =>
           canArm /\ (armed.armElapsed = 0
                      \/ (vetoed.pending /\ armed.armElapsed = vetoed.armElapsed))
  <2>1. vetoed \in AssistType /\ canArm \in BOOLEAN
    BY <1>3, <1>4
  <2> HIDE DEF canArm
  <2>2. PICK c \in BOOLEAN : c = canArm
    BY <2>1
  <2>3. LET r == Armed(vetoed, c)
        IN  /\ r \in AssistType
            /\ r.veto = vetoed.veto /\ r.reentry = vetoed.reentry
            /\ r.reentryElapsed = vetoed.reentryElapsed
            /\ vetoed.armed => r = vetoed
            /\ ~vetoed.armed /\ r.armed =>
                 c /\ vetoed.pending /\ vetoed.armElapsed >= ArmTicks /\ ~r.pending
            /\ ~vetoed.armed /\ r.pending =>
                 c /\ (r.armElapsed = 0
                       \/ (vetoed.pending /\ r.armElapsed = vetoed.armElapsed))
    BY <2>1, ArmedType
  <2> QED
    BY <2>2, <2>3, Zenon
<1> HIDE DEF armed
<1>6. active \in BOOLEAN /\ (active => ~blocked /\ ~armed.veto /\ armed.armed /\ ~base)
  OBVIOUS
<1> HIDE DEF active
<1>7. /\ target \in BOOLEAN
      /\ target => /\ tr.tracks = 1 \/ (tr.tracks = 0 /\ spatialTarget)
                   /\ ~(tr.newDrop /\ tr.exitDrop)
  BY DEF RetainedTarget
<1> HIDE DEF target, reset
<1>8. /\ moving \in BOOLEAN /\ held \in BOOLEAN
      /\ moving => ~blocked /\ (pir \/ tr.motion)
      /\ held => active /\ target
  OBVIOUS
<1> HIDE DEF moving, held
<1>9. /\ fused' \in [presence : BOOLEAN, motion : BOOLEAN, active : BOOLEAN, held : BOOLEAN]
      /\ fused'.presence = (base \/ active) /\ fused'.motion = moving
      /\ fused'.active = active /\ fused'.held = held
  <2>1. (base \/ active) \in BOOLEAN
    OBVIOUS
  <2> QED
    BY <1>1, <1>6, <1>8, <2>1
<1>10. FusionTypeOK'
  BY <1>1, <1>5, <1>7, <1>9 DEF FusionTypeOK
<1> QED
  BY <1>1, <1>3, <1>5, <1>6, <1>7, <1>8, <1>9, <1>10, Zenon DEF canArm, base, s, FuseOutcome
-----------------------------------------------------------------------------
(***************************************************************************)
(* Publication.  Motion never outlives presence because its evidence is    *)
(* evidence of presence too, so the presence hold was restarted no earlier *)
(* than the motion hold, and is no shorter.                                *)
(***************************************************************************)
PublicationTypeOK ==
  /\ presence \in BOOLEAN /\ presenceIdle \in 0 .. PresenceHold
  /\ motion \in BOOLEAN /\ motionIdle \in 0 .. MotionHold

MotionIsYounger == motion => presence /\ presenceIdle <= motionIdle

LEMMA PublishStep ==
  ASSUME PublicationTypeOK, NEW ticks \in Nat, NEW p \in BOOLEAN, NEW m \in BOOLEAN,
         Publish(ticks, p, m)
  PROVE  /\ PublicationTypeOK'
         /\ p => presence'
         /\ presence' => p \/ presence
         /\ (m => p) /\ MotionIsYounger => MotionIsYounger'
<1> DEFINE wp == Capped(presenceIdle + ticks, PresenceHold)
           wm == Capped(motionIdle + ticks, MotionHold)
<1>1. /\ presence' = (p \/ (presence /\ wp < PresenceHold))
      /\ presenceIdle' = IF p THEN 0 ELSE wp
      /\ motion' = (m \/ (motion /\ wm < MotionHold))
      /\ motionIdle' = IF m THEN 0 ELSE wm
  BY DEF Publish, Debounce
<1>2. /\ wp \in 0 .. PresenceHold /\ wp <= presenceIdle + ticks
      /\ wm \in 0 .. MotionHold
      /\ wm < MotionHold => wm = motionIdle + ticks
  BY HoldAssumption DEF PublicationTypeOK, Capped
<1>3. /\ presenceIdle \in Nat /\ motionIdle \in Nat
      /\ PresenceHold \in Nat \ {0} /\ MotionHold \in Nat \ {0} /\ MotionHold <= PresenceHold
  BY HoldAssumption DEF PublicationTypeOK
<1> HIDE DEF wp, wm
<1>4. PublicationTypeOK'
  BY <1>1, <1>2, <1>3 DEF PublicationTypeOK
<1>5. ASSUME m => p, MotionIsYounger
      PROVE  MotionIsYounger'
  <2>1. CASE p
    BY <1>1, <1>2, <1>3, <2>1 DEF MotionIsYounger
  <2>2. CASE ~p
    BY <1>1, <1>2, <1>3, <1>5, <2>2 DEF MotionIsYounger
  <2> QED
    BY <2>1, <2>2
<1> QED
  BY <1>1, <1>4, <1>5

-----------------------------------------------------------------------------
(* One tick of the loop. *)

LEMMA TickStep ==
  ASSUME PipelineTypeOK,
         NEW ticks \in Elapses, NEW pir \in BOOLEAN, NEW blocked \in BOOLEAN,
         NEW static \in BOOLEAN, NEW valid \in SUBSET Targets,
         Tick(ticks, pir, blocked, static, valid)
  PROVE  LET tr == TrackerOutput(tracks', drop')
         IN  /\ PipelineTypeOK'
             /\ FusionTypeOK /\ ticks \in Nat /\ presence \in BOOLEAN /\ OutputOK(tr)
             /\ DropOK(drop')
             /\ FuseOutcome(ticks, pir, blocked, presence, static, tr)
             /\ fused'.presence => presence'
             /\ presence' => fused'.presence \/ presence
             /\ MotionIsYounger => MotionIsYounger'
<1> DEFINE tr == TrackerOutput(tracks', drop')
<1>1. TypeOK' /\ DropOK(drop')
  BY TickIsNext, NextType, NextStep DEF PipelineTypeOK
<1>2. FusionTypeOK /\ PublicationTypeOK /\ ticks \in Nat
  BY InputAssumption DEF PipelineTypeOK, FusionTypeOK, PublicationTypeOK
<1>3. OutputOK(tr)
  BY <1>1 DEF OutputOK, TrackerOutput, DropOK
<1>4. Fuse(ticks, pir, blocked, presence, static, tr)
  BY DEF Tick
<1>5. tr.motion => tr.presence
  BY <1>1, OutputOfDrop
<1> HIDE DEF tr
<1>6. presence \in BOOLEAN
  BY DEF PipelineTypeOK
<1>7. FusionTypeOK' /\ FuseOutcome(ticks, pir, blocked, presence, static, tr)
  BY <1>2, <1>3, <1>4, <1>6, FuseStep
<1>8. fused'.motion => fused'.presence
  BY <1>5, <1>7, Zenon DEF FuseOutcome
<1>9. Publish(ticks, fused'.presence, fused'.motion)
  BY DEF Tick
<1>10. fused'.presence \in BOOLEAN /\ fused'.motion \in BOOLEAN
  BY <1>7 DEF FusionTypeOK
<1>11. /\ PublicationTypeOK'
       /\ fused'.presence => presence'
       /\ presence' => fused'.presence \/ presence
       /\ MotionIsYounger => MotionIsYounger'
  BY <1>2, <1>8, <1>9, <1>10, PublishStep
<1>12. PipelineTypeOK'
  BY <1>1, <1>7, <1>11 DEF PipelineTypeOK, FusionTypeOK, PublicationTypeOK
<1> QED
  BY <1>1, <1>2, <1>3, <1>4, <1>6, <1>7, <1>11, <1>12 DEF tr
LEMMA PipelineInitType == PipelineInit => PipelineTypeOK
<1> SUFFICES ASSUME PipelineInit PROVE PipelineTypeOK
  OBVIOUS
<1>1. TypeOK
  BY InitType DEF PipelineInit
<1>2. assist \in AssistType
  BY NoSessionType DEF PipelineInit, FusionInit
<1>3. /\ previousPir \in BOOLEAN /\ previousStable \in BOOLEAN /\ spatialTarget \in BOOLEAN
      /\ presence \in BOOLEAN /\ motion \in BOOLEAN
  BY Zenon DEF PipelineInit, FusionInit
<1>4. fused \in [presence : BOOLEAN, motion : BOOLEAN, active : BOOLEAN, held : BOOLEAN]
  BY DEF PipelineInit, FusionInit
<1>5. presenceIdle \in 0 .. PresenceHold /\ motionIdle \in 0 .. MotionHold
  BY HoldAssumption DEF PipelineInit
<1> QED
  BY <1>1, <1>2, <1>3, <1>4, <1>5 DEF PipelineTypeOK
=============================================================================
