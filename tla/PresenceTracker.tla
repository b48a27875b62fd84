--------------------------- MODULE PresenceTracker ---------------------------
(***************************************************************************)
(* The LD2450 track lifecycle of                                           *)
(* src/components/radar_api_server/presence_tracker.cpp.                   *)
(*                                                                         *)
(* The sensor reports up to three targets every 500 ms.  PresenceTracker   *)
(* keeps one record per track slot; update() matches the reported targets  *)
(* with the tracks, confirms tracks that were hit often enough, ages the   *)
(* tracks nothing was matched with, and forgets them after a number of     *)
(* missed frames that depends on the evidence the track left behind: an    *)
(* exit zone it crossed recently, a crossing of the room boundary, or      *)
(* neither.                                                                *)
(*                                                                         *)
(* What is abstract.  Coordinates, the Kalman filter and the gate test are *)
(* replaced by their outcome: an injective partial map from tracks to      *)
(* targets (every such map is the result of associate_targets_ for some    *)
(* distances).  Time is counted from each stored time stamp, in loop       *)
(* ticks: the age of the exit evidence is kept instead of its time stamp,  *)
(* and is "stale" as soon as the code stops believing it.                  *)
(***************************************************************************)
EXTENDS Integers, FiniteSets

CONSTANTS
  NumTracks,        \* track slots (3)
  NumTargets,       \* target slots of one sensor frame (3)
  ConfirmWindow,    \* frames remembered per track (5)
  ConfirmHits,      \* hits that confirm a track (3)
  PirConfirmHits,   \* hits that confirm it while PIR sees motion (2)
  TentativeLimit,   \* missed frames a tentative track survives (3)
  ExitLimit,        \* missed frames after recent exit evidence (4)
  GeneralLimit,     \* missed frames after a room exit or old exit evidence (12)
  NonExitLimit,     \* missed frames when no exit zone was ever seen (24)
  ExitMaxAge,       \* ticks exit evidence stays recent (16 = 8 s)
  Elapses,          \* ticks that may pass between two updates
  Observations,     \* what a target may report, see ObservationOK
  RoomConfigured    \* the values floorplan_room().configured may take

Slots   == 1 .. NumTracks
Targets == 1 .. NumTargets

NoExit == -1                     \* exit_zone_mask = 0
Stale  == ExitMaxAge + 1         \* exit_zone_mask # 0, evidence not recent
NoDistance == 0                  \* room_distance_valid = false

(***************************************************************************)
(* One target of a frame: is it in an exit zone, is its speed above the    *)
(* moving threshold, its signed distance from the room boundary (positive  *)
(* inside) and the confidence margin of the track that takes it, which     *)
(* follows from the track's covariance and changes from sample to sample.   *)
(***************************************************************************)
ObservationOK(o) ==
  /\ DOMAIN o = {"exit", "moving", "distance", "margin"}
  /\ o.exit \in BOOLEAN
  /\ o.moving \in BOOLEAN
  /\ o.distance \in Int \ {NoDistance}
  /\ o.margin \in Nat

ASSUME PolicyAssumption ==
  /\ NumTracks \in Nat \ {0}
  /\ NumTargets \in Nat
  /\ ConfirmWindow \in 1 .. 8
  /\ PirConfirmHits \in 2 .. ConfirmHits
  /\ ConfirmHits \in 1 .. ConfirmWindow
  /\ TentativeLimit \in Nat
  /\ ExitLimit \in Nat
  /\ GeneralLimit \in Nat
  /\ NonExitLimit \in Nat
  /\ ExitLimit <= GeneralLimit
  /\ GeneralLimit <= NonExitLimit
  /\ ExitMaxAge \in Nat

ASSUME InputAssumption ==
  /\ Elapses \subseteq Nat \ {0}
  /\ \A o \in Observations : ObservationOK(o)
  /\ RoomConfigured \subseteq BOOLEAN

VARIABLES
  tracks,   \* tracks_: one record per slot
  drop      \* last_drop_reason_, and whether last_drop_ms_ is of this update

trackerVars == <<tracks, drop>>

DropReasons == {"none", "lost_after_exit", "lost_after_room_exit", "lost_without_exit"}
NoDrop      == [reason |-> "none", fresh |-> FALSE]
ExitDrops   == {"lost_after_exit", "lost_after_room_exit"}

(***************************************************************************)
(* A track.  hits are the bits of hit_mask that are set (bit 0 is the      *)
(* newest frame), frames is history_frames, observed is observed_frames    *)
(* as far as the score reads it, exitAge replaces exit_zone_mask and       *)
(* last_exit_seen_ms, distance is last_room_signed_distance_mm, margin what *)
(* room_boundary_margin_mm_ returned at that sample (no operator reads it   *)
(* again: each sample is judged by a margin of its own), outside is         *)
(* last_room_outside, and roomExit stands for the three flags candidate,    *)
(* crossed and outward, which the code always sets and clears together.     *)
(***************************************************************************)
IdleTrack ==
  [state |-> "idle", missed |-> 0, observed |-> 0, hits |-> {}, frames |-> 0,
   moving |-> FALSE, exitAge |-> NoExit, distance |-> NoDistance, margin |-> 0,
   outside |-> FALSE, roomExit |-> FALSE]

TrackType ==
  [state : {"idle", "tentative", "confirmed", "coasting"}, missed : Nat,
   observed : 0 .. 4, hits : SUBSET (0 .. (ConfirmWindow - 1)),
   frames : 0 .. ConfirmWindow, moving : BOOLEAN, exitAge : NoExit .. Stale,
   distance : Int, margin : Nat, outside : BOOLEAN, roomExit : BOOLEAN]

IsStable(t) == t.state \in {"confirmed", "coasting"}

Lesser(a, b)  == IF a < b THEN a ELSE b
Greater(a, b) == IF a > b THEN a ELSE b

RecentHitCount(t) == Cardinality(t.hits \cap 0 .. (t.frames - 1))

TrackScore(t) ==
  LET raw == RecentHitCount(t) * 18 + t.observed * 6 - Lesser(t.missed, 8) * 8
             + (CASE t.state = "confirmed" -> 20
                  [] t.state = "coasting"  -> 10
                  [] OTHER -> 0)
  IN  Greater(0, Lesser(raw, 100))

RecordObservation(t, seen) ==
  [t EXCEPT !.hits   = {b \in 0 .. (ConfirmWindow - 1) :
                          \/ b = 0 /\ seen
                          \/ b > 0 /\ (b - 1) \in t.hits},
            !.frames = Lesser(@ + 1, ConfirmWindow)]

(* The passing of time, seen from the stored exit time stamp. *)
Elapse(t, ticks) ==
  [t EXCEPT !.exitAge = IF @ = NoExit THEN NoExit ELSE Lesser(@ + ticks, Stale)]

HasRecentExit(t) == t.exitAge \in 0 .. ExitMaxAge
HasRoomExit(t)   == t.roomExit /\ t.outside

CoastingLimit(t) ==
  IF HasRecentExit(t) THEN ExitLimit
  ELSE IF t.exitAge = NoExit /\ ~HasRoomExit(t) THEN NonExitLimit
  ELSE GeneralLimit

DropReason(t) ==
  IF HasRecentExit(t) THEN "lost_after_exit"
  ELSE IF HasRoomExit(t) THEN "lost_after_room_exit"
  ELSE "lost_without_exit"

UpdateExitEvidence(t, o) ==
  IF o.exit THEN [t EXCEPT !.exitAge = 0] ELSE t

RoomSample(t, o, roomExit) ==
  [t EXCEPT !.distance = o.distance, !.margin = o.margin, !.outside = o.distance < 0,
            !.roomExit = roomExit]

(* From one sample to the next: inside by more than the margin of now, then  *)
(* outside by more than that.                                               *)
CrossedOutward(t, o) == t.distance > o.margin /\ o.distance < -o.margin

(* Bug: returning inside does not withdraw the room exit. *)
StickyRoomEvidence(t, o, configured) ==
  IF ~configured THEN t
  ELSE RoomSample(t, o, t.roomExit \/ CrossedOutward(t, o))

UpdateRoomEvidence(t, o, configured) ==
  IF ~configured THEN t
  ELSE RoomSample(t, o,
                  (t.roomExit \/ CrossedOutward(t, o)) /\ ~(o.distance > o.margin))

(* Bug: one hit more than required. *)
LateConfirm(t, pir) ==
  LET required == IF pir THEN PirConfirmHits ELSE ConfirmHits
  IN  t.frames > required /\ RecentHitCount(t) > required

ShouldConfirm(t, pir) ==
  LET required == IF pir THEN PirConfirmHits ELSE ConfirmHits
  IN  t.frames >= required /\ RecentHitCount(t) >= required

(* The parts of update_track_. *)
Begun(t) == IF t.state = "idle" THEN [t EXCEPT !.state = "tentative"] ELSE t

Sighted(t, moving) ==
  [t EXCEPT !.moving = moving, !.missed = 0, !.observed = Lesser(@ + 1, 4)]

Promoted(t, pir) ==
  IF t.state = "coasting" \/ (t.state = "tentative" /\ ShouldConfirm(t, pir))
  THEN [t EXCEPT !.state = "confirmed"] ELSE t

(* update_track_: a target was matched with the track, or opens it. *)
UpdateTrack(t, o, pir, configured) ==
  LET exits == UpdateExitEvidence(Sighted(Begun(t), o.moving), o)
      room  == UpdateRoomEvidence(exits, o, configured)
  IN  Promoted(RecordObservation(room, TRUE), pir)

Missed(t) == RecordObservation([t EXCEPT !.missed = @ + 1], FALSE)

(* Bug: a stable track is given up one frame early. *)
ImpatientExpiry(t) ==
  \/ t.state = "tentative" /\ t.missed > TentativeLimit
  \/ IsStable(t) /\ t.missed >= CoastingLimit(t)

(* Bug: the evidence does not shorten the limit. *)
LongestExpiry(t) ==
  \/ t.state = "tentative" /\ t.missed > TentativeLimit
  \/ IsStable(t) /\ t.missed > NonExitLimit

Expires(t) ==
  \/ t.state = "tentative" /\ t.missed > TentativeLimit
  \/ IsStable(t) /\ t.missed > CoastingLimit(t)

(* Bug: a forgotten track becomes idle but its record is not cleared. *)
AgeWithoutReset(t) ==
  IF t.state = "idle" THEN t
  ELSE LET m == Missed(t)
       IN  IF Expires(m) THEN [m EXCEPT !.state = "idle"]
           ELSE IF IsStable(m) THEN [m EXCEPT !.state = "coasting"]
           ELSE m

(* age_track_: no target was matched with the track in this frame. *)
AgeTrack(t) ==
  IF t.state = "idle" THEN t
  ELSE LET m == Missed(t)
       IN  IF Expires(m) THEN IdleTrack
           ELSE IF IsStable(m) THEN [m EXCEPT !.state = "coasting"]
           ELSE m

-----------------------------------------------------------------------------
(***************************************************************************)
(* One update().  T is the array of tracks, valid the set of targets the   *)
(* frame reports, assoc the matching associate_targets_ found.             *)
(***************************************************************************)
Active(T)      == {s \in Slots : T[s].state # "idle"}
StableSlots(T) == {s \in Slots : IsStable(T[s])}

Injective(f) == \A a, b \in DOMAIN f : f[a] = f[b] => a = b

Associations(T, valid) ==
  {f \in UNION {[S -> valid] : S \in SUBSET Active(T)} : Injective(f)}

(* find_reusable_track_: a free slot, else the tentative track of least    *)
(* score; the lower index wins a tie.  Never a stable track.               *)
Reusable(T, reserved) ==
  {s \in Slots \ reserved : T[s].state \in {"idle", "tentative"}}

PreferredSlot(T, a, b) ==
  \/ T[a].state = "idle" /\ T[b].state # "idle"
  \/ T[a].state = "idle" /\ T[b].state = "idle" /\ a < b
  \/ /\ T[a].state # "idle" /\ T[b].state # "idle"
     /\ \/ TrackScore(T[a]) < TrackScore(T[b])
        \/ TrackScore(T[a]) = TrackScore(T[b]) /\ a < b

(***************************************************************************)
(* Targets nothing was matched with open tracks, in target order, as long  *)
(* as there are fewer stable tracks than targets: the i-th such target     *)
(* takes the i-th slot in the order of preference.                         *)
(***************************************************************************)
Newcomers(T, valid, assoc) ==
  LET rest  == valid \ {assoc[s] : s \in DOMAIN assoc}
      slots == Reusable(T, DOMAIN assoc)
      slotRank(s)   == Cardinality({r \in slots : PreferredSlot(T, r, s)})
      targetRank(g) == Cardinality({h \in rest : h < g})
  IN  IF Cardinality(StableSlots(T)) >= Cardinality(valid) THEN {}
      ELSE {p \in slots \X rest : slotRank(p[1]) = targetRank(p[2])}

Matched(T, obs, assoc, pir, configured) ==
  [s \in Slots |-> IF s \in DOMAIN assoc
                   THEN UpdateTrack(T[s], obs[assoc[s]], pir, configured) ELSE T[s]]

Opened(T, obs, newcomers, pir, configured) ==
  [s \in Slots |->
     LET mine == {p \in newcomers : p[1] = s}
     IN  IF mine = {} THEN T[s]
         ELSE UpdateTrack(T[s], obs[(CHOOSE p \in mine : TRUE)[2]], pir, configured)]

(* The stable tracks forgotten in a frame; the last slot's reason stands. *)
DroppedSlots(T, updated) ==
  {s \in Slots \ updated : IsStable(T[s]) /\ Expires(Missed(T[s]))}

(* Bug: a track updated in the same frame clears the loss of another. *)
DropOverwritten(T, updated, old) ==
  LET dropped == DroppedSlots(T, updated)
  IN  IF updated # {} THEN NoDrop
      ELSE IF dropped # {}
      THEN [reason |-> DropReason(Missed(T[CHOOSE s \in dropped : \A r \in dropped : r <= s])),
            fresh  |-> TRUE]
      ELSE [old EXCEPT !.fresh = FALSE]

DropOf(T, updated, old) ==
  LET dropped == DroppedSlots(T, updated)
  IN  IF dropped # {}
      THEN [reason |-> DropReason(Missed(T[CHOOSE s \in dropped : \A r \in dropped : r <= s])),
            fresh  |-> TRUE]
      ELSE IF updated # {} THEN NoDrop ELSE [old EXCEPT !.fresh = FALSE]

Advance(ticks) == [s \in Slots |-> Elapse(tracks[s], ticks)]

Update(ticks, pir, configured, valid, obs, assoc) ==
  LET now       == Advance(ticks)
      matched   == Matched(now, obs, assoc, pir, configured)
      newcomers == Newcomers(matched, valid, assoc)
      opened    == Opened(matched, obs, newcomers, pir, configured)
      updated   == DOMAIN assoc \cup {p[1] : p \in newcomers}
  IN  /\ tracks' = [s \in Slots |-> IF s \in updated THEN opened[s] ELSE AgeTrack(opened[s])]
      /\ drop' = DropOf(opened, updated, drop)

(* A frame the filter does not block. *)
TrackFrame(ticks, pir, valid) ==
  \E configured \in RoomConfigured, obs \in [valid -> Observations],
     assoc \in Associations(tracks, valid) :
        Update(ticks, pir, configured, valid, obs, assoc)

(* A frame the filter blocks: the targets are ignored, every track ages. *)
BlockedFrame(ticks) ==
  LET now == Advance(ticks)
  IN  /\ tracks' = [s \in Slots |-> AgeTrack(now[s])]
      /\ drop' = DropOf(now, {}, drop)

Init ==
  /\ tracks = [s \in Slots |-> IdleTrack]
  /\ drop = NoDrop

Next ==
  \/ \E ticks \in Elapses, pir \in BOOLEAN, valid \in SUBSET Targets :
        TrackFrame(ticks, pir, valid)
  \/ \E ticks \in Elapses : BlockedFrame(ticks)

Spec == Init /\ [][Next]_trackerVars

-----------------------------------------------------------------------------
TypeOK ==
  /\ tracks \in [Slots -> TrackType]
  /\ drop \in [reason : DropReasons, fresh : BOOLEAN]
  /\ drop.fresh => drop.reason # "none"

(***************************************************************************)
(* A track is kept no longer than the evidence it left allows: after recent *)
(* exit evidence only the short limit, without any evidence the long one    *)
(* (docs/presence-exit-zone.md, Drop Behavior).  Evidence ages while the    *)
(* track coasts, so the limit that counts is the one of the current frame.  *)
(***************************************************************************)
CoastingWithinBudget ==
  \A s \in Slots :
    /\ tracks[s].state = "tentative" => tracks[s].missed <= TentativeLimit
    /\ tracks[s].state = "confirmed" => tracks[s].missed = 0
    /\ tracks[s].state = "coasting"  => tracks[s].missed <= CoastingLimit(tracks[s])

(***************************************************************************)
(* A stable track is never demoted, never overwritten by a newcomer and     *)
(* never forgotten before the shortest limit: whatever targets come and go, *)
(* it stays stable until more than ExitLimit frames in a row missed it      *)
(* (find_reusable_track_ and age_track_).                                   *)
(***************************************************************************)
StableTrackPersists ==
  [][\A s \in Slots :
        IsStable(tracks[s]) =>
          \/ IsStable(tracks'[s]) /\ tracks'[s].missed \in {0, tracks[s].missed + 1}
          \/ tracks'[s] = IdleTrack /\ tracks[s].missed >= ExitLimit]_trackerVars

(***************************************************************************)
(* The frame that forgets a stable track reports a loss, even when it saw   *)
(* other targets: the fusion has no other way to learn of it.               *)
(***************************************************************************)
LossIsReported ==
  [][\A s \in Slots :
        IsStable(tracks[s]) /\ ~IsStable(tracks'[s]) =>
          drop'.fresh /\ drop'.reason # "none"]_trackerVars

(***************************************************************************)
(* No single frame makes a stable track out of an idle slot, whatever the   *)
(* slot was used for before: what a forgotten track saw never counts for    *)
(* the next one (the reset in age_track_).                                  *)
(***************************************************************************)
FreshTrackWaits ==
  [][\A s \in Slots :
        tracks[s].state = "idle" => ~IsStable(tracks'[s])]_trackerVars
=============================================================================
