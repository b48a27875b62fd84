---------------------------- MODULE RoomCrossing ----------------------------
(***************************************************************************)
(* Room-exit evidence against the walk of the target that left it.  Every   *)
(* sample has a margin of its own: it is computed from the covariance of    *)
(* the track, which shrinks as the filter converges and grows while frames  *)
(* are missed.  A history variable records, per track slot, what an         *)
(* observer of all samples would write down.  The code keeps none of it: it *)
(* remembers one earlier distance and the flags of a crossing.              *)
(***************************************************************************)
EXTENDS PresenceTracker

VARIABLE walk       \* of the target each slot follows

walkVars == <<trackerVars, walk>>

(***************************************************************************)
(* depth is how far inside the target ever was, wasInside whether a sample  *)
(* lay inside by more than the margin of that same sample, left whether it  *)
(* walked out: a sample lay outside by more than its margin, an earlier one *)
(* inside by more than that margin, and none confidently inside since.      *)
(***************************************************************************)
NoWalk == [depth |-> 0, wasInside |-> FALSE, left |-> FALSE]

(* The code's claim that a sample is confidently inside, or outside.        *)
Inside(t)  == t.distance > t.margin
Outside(t) == t.distance < -t.margin

(* Distance and margin of a slot change only when a sample arrives, so      *)
(* judging them again after a missed frame changes nothing.                 *)
Judged(w, t) ==
  IF t.state = "idle" THEN NoWalk
  ELSE [depth     |-> Greater(w.depth, t.distance),
        wasInside |-> w.wasInside \/ Inside(t),
        left      |-> (w.left \/ (Outside(t) /\ w.depth > t.margin)) /\ ~Inside(t)]

WalkInit == Init /\ walk = [s \in Slots |-> NoWalk]

WalkNext == Next /\ walk' = [s \in Slots |-> Judged(walk[s], tracks'[s])]

WalkSpec == WalkInit /\ [][WalkNext]_walkVars

(***************************************************************************)
(* Room-exit evidence is never left over from an earlier walk and never     *)
(* made of samples near the boundary: it stands only for a target that      *)
(* walked out, by a margin of one sample on both sides of the boundary, and *)
(* has not been confidently inside since (update_room_evidence_).           *)
(***************************************************************************)
RoomExitIsACrossing ==
  \A s \in Slots : HasRoomExit(tracks[s]) => walk[s].left

(***************************************************************************)
(* docs/presence-exit-zone.md, Tracker Evidence: "A confident               *)
(* inside-to-outside crossing creates room-exit evidence", with the         *)
(* confidence margin from the covariance: whoever has room-exit evidence    *)
(* was confidently inside.  The code judges the earlier sample by the       *)
(* margin of the later one, which may be smaller.                           *)
(***************************************************************************)
RoomExitFromInside ==
  \A s \in Slots : HasRoomExit(tracks[s]) => walk[s].wasInside

(***************************************************************************)
(* The same sentence, read the other way: a target that was confidently     *)
(* inside and is now confidently outside has crossed.                       *)
(***************************************************************************)
\* (The code does not keep it: see "Observed, without a run" in README.md.)
CrossingIsNoted ==
  \A s \in Slots :
    walk[s].wasInside /\ Outside(tracks[s]) => HasRoomExit(tracks[s])
=============================================================================
