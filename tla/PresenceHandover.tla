--------------------------- MODULE PresenceHandover ---------------------------
(***************************************************************************)
(* One person replaces another under the radar alone.  While the track of  *)
(* the first one coasts, no track is opened for the second: there are as   *)
(* many stable tracks as targets (update() in presence_tracker.cpp).  Only *)
(* when the old track is dropped can the new one be opened, and it then    *)
(* needs ConfirmHits frames.  What bridges the gap is the presence hold of *)
(* the debounce, a timer of another component.                             *)
(*                                                                         *)
(* PIR and static radar stay silent, the case that depends on the tracker  *)
(* alone; at most one target is reported per frame, and frames are on time.*)
(***************************************************************************)
EXTENDS PresencePipeline

VARIABLE person   \* who the last frame reported, see PersonType

handoverVars == <<vars, person>>

Away       == -2  \* nobody
Unsettled  == -1  \* somebody who has not been reported together with a stable
                  \* track yet
Unfollowed == 0   \* somebody who has been, in every frame since, and no track
                  \* follows them; otherwise the slot that follows them
PersonType == {Away, Unsettled, Unfollowed} \cup Slots

(* A person who stays is matched with the track that follows them, or with *)
(* a stable one: the association prefers those (association_cost_).        *)
FollowsPerson(assoc) ==
  person \in Active(tracks) =>
    DOMAIN assoc \cap ({person} \cup StableSlots(tracks)) # {}

Follower ==
  LET hit == {s \in Slots : tracks'[s].state # "idle" /\ tracks'[s].missed = 0}
  IN  IF hit = {} THEN Unfollowed ELSE CHOOSE s \in hit : TRUE

Publication(blocked) ==
  /\ Fuse(1, FALSE, blocked, presence, FALSE, TrackerOutput(tracks', drop'))
  /\ Publish(1, fused'.presence, fused'.motion)

PersonSeen ==
  /\ \E obs \in [{1} -> Observations], assoc \in Associations(tracks, {1}) :
        FollowsPerson(assoc) /\ Update(1, FALSE, FALSE, {1}, obs, assoc)
  /\ person' = IF person \in {Away, Unsettled} /\ StableSlots(tracks') = {}
               THEN Unsettled ELSE Follower
  /\ Publication(FALSE)

NobodySeen ==
  /\ TrackFrame(1, FALSE, {})
  /\ person' = Away
  /\ Publication(FALSE)

FrameBlocked ==
  /\ BlockedFrame(1)
  /\ person' = Away
  /\ Publication(TRUE)

HandoverInit == PipelineInit /\ person = Away

HandoverNext == PersonSeen \/ NobodySeen \/ FrameBlocked

HandoverSpec == HandoverInit /\ [][HandoverNext]_handoverVars

(***************************************************************************)
(* Whoever is reported in every frame since the radar last held presence    *)
(* keeps it on, also across the drop of the track that held it.             *)
(***************************************************************************)
HandoverKeepsPresence ==
  [][(/\ person \in {Unfollowed} \cup Slots
      /\ person' \notin {Away, Unsettled}
      /\ presence) => (presence' = TRUE)]_handoverVars
=============================================================================
