------------------------------ MODULE StateText ------------------------------
(* The documents that the main loop composes piece by piece, commas and      *)
(* braces included: the state JSON with the debug JSON of the tracker in it, *)
(* and what GET /api/state answers.                                          *)
EXTENDS JsonText

CONSTANTS
    ZoneSlots,     \* zone_1 .. zone_6
    StateInputs,   \* what the loop knows of itself, see KnownInputs
    TrackLists     \* the tracks of the tracker that are not idle

VARIABLES
    stateText,     \* state_json_
    trackerText,   \* presence_tracker_.debug_json() of this tick
    answered       \* the answer to GET /api/state that is under way

stateVars == <<stateText, trackerText, answered>>

-----------------------------------------------------------------------------
(* Pieces.  A number or a flag is one token; a float that is not a number is *)
(* written as null.                                                          *)

Number == <<"number">>
Flag == <<"flag">>
Null == <<"null">>
Scalars == {"number", "flag", "null"}
Optional(known) == IF known THEN Number ELSE Null

Entry(name, value) == Key(name) \o <<":">> \o value
Field(name, value) == <<",">> \o Entry(name, value)
Fields(names, value) == FlattenSeq([i \in DOMAIN names |-> Field(names[i], value)])

\* append_json_string
Text(chars) == Literal(chars)
Word1 == Text(<<"word">>)

-----------------------------------------------------------------------------
(* The tracker's part.                                                       *)

\* Bug: the comma is written after every item but the first.
TrailingComma(pieces) ==
    FlattenSeq([i \in DOMAIN pieces |-> pieces[i] \o (IF i = 1 THEN << >> ELSE <<",">>)])

\* The items of a list; all but the first have a comma before them.
Listed(pieces) ==
    FlattenSeq([i \in DOMAIN pieces |-> (IF i = 1 THEN << >> ELSE <<",">>) \o pieces[i]])

TrackPiece(track) ==
    <<"{">> \o Entry("state", Word1)
    \o Fields(<<"trackScore", "observedFrames", "missedFrames", "recentHits">>, Number)
    \o Field("reason", Word1) \o Field("stateChangedMs", Number) \o Field("moving", Flag)
    \o Fields(<<"x", "y", "vx", "vy", "speedCmS", "distance", "radialVelocityCmS">>, Number)
    \o Field("direction", Word1) \o Field("exitMask", Number)
    \o Field("exitAgeMs", Optional(track.exitKnown)) \o Field("exitRecent", Flag)
    \o Field("roomState", Word1) \o Field("roomDistance", Optional(track.distanceKnown))
    \o Field("roomExitEvidence", Flag) \o Field("roomExitReason", Word1) \o <<"}">>

\* PresenceTracker::debug_json
TrackerJson(tracks) ==
    <<"{">> \o Entry("presence", Flag) \o Field("motion", Flag)
    \o Fields(<<"state", "reason", "dropReason">>, Word1)
    \o Fields(<<"dropMs", "exitTrackCount", "trackScore", "inputDetectionCount",
                "activeTrackCount", "tentativeTrackCount", "confirmedTrackCount",
                "coastingTrackCount", "movingTrackCount", "stillTrackCount">>, Number)
    \o Field("tracks", <<"[">>) \o Listed([i \in DOMAIN tracks |-> TrackPiece(tracks[i])]) \o <<"]", "}">>

-----------------------------------------------------------------------------
(* The state.                                                                *)

AnchorPiece(valid) ==
    IF valid THEN <<"{">> \o Entry("x", Number) \o Field("y", Number) \o <<"}">> ELSE Null

HeldTargetPiece(held) ==
    IF held = "none" THEN Null
    ELSE <<"{">> \o Entry("id", Word1) \o Fields(<<"x", "y", "lastDistanceMm">>, Number)
         \o Fields(<<"staticDistanceMm", "distanceDeltaMm">>, Optional(held = "comparable"))
         \o Field("distanceMatched", Flag) \o <<"}">>

\* Head, environment and presence.
Basics(in) ==
    <<"{">> \o Entry("version", Number) \o Field("connected", Flag) \o Field("updatedAt", Number)
    \o Fields(<<"pirMotion", "pirMotionEffective", "filterBlocked", "presence", "motion">>, Flag)
    \o Fields(<<"targetCount", "movingTargetCount", "stillTargetCount">>, Number)
    \o Fields(<<"temperatureC", "humidityPercent", "illuminanceLux">>, Optional(in.measured))

PresenceDebug(in) ==
    Field("debug", <<"{">>) \o Entry("presenceReason", Word1)
    \o Fields(<<"presenceOffReason", "motionReason">>, Word1)
    \o Field("lastPresenceDropMs", Number)
    \o Field("lastValidTargetAgeMs", Optional(in.targetSeen))
    \o Fields(<<"emptySamplesConsecutive", "shortPresenceDropCount",
                "longPresenceDropCount">>, Number)
    \o Field("presenceEvidence", <<"{">>) \o Entry("pir", Flag)
    \o Fields(<<"tracker", "staticAssist">>, Flag) \o <<"}">>

StillDebug(in) ==
    Field("still", <<"{">>) \o Entry("state", Word1) \o Field("reason", Word1)
    \o Field("confidence", Number) \o Field("holdActive", Flag)
    \o Field("lastSeenAgeMs", Optional(in.stillSeen)) \o Field("anchor", AnchorPiece(in.anchored))
    \o <<"}">>

RangeDebug ==
    Field("range", <<"{">>) \o Entry("reason", Word1)
    \o Fields(<<"suspectTargetCount", "outOfRangeTargetCount", "remoteCandidateCount">>, Number)
    \o <<"}">>

StaticRadarDebug(in) ==
    Field("staticRadar", <<"{">>) \o Entry("available", Flag)
    \o Fields(<<"presence", "moving", "still">>, Flag)
    \o Fields(<<"detectionDistanceMm", "movingDistanceMm", "stillDistanceMm",
                "movingEnergy", "stillEnergy">>, Optional(in.staticMeasured))
    \o Field("reason", Word1) \o Field("assist", <<"{">>) \o Entry("armed", Flag)
    \o Fields(<<"active", "armPending">>, Flag) \o Field("armElapsedMs", Number)
    \o Field("exitVeto", Flag) \o Field("heldTarget", HeldTargetPiece(in.held)) \o <<"}", "}">>

RoomDebug(in) ==
    Field("room", <<"{">>) \o Entry("configured", Flag)
    \o Fields(<<"boundaryPointCount", "insideTargetCount", "outsideTargetCount">>, Number)
    \o <<"}">> \o Field("exit", <<"{">>) \o Entry("active", Flag)
    \o Fields(<<"zoneCount", "zoneMask", "targetCount">>, Number)
    \o Field("lastSeenAgeMs", Optional(in.exitSeen)) \o <<"}">>

\* append_target_json
TargetPiece ==
    <<"{">> \o Entry("id", Word1) \o Fields(<<"name", "color">>, Word1)
    \o Fields(<<"x", "y">>, Number) \o Field("active", Flag) \o <<"}">>

\* append_zone_json: a zone without a name goes by its id.
ZonePiece(zone) ==
    <<"{">> \o Entry("id", Word1)
    \o Field("name", IF zone.name = << >> THEN Word1 ELSE Text(zone.name))
    \o Field("type", Word1) \o Field("presence", Flag) \o Field("targetCount", Number) \o <<"}">>

\* build_device_state_json
StateJson(in, tracker) ==
    LET valid == SelectSeq(ZoneSlots, LAMBDA z : z \in DOMAIN in.zones)
    IN
    Basics(in) \o PresenceDebug(in) \o StillDebug(in) \o RangeDebug \o StaticRadarDebug(in)
    \o RoomDebug(in) \o Field("tracker", tracker) \o <<"}">>
    \o Field("targets", <<"[">>) \o Listed(<<TargetPiece, TargetPiece, TargetPiece>>) \o <<"]">>
    \o Field("zones", <<"[">>)
    \o Listed([i \in DOMAIN valid |-> ZonePiece(in.zones[valid[i]])])
    \o <<"]", "}">>

\* What is answered before the first tick.
NotConnected ==
    Basics([measured |-> FALSE]) \o Field("targets", <<"[", "]">>) \o <<"}">>

-----------------------------------------------------------------------------
StateInit == stateText = << >> /\ trackerText = << >> /\ answered = << >>

\* update_device_state_json
UpdateState(in, tracks) ==
    /\ trackerText' = TrackerJson(tracks)
    /\ stateText' = StateJson(in, trackerText')
    /\ answered' = << >>

\* GET /api/state
GetState ==
    /\ answered' = IF stateText = << >> THEN NotConnected ELSE stateText
    /\ UNCHANGED <<stateText, trackerText>>

StateNext ==
    \/ \E in \in StateInputs, tracks \in TrackLists : UpdateState(in, tracks)
    \/ GetState

StateSpec == StateInit /\ [][StateNext]_stateVars

-----------------------------------------------------------------------------
(* The grammar of JSON: the position after the value, the members or the     *)
(* items that begin at a position, 0 if there are none.                      *)

RECURSIVE AfterValue(_, _), AfterItems(_, _), AfterMembers(_, _, _)
AfterValue(text, at) ==
    IF at > Len(text) THEN 0
    ELSE CASE text[at] \in Scalars -> at + 1
           [] text[at] = Quote -> LET end == StringEnd(text, at) IN IF end = 0 THEN 0 ELSE end + 1
           [] text[at] = "[" -> IF text[at + 1] = "]" THEN at + 2 ELSE AfterItems(text, at + 1)
           [] text[at] = "{" -> IF text[at + 1] = "}" THEN at + 2
                                ELSE AfterMembers(text, at + 1, {})
           [] OTHER -> 0
AfterItems(text, at) ==
    LET next == AfterValue(text, at)
    IN  IF next = 0 \/ next > Len(text) THEN 0
        ELSE CASE text[next] = "]" -> next + 1
               [] text[next] = "," -> AfterItems(text, next + 1)
               [] OTHER -> 0
\* The names of an object are different.
AfterMembers(text, at, names) ==
    IF at > Len(text) \/ text[at] # Quote THEN 0
    ELSE LET end == StringEnd(text, at)
             name == SubSeq(text, at + 1, end - 1)
             next == IF end = 0 \/ name \in names \/ text[end + 1] # ":" THEN 0
                     ELSE AfterValue(text, end + 2)
         IN  IF next = 0 \/ next > Len(text) THEN 0
             ELSE CASE text[next] = "}" -> next + 1
                    [] text[next] = "," -> AfterMembers(text, next + 1, names \union {name})
                    [] OTHER -> 0

IsDocument(text) == AfterValue(text, 1) = Len(text) + 1

\* Whatever is known or not, whichever tracks and zones there are and whatever
\* the zones are called, the answer is one well-formed JSON value in which no
\* object has a name twice, and so is the tracker's part of it.
StateIsJson ==
    /\ trackerText # << >> => IsDocument(trackerText)
    /\ answered # << >> => IsDocument(answered)
=============================================================================
