---------------------------- MODULE MCObservation ----------------------------
(* What the device finds out and what it tells of it, one component at a     *)
(* time: the filter of a track, the distance of the static radar, the        *)
(* crossing of the room's boundary, the geometry of areas, the presence of   *)
(* LegacyPresence, the two logs, the lines of the replay log, the state      *)
(* JSON, and the statistics: their days and their text.                      *)
EXTENDS TrackFilter, StaticDistance, RoomCrossing, ZoneGeometry, LegacyPresence,
        DiagnosticLogs, ReplayLine, StateText, StatsDays, StatsText

VARIABLE part    \* the component that is observed

observationVars == <<part, filterVars, staticDistanceVars, walkVars, geometryVars, legacyVars,
                     logVars, replayVars, stateVars, statsDayVars, statsTextVars>>

-----------------------------------------------------------------------------
(* TrackFilter: between the thresholds of both settings, at them, beyond.     *)
TheSpeeds == {-50, -32, -28, 0, 28, 36, 50}

(* RoomCrossing: samples on both sides of the boundary, judged by a margin   *)
(* of 1 or of 2: a distance of 2 is confidently inside by the one and not by *)
(* the other, and the same holds outside.                                    *)
RoomObservations ==
    {[exit |-> FALSE, moving |-> FALSE, distance |-> s[1], margin |-> s[2]] :
        s \in {<<2, 1>>, <<2, 2>>, <<-2, 1>>, <<-2, 2>>, <<-3, 2>>}}
OneTick == {1}
AnyTime == {TRUE, FALSE}

(* ZoneGeometry: triangles with a corner on any of 16 points, and areas of   *)
(* four corners, convex and not, also beyond the reach of the radar, and one *)
(* without corners.                                                          *)
TheGrid == -1..4
TheCorners == (0..3) \X (0..3)
Triangle(a, b, c) == [corners |-> <<a, b, c>>, parts |-> {<<a, b, c>>}]
Quad(a, b, c, d) == [corners |-> <<a, b, c, d>>, parts |-> {<<a, b, c>>, <<a, c, d>>}]
NoArea == [corners |-> << >>, parts |-> {}]
TheAreas ==
    {NoArea} \union {Triangle(a, b, c) : a \in {<<0, 0>>, <<1, 2>>, <<2, 1>>}, b \in TheCorners, c \in TheCorners}
    \union {Quad(<<0, 0>>, <<3, 0>>, <<3, 3>>, <<0, 3>>), Quad(<<1, 1>>, <<3, 0>>, <<2, 2>>, <<0, 3>>),
            Quad(<<1, 1>>, <<0, 3>>, <<-2, 0>>, <<2, -1>>),
            Quad(<<0, 0>>, <<0, 1>>, <<3, 1>>, <<3, 0>>)}

(* DiagnosticLogs: samples that differ in enough to cause every other event. *)
Calm == [presence |-> FALSE, motion |-> FALSE, target |-> FALSE, still |-> "idle", hold |-> FALSE,
         unsure |-> FALSE, range |-> "ok", exit |-> FALSE, tracker |-> FALSE, track |-> "idle"]
Someone == [Calm EXCEPT !.presence = TRUE, !.target = TRUE]
TheSnapshots == {Calm, Someone, [Someone EXCEPT !.exit = TRUE, !.target = FALSE],
                 [Calm EXCEPT !.tracker = TRUE]}

(* ReplayLine: within 16 bits, beyond them on either side, and no number.    *)
TheNumbers == {-70000, -1, 0, 1, 40000, 70000, NaN}

(* StateText: up to three tracks, names that need escapes, any of two zones. *)
TheZoneSlots == <<1, 2, 3, 4, 5, 6>>
TheTrack(exit, distance) == [exitKnown |-> exit, distanceKnown |-> distance]
TheTrackLists ==
    {<< >>, <<TheTrack(TRUE, FALSE)>>,
     <<TheTrack(TRUE, FALSE), TheTrack(FALSE, TRUE), TheTrack(TRUE, TRUE)>>}
TheZones == UNION {[S -> {[name |-> << >>], [name |-> <<Quote, "]">>]}] : S \in SUBSET {1, 3}}
KnownInputs(b, h, z) ==
    [measured |-> b[1], targetSeen |-> b[2], stillSeen |-> b[3], anchored |-> b[4],
     staticMeasured |-> b[5], exitSeen |-> b[6], held |-> h, zones |-> z]
AllButOne == UNION {{[i \in 1..6 |-> v], [i \in 1..6 |-> (i = k) # v]} : v \in BOOLEAN, k \in 1..6}
TheStateInputs ==
    {KnownInputs(b, h, << >>) : b \in AllButOne, h \in {"none", "alone", "comparable"}}
    \union {KnownInputs([i \in 1..6 |-> TRUE], "none", z) : z \in TheZones}

(* StatsDays: the end of February of a leap year.  StatsText: values with     *)
(* quotes, brackets and escapes.                                             *)
TheDates == {<<2024, 2, 27>>}
TheHeatTexts == {<<"a">>, <<"\\">>, <<"quote", "}">>, <<"\\", "quote", "]">>}
TheEntries == {Object(<<<<"d", Word("1")>>>>),
               Object(<<<<"d", Word("2")>>, <<"z", Array(<<Word("1"), Word("2")>>)>>>>)}

-----------------------------------------------------------------------------
\* The component that is observed has all its initial states, the others one.
ObservationInit ==
    /\ part \in {"filter", "distance", "rooms", "geometry", "legacy", "logs", "replay", "state", "days", "statistics"}
    /\ FilterInit /\ StaticDistanceInit /\ WalkInit
    /\ GeometryInit /\ (part # "geometry" => area = NoArea)
    /\ LegacyInit /\ (part # "legacy" => fallback = FALSE)
    /\ LogInit /\ (part # "logs" => allocated = [log \in {"events", "replay"} |-> FALSE])
    /\ ReplayInit /\ StateInit /\ StatsDayInit /\ StatsTextInit

Radar == <<filterVars, staticDistanceVars>>
Presence == <<walkVars, geometryVars, legacyVars>>
Logging == <<logVars, replayVars, stateVars>>
Statistics == <<statsDayVars, statsTextVars>>

\* Nobody is seen on the last day, and no backup is taken.
LastDayIsQuiet ==
    daysPassed = MaxDays =>
        backup' = backup /\ (heat' \in {heat, NoHeat} \/ saved' # saved)

ObservationNext ==
    /\ \/ /\ part = "filter" /\ FilterNext
          /\ UNCHANGED <<staticDistanceVars, Presence, Logging, Statistics>>
       \/ /\ part = "distance" /\ StaticDistanceNext
          /\ UNCHANGED <<filterVars, Presence, Logging, Statistics>>
       \/ /\ part = "rooms" /\ WalkNext
          /\ UNCHANGED <<Radar, geometryVars, legacyVars, Logging, Statistics>>
       \/ /\ part = "geometry" /\ GeometryNext
          /\ UNCHANGED <<Radar, walkVars, legacyVars, Logging, Statistics>>
       \/ /\ part = "legacy" /\ LegacyNext
          /\ UNCHANGED <<Radar, walkVars, geometryVars, Logging, Statistics>>
       \/ /\ part = "logs" /\ LogNext
          /\ UNCHANGED <<Radar, Presence, replayVars, stateVars, Statistics>>
       \/ /\ part = "replay" /\ ReplayNext
          /\ UNCHANGED <<Radar, Presence, logVars, stateVars, Statistics>>
       \/ /\ part = "state" /\ StateNext
          /\ UNCHANGED <<Radar, Presence, logVars, replayVars, Statistics>>
       \/ /\ part = "days" /\ StatsDayNext /\ LastDayIsQuiet
          /\ UNCHANGED <<Radar, Presence, Logging, statsTextVars>>
       \/ /\ part = "statistics" /\ StatsTextNext
          /\ UNCHANGED <<Radar, Presence, Logging, statsDayVars>>
    /\ UNCHANGED part

ObservationSpec == ObservationInit /\ [][ObservationNext]_observationVars
=============================================================================
