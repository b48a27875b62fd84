----------------------------- MODULE ConfigCache -----------------------------
(* The device configuration in use.  The HTTP task stores an uploaded        *)
(* document, reads it back and installs it in DeviceConfigCache, one member  *)
(* after the other, without a lock; the 500 ms loop meanwhile looks up zones *)
(* and the room in the cache and reports what it finds in the state JSON.    *)
EXTENDS JsonText

CONSTANTS
    ZoneIds, CalibrationIds,  \* sequences of ids: zone_1 .. and calibration_1 ..
    Coordinates,              \* the numbers in boundaries
    MostCorners,              \* MAX_FLOORPLAN_ROOM_BOUNDARY_POINTS
    Configs,                  \* the configurations that are saved
    TargetSlots               \* the targets the loop looks for

ASSUME ConfigAssumption ==
    /\ ZoneIds \in Seq(STRING) /\ CalibrationIds \in Seq(STRING) /\ IsFiniteSet(TargetSlots)

NoRoom == [id |-> "none", name |-> << >>, boundary |-> << >>]
NoZone == [type |-> "none", name |-> << >>]
Never == -1

VARIABLES
    config,       \* the saved configuration, as the dashboard understands it
    configText,   \* the DEVICE_CONFIG payload
    cache,        \* DeviceConfigCache
    installing,   \* what the HTTP task is installing, and its next step
    saveAnswer,   \* the answer to the last upload, "none" while one is served
    looked,       \* what the loop found at its last look
    exitSeen,     \* exit_zone_last_seen_ms_: looks since, or Never
    inUse         \* (history variable) the configurations the cache is made of

configVars == <<config, configText, cache, installing, saveAnswer, looked, exitSeen, inUse>>

-----------------------------------------------------------------------------
(* The document, as JSON.stringify of the dashboard writes it.               *)

PointsText(points) ==
    Array([i \in DOMAIN points |-> Array(<<Word(points[i][1]), Word(points[i][2])>>)])
ZoneText(id, z) ==
    Object(<<<<"id", Literal(<<id>>)>>, <<"name", Literal(z.name)>>, <<"type", Literal(<<z.type>>)>>,
             <<"points", PointsText(<< >>)>>>>)
\* Ids with nothing drawn are left out.
ZonesText(ids, zones) ==
    Array(SelectSeq([i \in DOMAIN ids |-> IF zones[i] = NoZone THEN << >>
                                          ELSE ZoneText(ids[i], zones[i])],
                    LAMBDA text : text # << >>))
RoomText(room) ==
    Object(<<<<"id", Literal(<<room.id>>)>>, <<"name", Literal(room.name)>>,
             <<"source", Literal(<<"stored_room">>)>>>> \o
           (IF room.boundary = << >> THEN << >> ELSE <<<<"boundary", PointsText(room.boundary)>>>>))
ConfigText(c) ==
    Object(<<<<"version", Word("1")>>,
             <<"legacyPresenceFallback", Word(IF c.legacy THEN "true" ELSE "false")>>,
             <<"zones", ZonesText(ZoneIds, c.zones)>>,
             <<"calibrationZones", ZonesText(CalibrationIds, c.calibrations)>>>> \o
           (IF c.room = NoRoom THEN << >>
            ELSE <<<<"floorplan", Object(<<<<"enabled", Word("true")>>, <<"hasImage", Word("true")>>,
                                           <<"room", RoomText(c.room)>>>>)>>>>))

-----------------------------------------------------------------------------
(* Installing a document.                                                    *)

\* refresh_floorplan_room_cache_
RoomNotSet == [configured |-> FALSE, id |-> << >>, name |-> << >>, boundary |-> << >>]
RoomIn(text) ==
    LET room == ObjectByKey(ObjectByKey(text, "floorplan"), "room")
        found == [id |-> StringByKey(room, "id"), name |-> StringByKey(room, "name"),
                  boundary |-> Points(room, "boundary", MostCorners, Coordinates)]
    IN  IF room = << >> THEN RoomNotSet
        ELSE [configured |-> found.id # << >> \/ found.name # << >> \/ Len(found.boundary) >= 3,
              id |-> found.id, name |-> found.name, boundary |-> found.boundary]

EmptyCache ==
    [text |-> << >>, legacy |-> FALSE, assist |-> TRUE,
     zones |-> [i \in DOMAIN ZoneIds |-> << >>],
     calibrations |-> [i \in DOMAIN CalibrationIds |-> << >>], room |-> RoomNotSet]

\* The stores of update and of refresh_zone_cache_, in their order.
Steps == <<<<"text", 0>>, <<"legacy", 0>>, <<"assist", 0>>>> \o
         [i \in DOMAIN ZoneIds |-> <<"zone", i>>] \o
         [i \in DOMAIN CalibrationIds |-> <<"calibration", i>>] \o
         <<<<"no room", 0>>, <<"room", 0>>>>

\* Bug: the room of the last document stays when the new one has none.
KeepOldRoom(c, text, step) ==
    CASE step[1] = "text" -> [c EXCEPT !.text = text]
      [] step[1] = "legacy" -> [c EXCEPT !.legacy = BoolByKey(c.text, "legacyPresenceFallback", FALSE)]
      [] step[1] = "assist" -> [c EXCEPT !.assist = ~c.legacy]
      [] step[1] = "zone" -> [c EXCEPT !.zones[step[2]] = ObjectById(c.text, ZoneIds[step[2]])]
      [] step[1] = "calibration" ->
            [c EXCEPT !.calibrations[step[2]] = ObjectById(c.text, CalibrationIds[step[2]])]
      [] step[1] = "no room" -> c
      [] step[1] = "room" -> IF RoomIn(c.text) = RoomNotSet THEN c ELSE [c EXCEPT !.room = RoomIn(c.text)]

AfterStore(c, text, step) ==
    CASE step[1] = "text" -> [c EXCEPT !.text = text]
      [] step[1] = "legacy" -> [c EXCEPT !.legacy = BoolByKey(c.text, "legacyPresenceFallback", FALSE)]
      [] step[1] = "assist" -> [c EXCEPT !.assist = ~c.legacy]
      [] step[1] = "zone" -> [c EXCEPT !.zones[step[2]] = ObjectById(c.text, ZoneIds[step[2]])]
      [] step[1] = "calibration" ->
            [c EXCEPT !.calibrations[step[2]] = ObjectById(c.text, CalibrationIds[step[2]])]
      [] step[1] = "no room" -> [c EXCEPT !.room = RoomNotSet]
      [] step[1] = "room" -> [c EXCEPT !.room = RoomIn(c.text)]

\* DeviceConfigCache::update at once, as in RadarApiServer::setup.
Installed(text) ==
    LET legacy == BoolByKey(text, "legacyPresenceFallback", FALSE)
    IN  [text |-> text, legacy |-> legacy, assist |-> ~legacy,
         zones |-> [i \in DOMAIN ZoneIds |-> ObjectById(text, ZoneIds[i])],
         calibrations |-> [i \in DOMAIN CalibrationIds |-> ObjectById(text, CalibrationIds[i])],
         room |-> RoomIn(text)]

NotInstalling == [next |-> 0, text |-> << >>]

\* No configuration is stored: as one without anything in it.
NoConfig ==
    [legacy |-> FALSE, zones |-> [i \in DOMAIN ZoneIds |-> NoZone],
     calibrations |-> [i \in DOMAIN CalibrationIds |-> NoZone], room |-> NoRoom]

\* The documents there are.
AllConfigs == Configs \union {NoConfig}
TextOf == [c \in AllConfigs |-> IF c = NoConfig THEN << >> ELSE ConfigText(c)]
InstalledOf == [text \in {TextOf[c] : c \in AllConfigs} |-> Installed(text)]

\* POST /api/config/upload/commit: the payload is committed; if it can be read
\* back it is installed, if not the old one stays in use.
SaveConfig(c, readable) ==
    /\ installing = NotInstalling
    /\ config' = c
    /\ configText' = TextOf[c]
    /\ IF readable THEN /\ installing' = [next |-> 1, text |-> configText']
                        /\ saveAnswer' = "none" /\ inUse' = inUse \union {c}
       ELSE saveAnswer' = "config_read_failed" /\ UNCHANGED <<installing, inUse>>
    /\ UNCHANGED <<cache, looked, exitSeen>>

\* reset_settings_: the payload is deleted, then the cache is cleared.
ResetConfig ==
    /\ installing = NotInstalling
    /\ config' = NoConfig /\ configText' = << >>
    /\ installing' = [next |-> 1, text |-> << >>]
    /\ saveAnswer' = "none" /\ inUse' = inUse \union {NoConfig}
    /\ UNCHANGED <<cache, looked, exitSeen>>

InstallStep ==
    /\ installing # NotInstalling
    /\ cache' = AfterStore(cache, installing.text, Steps[installing.next])
    /\ IF installing.next < Len(Steps)
       THEN installing' = [installing EXCEPT !.next = @ + 1] /\ UNCHANGED <<saveAnswer, inUse>>
       ELSE installing' = NotInstalling /\ saveAnswer' = "ok" /\ inUse' = {config}
    /\ UNCHANGED <<config, configText, looked, exitSeen>>

-----------------------------------------------------------------------------
(* The loop looks for its targets in the zones and in the room.              *)

\* zone_config_valid
ZoneValid(text, i) ==
    /\ Find(text, Key("id") \o <<":">> \o Key(ZoneIds[i]), 1) # 0
    /\ Find(text, Key("points"), 1) # 0

\* zone_type_is
ZoneTypeIs(text, type) == Find(text, Key("type") \o <<":">> \o Key(type), 1) # 0

\* Bug: whatever is not an exit is a detection.
EvidenceOfTwoKinds(zones, room, where) ==
    LET valid == {i \in DOMAIN ZoneIds : ZoneValid(zones[i], i)}
        exits == {i \in valid : ZoneTypeIs(zones[i], "exit")}
    IN  [valid |-> valid, filters |-> {},
         inDetection |-> [t \in DOMAIN where |-> where[t] \intersect (valid \ exits)],
         inExit |-> [t \in DOMAIN where |-> where[t] \intersect exits],
         room |-> room.configured, corners |-> room.boundary]

\* compute_software_zone_evidence; where gives, for each valid target, the
\* zones whose area it is in.
EvidenceIn(zones, room, where) ==
    LET valid == {i \in DOMAIN ZoneIds : ZoneValid(zones[i], i)}
        detections == {i \in valid : ZoneTypeIs(zones[i], "detection")}
        filters == {i \in valid \ detections : ZoneTypeIs(zones[i], "filter")}
        exits == {i \in valid \ (detections \union filters) : ZoneTypeIs(zones[i], "exit")}
    IN  [valid |-> valid, filters |-> filters,
         inDetection |-> [t \in DOMAIN where |-> where[t] \intersect detections],
         inExit |-> [t \in DOMAIN where |-> where[t] \intersect exits],
         room |-> room.configured, corners |-> room.boundary]

\* append_zone_json: a zone in the state JSON; its name is cut out of the
\* configuration and written as a string again.
StringOf(text, key) ==
    LET needle == Key(key) \o <<":", Quote>>
        at == Find(text, needle, 1)
        start == at + Len(needle)
    IN  IF at = 0 THEN << >> ELSE SubSeq(text, start, StringEnd(text, start - 1) - 1)
ZoneJson(i, text, count) ==
    <<"{">> \o Key("id") \o <<":">> \o Literal(<<ZoneIds[i]>>) \o <<",">> \o
    Key("name") \o <<":">> \o
    Literal(IF StringOf(text, "name") = << >> THEN <<ZoneIds[i]>> ELSE StringOf(text, "name")) \o
    <<",">> \o Key("type") \o <<":">> \o Literal(StringOf(text, "type")) \o <<",">> \o
    Key("targetCount") \o <<":", ToString(count), "}">>

\* The zones of the state JSON, with the number of targets in each.
TargetsIn(e) ==
    [i \in DOMAIN ZoneIds |->
        Cardinality({t \in DOMAIN e.inExit : i \in e.inExit[t] \union e.inDetection[t]})]
ZonesJson(zones, valid, counts) ==
    LET slots == SetToSortSeq(valid, LAMBDA i, j : i < j)
    IN  <<"[">> \o Joined([k \in DOMAIN slots |->
                      ZoneJson(slots[k], zones[slots[k]], counts[slots[k]])]) \o <<"]">>

\* A zone text that is being stored while it is read may be the old one, the
\* new one, or neither.
BeingStored ==
    {i \in DOMAIN ZoneIds : installing # NotInstalling /\ Steps[installing.next] = <<"zone", i>>}
ReadableZones ==
    {cache.zones} \union
    UNION {{[cache.zones EXCEPT ![i] = z] : z \in {<< >>, ObjectById(cache.text, ZoneIds[i])}} :
              i \in BeingStored}

NotLooked == [evidence |-> EvidenceIn(EmptyCache.zones, RoomNotSet, << >>), where |-> << >>,
              zones |-> << >>, of |-> {}, settled |-> FALSE, exitAge |-> Never]

ExitAge(e) == IF \E t \in DOMAIN e.inExit : e.inExit[t] # {} THEN 0
              ELSE IF exitSeen = Never THEN Never ELSE 1

\* update_software_zone_evidence and update_device_state_json.
Look(where) ==
    \E zones \in ReadableZones :
       LET e == EvidenceIn(zones, cache.room, where)
       IN  /\ exitSeen' = ExitAge(e)
           /\ looked' = [evidence |-> e, where |-> where, zones |-> ZonesJson(zones, e.valid, TargetsIn(e)),
                         of |-> inUse, settled |-> installing = NotInstalling,
                         exitAge |-> ExitAge(e)]
           /\ UNCHANGED <<config, configText, cache, installing, saveAnswer, inUse>>

\* RadarApiServer::setup after a power loss.
BootConfig ==
    /\ cache' = InstalledOf[configText]
    /\ installing' = NotInstalling /\ inUse' = {config} /\ saveAnswer' = "ok"
    /\ looked' = NotLooked /\ exitSeen' = Never
    /\ UNCHANGED <<config, configText>>

ConfigInit ==
    /\ config = NoConfig /\ configText = << >> /\ cache = EmptyCache
    /\ installing = NotInstalling /\ saveAnswer = "ok"
    /\ looked = NotLooked /\ exitSeen = Never /\ inUse = {NoConfig}

ConfigNext ==
    \/ \E c \in Configs, readable \in BOOLEAN : SaveConfig(c, readable)
    \/ ResetConfig
    \/ InstallStep
    \/ BootConfig
    \/ \E slots \in SUBSET TargetSlots : \E where \in [slots -> SUBSET DOMAIN ZoneIds] : Look(where)

ConfigSpec == ConfigInit /\ [][ConfigNext]_configVars

-----------------------------------------------------------------------------
(* Properties.                                                               *)

\* A zone that a user has called "floorplan" is taken for the member of that
\* name when another zone follows it; then there is no room.
HidesRoom(c) ==
    LET drawn == SelectSeq(c.zones \o c.calibrations, LAMBDA z : z # NoZone)
    IN  \E k \in 1..(Len(drawn) - 1) : drawn[k].name = <<"floorplan">>

\* What the cache should be, by the members of the document.
Meant(c) ==
    [text |-> TextOf[c], legacy |-> c.legacy,
     assist |-> ~c.legacy,
     zones |-> [i \in DOMAIN ZoneIds |-> IF c.zones[i] = NoZone THEN << >>
                                         ELSE ZoneText(ZoneIds[i], c.zones[i])],
     calibrations |-> [i \in DOMAIN CalibrationIds |->
         IF c.calibrations[i] = NoZone THEN << >>
         ELSE ZoneText(CalibrationIds[i], c.calibrations[i])],
     room |-> IF c.room = NoRoom \/ HidesRoom(c) THEN RoomNotSet
              ELSE [configured |-> TRUE, id |-> <<c.room.id>>,
                    name |-> SubSeq(Literal(c.room.name), 2, Len(Literal(c.room.name)) - 1),
                    boundary |-> SubSeq(c.room.boundary, 1,
                        IF Len(c.room.boundary) > MostCorners THEN MostCorners
                        ELSE Len(c.room.boundary))]]

MeantOf == [c \in AllConfigs |-> Meant(c)]

\* A text of the state JSON names the zones of a configuration.
DrawnSlots(c) == {i \in DOMAIN ZoneIds : c.zones[i] # NoZone}
NamesZone(text, id, zone) ==
    /\ Cut(text, Member(text, 1, "id")) = Literal(<<id>>)
    /\ Cut(text, Member(text, 1, "name")) = Literal(zone.name)
    /\ Cut(text, Member(text, 1, "type")) = Literal(<<zone.type>>)
NamesEach(text, ranges, slots, c) ==
    /\ Len(ranges) = Len(slots)
    /\ \A k \in DOMAIN ranges :
          NamesZone(Cut(text, ranges[k]), ZoneIds[slots[k]], c.zones[slots[k]])
NamesZones(text, c) ==
    NamesEach(text, Items(text, <<1, Len(text)>>),
              SetToSortSeq(DrawnSlots(c), LAMBDA i, j : i < j), c)

\* The searches of the cache, on a whole document and on a single zone, find
\* what the dashboard wrote, and the state JSON made of it says so.
ReadsBack(c) ==
    /\ Installed(TextOf[c]) = Meant(c)
    /\ \A i \in DOMAIN ZoneIds : c.zones[i] # NoZone =>
          LET text == ZoneText(ZoneIds[i], c.zones[i])
          IN  /\ ZoneValid(text, i)
              /\ \A type \in {"detection", "filter", "exit"} :
                    ZoneTypeIs(text, type) <=> (c.zones[i].type = type)
    /\ \A counts \in [DOMAIN ZoneIds -> 0..Cardinality(TargetSlots)] :
          NamesZones(ZonesJson(Meant(c).zones, DrawnSlots(c), counts), c)

\* They do for every configuration there is.
AllReadBack == \A c \in AllConfigs : ReadsBack(c)

\* Between uploads the cache holds one configuration, each member of it cut out
\* of the right place of the document whatever users call their zones and rooms
\* (but for a room that a zone hides), and when the dashboard was told "ok" it
\* is the saved one; a restart ends in the same state.
CacheIsOneConfig ==
    installing = NotInstalling =>
        /\ \E c \in inUse : inUse = {c} /\ cache = MeantOf[c]
        /\ saveAnswer = "ok" => inUse = {config}

\* Whenever the loop looks, also while a configuration is installed, it finds a
\* target only in zones that were drawn with that type, in the configuration in
\* use or in the one that replaces it.
EvidenceWasDrawn ==
    LET Drawn(type, i) == \E c \in looked.of : c.zones[i] # NoZone /\ c.zones[i].type = type
        e == looked.evidence
    IN  /\ \A t \in DOMAIN looked.where :
              /\ \A i \in e.inExit[t] : i \in looked.where[t] /\ Drawn("exit", i)
              /\ \A i \in e.inDetection[t] : i \in looked.where[t] /\ Drawn("detection", i)
        /\ looked.settled =>
              \A t \in DOMAIN looked.where : \A i \in looked.where[t] :
                 Drawn("exit", i) => i \in e.inExit[t] /\ looked.exitAge = 0

\* When the cache is at rest, the zones of the state JSON are those of the
\* configuration in use, by their ids, names and types.
StateNamesTheZones ==
    \A c \in looked.of : looked.settled => NamesZones(looked.zones, c)

\* What the loop makes of the cache (software_zone_evidence.cpp and the state
\* JSON) is the configuration, not the places its texts happen to be searched.
LoopSeesTheConfiguration == EvidenceWasDrawn /\ StateNamesTheZones

\* docs/presence-exit-zone.md: the room of the saved floorplan is the room
\* context of the tracker.
\* (The code does not keep it: see "Observed, without a run" in README.md.)
RoomContextIsAvailable ==
    \A c \in looked.of : looked.settled =>
        /\ looked.evidence.room = (c.room # NoRoom)
        /\ c.room # NoRoom => looked.evidence.corners = c.room.boundary
=============================================================================
