---------------------------- MODULE FloorplanPatch ----------------------------
(* The floorplan is a tree to the dashboard and a text to the device, which  *)
(* replaces members of it in place: radar, occlusion, objects, room names.   *)
EXTENDS JsonText

CONSTANTS
    RoomIds, Names,      \* rooms, and the names users give: sequences of characters
    Placements           \* values of the members radar, occlusion and objects

VARIABLES
    plan,      \* the floorplan as the dashboard understands it
    planText,  \* the CONFIG payload
    patchAnswer     \* the status of the last patch

planVars == <<plan, planText, patchAnswer>>

\* JSON.stringify of the dashboard's floorplan.
Room(room) == Object(<<<<"id", Literal(<<room.id>>)>>, <<"name", Literal(room.name)>>>>)
PlanText(p) ==
    Object(<<<<"rooms", Array([i \in DOMAIN p.rooms |-> Room(p.rooms[i])])>>,
             <<"radar", Object(<<<<"scale", p.radar>>>>)>>,
             <<"objects", Array(p.objects)>>>>)

ReplacedAt(text, range, by) == IF range = NoRange THEN << >> ELSE Replaced(text, range, by)

\* patch_floorplan_member_: the value goes where the old one was.
PatchedMember(text, key, value) == ReplacedAt(text, Member(text, 1, key), value)

\* Where the name of the first room with the id is.
NameRange(text, rooms, id) ==
    LET with == {i \in DOMAIN rooms :
                    Cut(text, Member(text, rooms[i][1], "id")) = Literal(<<id>>)}
    IN  IF with = {} THEN NoRange ELSE Member(text, rooms[Min(with)][1], "name")
RoomsIn(text) == Items(text, Member(text, 1, "rooms"))

\* Bug: the name goes into the text as it is.
PatchedRoomNameRaw(text, id, name) ==
    ReplacedAt(text, NameRange(text, RoomsIn(text), id), <<Quote>> \o name \o <<Quote>>)

\* patch_floorplan_room_name_
PatchedRoomName(text, id, name) ==
    ReplacedAt(text, NameRange(text, RoomsIn(text), id), Literal(name))

\* write_floorplan_document_: an empty document is not written.
Write(text, changed, failure) ==
    IF text = << >> THEN patchAnswer' = failure /\ UNCHANGED <<plan, planText>>
    ELSE planText' = text /\ plan' = changed /\ patchAnswer' = 200

\* POST /api/floorplan/room-name
PatchRoomName(id, name) ==
    Write(PatchedRoomName(planText, id, name),
          [plan EXCEPT !.rooms = [i \in DOMAIN @ |-> IF @[i].id = id THEN [@[i] EXCEPT !.name = name]
                                                     ELSE @[i]]], 404)

\* POST /api/floorplan/radar, POST /api/floorplan/occlusion
PatchRadar(v) ==
    Write(PatchedMember(planText, "radar", Object(<<<<"scale", v>>>>)),
          [plan EXCEPT !.radar = v], 500)

\* POST /api/floorplan/objects
PatchObjects(vs) ==
    Write(PatchedMember(planText, "objects", Array(vs)),
          [plan EXCEPT !.objects = vs], 500)

PlanInit ==
    /\ \E rooms \in {<< >>} \union
                {r \in [1..2 -> [id : RoomIds, name : Names]] : r[1].id # r[2].id},
          v \in Placements :
          plan = [rooms |-> rooms, radar |-> v, objects |-> <<v>>]
    /\ planText = PlanText(plan) /\ patchAnswer = 200

PlanNext ==
    \/ \E id \in RoomIds, name \in Names : PatchRoomName(id, name)
    \/ \E v \in Placements : PatchRadar(v)
    \/ \E v \in Placements, n \in 0..2 : PatchObjects([i \in 1..n |-> v])

PlanSpec == PlanInit /\ [][PlanNext]_planVars

-----------------------------------------------------------------------------
(* Properties.                                                               *)

\* Whatever names and values are patched in, in whatever order, the stored text
\* is that of the floorplan the dashboard has, and a patch of a room that is not
\* there changes nothing.
PatchesKeepTheDocument == planText = PlanText(plan)
=============================================================================
