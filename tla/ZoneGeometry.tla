----------------------------- MODULE ZoneGeometry -----------------------------
(* Where a target is with respect to a drawn area: the ray test of zones and *)
(* of the room, and the distance to the room's boundary.  Coordinates are    *)
(* integers, a distance is kept squared, as a fraction.                      *)
EXTENDS Integers, Sequences, FiniteSets, FiniteSetsExt

CONSTANTS
    Grid,     \* coordinates
    Areas,    \* polygons, each with triangles that together cover it
    XReach, YReach  \* the radar's, 4860 and 7560 mm

ASSUME GeometryAssumption ==
    Grid \subseteq Int /\ \A a \in Areas : a.corners \in Seq(Int \X Int)

VARIABLES area, target
geometryVars == <<area, target>>

Corners == area.corners
Edges(corners) ==
    {<<corners[i], corners[IF i = 1 THEN Len(corners) ELSE i - 1]>> : i \in DOMAIN corners}

ClampTo(v, low, high) == IF v < low THEN low ELSE IF v > high THEN high ELSE v
Clamped(corners) == [i \in DOMAIN corners |->
    <<ClampTo(corners[i][1], -XReach, XReach), ClampTo(corners[i][2], 0, YReach)>>]

\* Bug: an edge is crossed at its lower end and at its upper end.
CrossedAtEnds(a, b, p) ==
    /\ (a[2] >= p[2]) # (b[2] > p[2])
    /\ LET d == b[2] - a[2]
           side == (b[1] - a[1]) * (p[2] - a[2]) - (p[1] - a[1]) * d
       IN  IF d > 0 THEN side > 0 ELSE side < 0

\* The ray from p to growing x crosses the edge from a to b.
Crossed(a, b, p) ==
    /\ (a[2] > p[2]) # (b[2] > p[2])
    /\ LET d == b[2] - a[2]
           side == (b[1] - a[1]) * (p[2] - a[2]) - (p[1] - a[1]) * d
       IN  IF d > 0 THEN side > 0 ELSE side < 0

\* point_in_floorplan_room, point_in_zone_config: each crossing toggles.
PointIn(corners, p) ==
    /\ Len(corners) >= 3
    /\ Cardinality({i \in DOMAIN corners :
           Crossed(corners[i], corners[IF i = 1 THEN Len(corners) ELSE i - 1], p)}) % 2 = 1

\* point_in_zone_config keeps eight corners, clamped to the radar's reach.
PointInZone(corners, p) ==
    PointIn(Clamped(SubSeq(corners, 1, IF Len(corners) > 8 THEN 8 ELSE Len(corners))), p)

Square(v) == v * v
Apart(p, q) == Square(p[1] - q[1]) + Square(p[2] - q[2])

\* Bug: the foot of the perpendicular may be off the segment.
ToLine(p, a, b) ==
    LET cross == (b[1] - a[1]) * (p[2] - a[2]) - (b[2] - a[2]) * (p[1] - a[1])
    IN  IF Apart(a, b) = 0 THEN <<Apart(p, a), 1>> ELSE <<Square(cross), Apart(a, b)>>

\* distance_to_segment_
ToSegment(p, a, b) ==
    LET along == (b[1] - a[1]) * (p[1] - a[1]) + (b[2] - a[2]) * (p[2] - a[2])
        cross == (b[1] - a[1]) * (p[2] - a[2]) - (b[2] - a[2]) * (p[1] - a[1])
    IN  IF Apart(a, b) = 0 \/ along < 0 THEN <<Apart(p, a), 1>>
        ELSE IF along > Apart(a, b) THEN <<Apart(p, b), 1>>
        ELSE <<Square(cross), Apart(a, b)>>

AtMost(f, g) == f[1] * g[2] <= g[1] * f[2]

\* floorplan_room_signed_distance: how far, and on which side.
SignedDistance(corners, p) ==
    IF Len(corners) < 3 THEN [inside |-> FALSE, far |-> <<0, 1>>]
    ELSE LET all == {ToSegment(p, e[2], e[1]) : e \in Edges(corners)}
         IN  [inside |-> PointIn(corners, p),
              far |-> CHOOSE f \in all : \A g \in all : AtMost(f, g)]

GeometryInit == area \in Areas /\ target = <<0, 0>>
MoveTarget == target' \in Grid \X Grid /\ UNCHANGED area
GeometryNext == MoveTarget
GeometrySpec == GeometryInit /\ [][GeometryNext]_geometryVars

-----------------------------------------------------------------------------
(* Properties.                                                               *)

Turn(a, b, p) == (b[1] - a[1]) * (p[2] - a[2]) - (b[2] - a[2]) * (p[1] - a[1])
StrictlyIn(t, p) ==
    \/ \A i \in 1..3 : Turn(t[i], t[(i % 3) + 1], p) > 0
    \/ \A i \in 1..3 : Turn(t[i], t[(i % 3) + 1], p) < 0
Beyond(t, p) ==
    /\ \E i \in 1..3 : Turn(t[i], t[(i % 3) + 1], p) > 0
    /\ \E i \in 1..3 : Turn(t[i], t[(i % 3) + 1], p) < 0
OnEdge(e, p) ==
    /\ Turn(e[1], e[2], p) = 0
    /\ \A k \in 1..2 : \/ e[1][k] <= p[k] /\ p[k] <= e[2][k]
                       \/ e[2][k] <= p[k] /\ p[k] <= e[1][k]

\* A target is in an area when it is within one of the triangles the area is
\* made of, and outside when it is beyond them all, for convex areas and for
\* others, rays through corners and edges along the ray included.
SidesAreRight ==
    /\ (\E t \in area.parts : StrictlyIn(t, target)) => PointIn(Corners, target)
    /\ (\A t \in area.parts : Beyond(t, target)) => ~PointIn(Corners, target)
    /\ (\A i \in DOMAIN Corners : Clamped(Corners)[i] = Corners[i]) =>
          PointInZone(Corners, target) = PointIn(Corners, target)

\* The distance to the boundary is that to its nearest point: none of the
\* boundary's grid points is nearer, and it is zero on the boundary only.
\* (A room of fewer than three corners has no boundary.)
DistanceIsToTheBoundary ==
    Len(Corners) >= 3 =>
    LET d == SignedDistance(Corners, target)
    IN  /\ \A q \in Grid \X Grid :
              (\E e \in Edges(Corners) : OnEdge(e, q)) => AtMost(d.far, <<Apart(target, q), 1>>)
        /\ (d.far[1] = 0) = (\E e \in Edges(Corners) : OnEdge(e, target))
=============================================================================
