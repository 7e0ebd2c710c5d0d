-------------------------------- MODULE RayQuery --------------------------------
(***************************************************************************)
(* The queries of G4OCCTSolidKernel that cast rays: ClassifyPoint() and the *)
(* directed DistanceToIn() and DistanceToOut().                             *)
(*                                                                          *)
(* A solid is a set of unit cells of a grid, Width lattice units wide, so   *)
(* that rays along the axes, among them all that ClassifyPoint() casts,     *)
(* meet faces, edges and vertices of several faces, and solids with steps,  *)
(* overhangs, gaps and separate parts.  Its faces are the squares between a *)
(* cell of the solid and one outside it, each meshed by two triangles.      *)
(* Points are lattice points and the tolerance is less than a lattice step: *)
(* within the tolerance means at the same place.  A planar face with a      *)
(* polygon and one with an intersector answer alike here: the states IN and *)
(* ON of a hit are the inside and the boundary of the polygon.              *)
(***************************************************************************)
EXTENDS Integers, FiniteSets, FiniteSetsExt

CONSTANTS
  Solids,   \* the solids, each a set of cells <<i, j, k>>
  Targets,  \* the points that are asked about
  Width     \* of a cell, in lattice units; a multiple of 8

Axes == 1 .. 3

ASSUME GridAssumption ==
  /\ Width \in Nat \ {0} /\ Width % 8 = 0
  /\ Targets \subseteq [Axes -> Int]
  /\ \A s \in Solids : IsFiniteSet(s) /\ s # {} /\ s \subseteq [Axes -> Int]

VARIABLES
  solid,   \* the shape of the kernel
  meshed,  \* has fTriangleSet any triangles?
  query,   \* what was asked: what, point, ray
  answer   \* the answer: class, or distance and side of the normal

rayVars == <<solid, meshed, query, answer>>

Rays == [axis : Axes, sign : {-1, 1}]

Up == [axis |-> 3, sign |-> 1]

Infinity == 1000

NoQuery  == [what |-> "none", point |-> <<0, 0, 0>>, ray |-> Up]
NoAnswer == [class |-> "none", distance |-> 0, side |-> 0]

RayInit ==
  /\ solid \in Solids
  /\ meshed \in BOOLEAN
  /\ query = NoQuery
  /\ answer = NoAnswer

-----------------------------------------------------------------------------
(* Geometry: the faces, and what a ray finds of them. *)

Neighbour(cell, axis, side) == [cell EXCEPT ![axis] = @ + side]

FacesOf(s) ==
  {f \in [cell : s, axis : Axes, side : {-1, 1}] : Neighbour(f.cell, f.axis, f.side) \notin s}

Faces == [s \in Solids |-> FacesOf(s)]

Level(f) == Width * (f.cell[f.axis] + (f.side + 1) \div 2)

Sides(f) == Axes \ {f.axis}

Local(f, p, k) == p[k] - Width * f.cell[k]

(* The ray lies over the face, its boundary included. *)
Within(f, p) == \A k \in Sides(f) : Local(f, p, k) \in 0 .. Width

(* PointOnPolygonBoundary2d(), or the state ON of an intersection *)
OnBoundary(f, p) == \E k \in Sides(f) : Local(f, p, k) \in {0, Width}

(* The ray parameter of the plane of a face the ray does not run along. *)
Parameter(f, p, ray) == ray.sign * (Level(f) - p[ray.axis])

(* Mutation: the boundary of the polygon does not belong to the face. *)
HitsOpen(p, ray) ==
  {f \in Faces[solid] : f.axis = ray.axis /\ Within(f, p) /\ ~OnBoundary(f, p)}

(* RayPlaneFaceHit() of each face, or the hits of its intersector *)
Hits(p, ray) == {f \in Faces[solid] : f.axis = ray.axis /\ Within(f, p)}

(* The triangles of a face, over and under its diagonal, under the ray, and *)
(* those with the ray over one of their edges.                              *)
Triangles(f, p) ==
  LET a == Local(f, p, Min(Sides(f)))
      b == Local(f, p, Max(Sides(f)))
  IN  {h \in {"lower", "upper"} : IF h = "lower" THEN b <= a ELSE a <= b}

OnTriangleEdge(f, p) ==
  OnBoundary(f, p) \/ Local(f, p, Min(Sides(f))) = Local(f, p, Max(Sides(f)))

(* TriangleRayCast along an axis *)
Cast(p, axis) ==
  LET ahead == {f \in Hits(p, [Up EXCEPT !.axis = axis]) : Level(f) >= p[axis]} IN
  [crossings  |-> Cardinality(UNION {{<<f, h>> : h \in Triangles(f, p)} : f \in ahead}),
   degenerate |-> \E f \in ahead : OnTriangleEdge(f, p)]

Square(x) == x * x

(* How far the face is from p along an axis. *)
Gap(p, f, k) ==
  IF k = f.axis THEN p[k] - Level(f)
  ELSE IF Local(f, p, k) < 0 THEN Local(f, p, k)
  ELSE IF Local(f, p, k) > Width THEN Local(f, p, k) - Width ELSE 0

DistanceSquared(p, f) == Square(Gap(p, f, 1)) + Square(Gap(p, f, 2)) + Square(Gap(p, f, 3))

(* The exact classifier looks at the cells that p belongs to. *)
Around(x) == {(x - 1) \div Width, x \div Width}

CellsAt(p) == Around(p[1]) \X Around(p[2]) \X Around(p[3])

Exact(p) ==
  IF CellsAt(p) \subseteq solid THEN "inside"
  ELSE IF CellsAt(p) \cap solid = {} THEN "outside" ELSE "surface"

-----------------------------------------------------------------------------
(* ComputeInitialSpheres() *)

Lower(s, k) == Width * Min({c[k] : c \in s})
Upper(s, k) == Width * (Max({c[k] : c \in s}) + 1)

(* The centre of the box, and the points half and three quarters of the way *)
(* to its faces and corners.                                                *)
Candidates(s) ==
  LET at(m) == [k \in Axes |-> (Lower(s, k) + Upper(s, k)) \div 2
                               + (m[k] * (Upper(s, k) - Lower(s, k))) \div 8]
  IN  {at(m) : m \in {<<0, 0, 0>>} \cup {Neighbour(<<0, 0, 0>>, k, h) : k \in Axes, h \in {-2, 2}}
                     \cup ({-3, 3} \X {-3, 3} \X {-3, 3})}

Spheres ==
  [s \in Solids |->
    {[centre |-> c, square |-> Min({DistanceSquared(c, f) : f \in FacesOf(s)})] :
       c \in {x \in Candidates(s) : CellsAt(x) \subseteq s}}]

-----------------------------------------------------------------------------
(* ClassifyPoint() *)

OutOfBounds(p) == \E k \in Axes : p[k] < Lower(solid, k) \/ p[k] > Upper(solid, k)

InSphere(p) ==
  \E b \in Spheres[solid] :
    Square(p[1] - b.centre[1]) + Square(p[2] - b.centre[2]) + Square(p[3] - b.centre[3]) < b.square

Parity(n) == IF n % 2 = 1 THEN "inside" ELSE "outside"

(* The triangles come within the deflection of the point.  It is positive   *)
(* wherever there is a triangle, and here less than a lattice step.         *)
Near(p) == \E f \in Faces[solid] : DistanceSquared(p, f) = 0

(* Mutation: an edge that is hit does not spoil the vote of a ray. *)
ByTrianglesUnspoilt(p) ==
  LET up      == Cast(p, 3)
      inside  == {k \in Axes : Cast(p, k).crossings % 2 = 1}
      outside == Axes \ inside
  IN  IF Near(p) THEN Exact(p)
      ELSE IF up.crossings > 0 THEN Parity(up.crossings)
      ELSE IF Cardinality(inside) > Cardinality(outside) THEN "inside" ELSE "outside"

(* Near the triangles the exact classifier answers; else the parity of the  *)
(* ray upwards, unless it meets an edge or nothing; else the vote of the    *)
(* three rays that meet no edge; and the classifier again when it is a tie. *)
ByTriangles(p) ==
  LET up      == Cast(p, 3)
      votes   == {k \in Axes : ~Cast(p, k).degenerate}
      inside  == {k \in votes : Cast(p, k).crossings % 2 = 1}
      outside == votes \ inside
  IN  IF Near(p) THEN Exact(p)
      ELSE IF ~up.degenerate /\ up.crossings > 0 THEN Parity(up.crossings)
      ELSE IF Cardinality(inside) > Cardinality(outside) THEN "inside"
      ELSE IF Cardinality(outside) > Cardinality(inside) THEN "outside"
      ELSE Exact(p)

(* Without triangles: the faces themselves on the ray upwards. *)
ByFaces(p) ==
  LET hits  == Hits(p, Up)
      ahead == {f \in hits : Parameter(f, p, Up) > 0}
      cross == {f \in ahead : ~OnBoundary(f, p)}
  IN  IF \E f \in hits : Parameter(f, p, Up) = 0 THEN "surface"
      ELSE IF cross = {} \/ cross # ahead THEN Exact(p)
      ELSE Parity(Cardinality(cross))

Class(p) ==
  IF OutOfBounds(p) THEN "outside"
  ELSE IF InSphere(p) THEN "inside"
  ELSE IF meshed THEN ByTriangles(p) ELSE ByFaces(p)

Ask(what, p, ray) ==
  /\ query = NoQuery
  /\ query' = [what |-> what, point |-> p, ray |-> ray]
  /\ UNCHANGED <<solid, meshed>>

ClassifyPointAt(p) ==
  /\ Ask("ClassifyPoint", p, Up)
  /\ answer' = [NoAnswer EXCEPT !.class = Class(p)]

-----------------------------------------------------------------------------
(* The directed distances *)

Ahead(p, ray) == {f \in Hits(p, ray) : Parameter(f, p, ray) > 0}

Closest(p, ray) ==
  {f \in Ahead(p, ray) : \A g \in Ahead(p, ray) : Parameter(f, p, ray) <= Parameter(g, p, ray)}

DistanceToInAlong(p, ray) ==
  /\ Ask("DistanceToIn", p, ray)
  /\ answer' = [NoAnswer EXCEPT !.distance =
                  IF Ahead(p, ray) = {} THEN Infinity
                  ELSE Min({Parameter(f, p, ray) : f \in Ahead(p, ray)})]

(* With the normal of the face the minimum is found on first: of faces that *)
(* share the hit any may be the first.                                      *)
DistanceToOutAlong(p, ray) ==
  /\ Ask("DistanceToOut", p, ray)
  /\ \/ Ahead(p, ray) = {} /\ answer' = NoAnswer
     \/ \E f \in Closest(p, ray) :
          answer' = [NoAnswer EXCEPT !.distance = Parameter(f, p, ray), !.side = f.side]

Return ==
  /\ query # NoQuery
  /\ query' = NoQuery
  /\ answer' = NoAnswer
  /\ UNCHANGED <<solid, meshed>>

RayNext ==
  \/ \E p \in Targets :
       \/ ClassifyPointAt(p)
       \/ \E ray \in Rays : DistanceToInAlong(p, ray) \/ DistanceToOutAlong(p, ray)
  \/ Return

RaySpec == RayInit /\ [][RayNext]_rayVars

-----------------------------------------------------------------------------
(* Properties. *)

(* ClassifyPoint() says what the exact classifier would say, by whichever   *)
(* tier it answers: a sphere, the parity of a ray, the vote of three, or    *)
(* the faces when there is no mesh, also where rays run along faces and     *)
(* through edges and vertices.                                              *)
ClassifyRight ==
  query.what = "ClassifyPoint" => answer.class = Exact(query.point)

Along(t) == [query.point EXCEPT ![query.ray.axis] = @ + t * query.ray.sign]

(* A directed distance ends on the surface, and no matter is skipped before *)
(* it: from outside the ray has not been inside the solid yet, to the end   *)
(* of the grid when there is no hit, and from inside it has not left it,    *)
(* and the normal points along the ray.                                     *)
NoMatterSkipped ==
  LET from == Exact(query.point)
      d    == answer.distance
      end  == 8 * Width
  IN  /\ query.what = "DistanceToIn" /\ from = "outside" =>
           /\ d < Infinity => Exact(Along(d)) = "surface"
           /\ \A t \in 0 .. Min({d, end}) : Exact(Along(t)) # "inside"
      /\ query.what = "DistanceToOut" /\ from = "inside" =>
           /\ d > 0 /\ Exact(Along(d)) = "surface"
           /\ \A t \in 0 .. d : Exact(Along(t)) # "outside"
           /\ answer.side = query.ray.sign
=============================================================================
