------------------------------ MODULE SphereCache ------------------------------
(***************************************************************************)
(* The spheres of one thread: seeded from the kernel's initial spheres, fed *)
(* by DistanceToOut(p) with every lower bound it computes, and used by      *)
(* ClassifyPoint() to answer kInside without touching OCCT.                 *)
(*                                                                          *)
(* Space is any set with a distance.  A shape is the set of points strictly *)
(* inside it, those of its bounding box, and its faces; a face is the       *)
(* points of its surface, those of its plane (none for a curved face),      *)
(* those of its triangles, and the deflection the code ascribes to it.      *)
(* No sphere is assumed inscribed: a radius is what DistanceToOut() and     *)
(* ComputeInitialSpheres() compute from the planes, from the nearest        *)
(* triangle or from the surface.                                            *)
(***************************************************************************)
EXTENDS Integers, Sequences, FiniteSets

CONSTANTS
  Points,      \* the points of space
  Distance(_, _),
  Shapes,      \* Shapes[g]: the shape of generation g
  Tolerance,   \* IntersectionTolerance()
  MaxSpheres,  \* kMaxInscribedSpheres
  MaxSeeds,    \* bound: candidates that become initial spheres
  MaxSetShape  \* bound: SetShape() calls in a behaviour

ASSUME DistanceAssumption ==
  /\ \A p, q \in Points : Distance(p, q) \in Nat
  /\ \A p, q, r \in Points : Distance(p, r) <= Distance(p, q) + Distance(q, r)

ASSUME SphereCacheAssumption ==
  /\ MaxSetShape \in Nat
  /\ Tolerance \in Nat
  /\ MaxSpheres \in Nat \ {0}
  /\ MaxSeeds \in 0 .. MaxSpheres

Inside(g)  == Shapes[g].inside
FacesAt(g) == Shapes[g].faces

(* The points inside or on the surface. *)
Solid(g) == Inside(g) \cup UNION {f.surface : f \in FacesAt(g)}

(* The points ClassifyPoint() does not call outside at once. *)
Bounds(g) == Shapes[g].box

(* The way from the solid to a point outside meets the surface, a planar face *)
(* lies in its plane, and the mesher has kept to the deflection.              *)
ASSUME ShapesAssumption ==
  \A g \in 0 .. MaxSetShape :
    /\ Inside(g) \subseteq Points
    /\ Solid(g) \subseteq Bounds(g)
    /\ \A p \in Solid(g), q \in Points \ Inside(g) :
         \E f \in FacesAt(g) : \E x \in f.surface :
           Distance(p, x) + Distance(x, q) = Distance(p, q)
    /\ \A f \in FacesAt(g) :
         /\ f.surface \subseteq Points /\ f.plane \subseteq Points /\ f.triangles \subseteq Points
         /\ f.plane # {} => f.surface \subseteq f.plane
         /\ f.deflection \in Nat
         /\ f.triangles # {} =>
              \A x \in f.surface : \E y \in f.triangles : Distance(x, y) <= f.deflection

VARIABLES
  gen,      \* fShapeGeneration
  seeds,    \* fInitialSpheres
  spheres,  \* cache.spheres
  tag       \* cache.generation

vars == <<gen, seeds, spheres, tag>>

(* The tag of a cache never filled. *)
NoGen == -1

Sphere == [centre : Points, radius : Nat]

-----------------------------------------------------------------------------
(* The bounds.  Each is the set of values the code may obtain: one, or none  *)
(* for infinity, or several when triangles of two faces are equally near.    *)

AtLeastZero(d) == IF d < 0 THEN 0 ELSE d

(* The least distance from p to a set of points. *)
NearestIn(p, set) ==
  {Distance(p, x) : x \in {y \in set : \A z \in set : Distance(p, y) <= Distance(p, z)}}

AllFacesPlanar(g) == \A f \in FacesAt(g) : f.plane # {}

(* PlanarFaceLowerBoundDistance() of an all-planar solid *)
PlaneBounds(g, p) == NearestIn(p, UNION {f.plane : f \in FacesAt(g)})

TriangleSet(g) == UNION {f.triangles : f \in FacesAt(g)}

(* BVHLowerBoundDistance(): the deflection of the nearest triangle's face is *)
(* taken off.                                                                *)
BVHBounds(g, p) ==
  UNION {{AtLeastZero(d - f.deflection) :
            d \in NearestIn(p, TriangleSet(g)) \cap {Distance(p, y) : y \in f.triangles}} :
         f \in FacesAt(g)}

(* TryFindClosestFace() *)
ExactDistances(g, p) == NearestIn(p, UNION {f.surface : f \in FacesAt(g)})

(* What DistanceToOut(p) may return, where that exceeds the tolerance. *)
OutBounds(g, p) ==
  IF AllFacesPlanar(g) THEN PlaneBounds(g, p)
  ELSE IF BVHBounds(g, p) # {} THEN BVHBounds(g, p) ELSE ExactDistances(g, p)

(* The radius ComputeInitialSpheres() takes: the bound from the triangles, or *)
(* the exact distance when that is infinite or within the tolerance.          *)
SeedRadii(g, p) ==
  {d \in BVHBounds(g, p) : d > Tolerance} \cup
  {d \in ExactDistances(g, p) :
     /\ d > Tolerance
     /\ BVHBounds(g, p) = {} \/ \E b \in BVHBounds(g, p) : b <= Tolerance}

-----------------------------------------------------------------------------

Descending(list) ==
  \A i, j \in 1 .. Len(list) : i < j => list[j].radius <= list[i].radius

(* The spheres of the candidates found inside and not too close to the       *)
(* surface.                                                                  *)
Seedable(g) ==
  UNION {{[centre |-> p, radius |-> d] : d \in SeedRadii(g, p)} : p \in Inside(g)}

(* What ComputeInitialSpheres() may leave for a shape, for some candidates:  *)
(* largest first.                                                            *)
SeedLists(g) ==
  {list \in UNION {[1 .. n -> Seedable(g)] : n \in 0 .. MaxSeeds} :
     /\ Descending(list)
     /\ \A i, j \in 1 .. Len(list) : i # j => list[i].centre # list[j].centre}

TypeOK ==
  /\ gen \in 0 .. MaxSetShape
  /\ seeds \in Seq(Sphere)
  /\ spheres \in Seq(Sphere)
  /\ tag \in {NoGen} \cup 0 .. MaxSetShape

Init ==
  /\ gen = 0
  /\ seeds \in SeedLists(0)
  /\ spheres = <<>>
  /\ tag = NoGen

-----------------------------------------------------------------------------

(* Mutation: spheres are seeded once and never again. *)
ContentNeverReseeded == IF tag = NoGen THEN seeds ELSE spheres

(* GetOrInitSphereCache(): the content of the cache after the call. *)
Content == IF tag = gen THEN spheres ELSE seeds

(* The sphere is not worth keeping: too small for a full cache, or contained *)
(* in one that is already there.                                             *)
Rejected(list, new) ==
  \/ Len(list) >= MaxSpheres /\ new.radius <= list[Len(list)].radius
  \/ \E i \in 1 .. Len(list) :
       /\ list[i].radius >= new.radius
       /\ Distance(list[i].centre, new.centre) <= list[i].radius - new.radius

(* std::lower_bound() over the descending radii. *)
IsInsertionPoint(list, radius, k) ==
  /\ \A i \in 1 .. k - 1 : list[i].radius > radius
  /\ k <= Len(list) => list[k].radius <= radius

(* Mutation: nothing is popped. *)
InsertWithoutLimit(list, k, new) ==
  [i \in 1 .. Len(list) + 1 |-> IF i < k THEN list[i] ELSE IF i = k THEN new ELSE list[i - 1]]

(* Mutation: the limit drops the front of the list. *)
InsertDropFirst(list, k, new) ==
  LET longer == InsertWithoutLimit(list, k, new)
  IN  IF Len(longer) > MaxSpheres THEN Tail(longer) ELSE longer

(* insert() at k, then pop_back() if the limit is passed. *)
InsertAt(list, k, new) ==
  LET size == IF Len(list) < MaxSpheres THEN Len(list) + 1 ELSE MaxSpheres
  IN  [i \in 1 .. size |-> IF i < k THEN list[i] ELSE IF i = k THEN new ELSE list[i - 1]]

(* Mutation: the cache is tagged ahead of the kernel. *)
DistanceToOutTagsNext(p) ==
  /\ p \in Solid(gen)
  /\ \E d \in OutBounds(gen, p) : d > Tolerance
  /\ tag' = gen + 1
  /\ spheres' = Content
  /\ UNCHANGED <<gen, seeds>>

(* DistanceToOut(p), which Geant4 asks for points inside or on the surface,  *)
(* ends in TryInsertSphere(): the bound is taken as a radius as it is, but   *)
(* one within the tolerance leaves the cache alone.                          *)
DistanceToOut(p) ==
  /\ p \in Solid(gen)
  /\ \E d \in OutBounds(gen, p) :
       LET new == [centre |-> p, radius |-> d]
       IN  /\ d > Tolerance
           /\ \/ /\ Rejected(Content, new)
                 /\ spheres' = Content
              \/ /\ ~Rejected(Content, new)
                 /\ \E k \in 1 .. Len(Content) + 1 :
                      /\ IsInsertionPoint(Content, d, k)
                      /\ spheres' = InsertAt(Content, k, new)
  /\ tag' = gen
  /\ UNCHANGED <<gen, seeds>>

(* ClassifyPoint() past the bounding-box test. *)
ClassifyPoint ==
  /\ tag # gen
  /\ spheres' = Content
  /\ tag' = gen
  /\ UNCHANGED <<gen, seeds>>

(* SetShape(), between queries. *)
SetShape ==
  /\ gen < MaxSetShape
  /\ gen' = gen + 1
  /\ seeds' \in SeedLists(gen + 1)
  /\ UNCHANGED <<spheres, tag>>

Next ==
  \/ SetShape
  \/ ClassifyPoint
  \/ \E p \in Points : DistanceToOut(p)

Spec == Init /\ [][Next]_vars

-----------------------------------------------------------------------------
(* Properties. *)

(* What ClassifyPoint() tests before it answers kInside. *)
AnsweredInside(p) ==
  /\ p \in Bounds(gen)
  /\ \E i \in 1 .. Len(Content) :
       LET s == Content[i]
       IN  Distance(s.centre, p) < s.radius - Tolerance

(* The mesher has given up on no face, or on all of them. *)
Meshed(g) ==
  \A f, h \in FacesAt(g) : f.triangles = {} <=> h.triangles = {}

(* kInside from the fast path is right for the shape the kernel now holds up  *)
(* to what the deflections of two faces differ.  A point q that is not inside *)
(* is farther from the point p answered than the tolerance, unless q is       *)
(* nearer than that difference can explain to some point x of the surface.    *)
(* With equal deflections everything within the tolerance of p is inside; and *)
(* taking p for q, a point answered that is not inside is within the          *)
(* difference, less the tolerance, of the surface.                            *)
FastPathSound ==
  Meshed(gen) =>
    \A p \in Points : AnsweredInside(p) =>
      \A q \in Points \ Inside(gen) :
        \E f, h \in FacesAt(gen) : \E x \in f.surface :
          Distance(x, q) + Tolerance < Distance(p, q) + f.deflection - h.deflection

(* TryInsertSphere() searches with std::lower_bound and evicts the last one: *)
(* both need the spheres to stay in descending order, within the limit.      *)
OrderedAndBounded ==
  /\ Descending(spheres)
  /\ Len(spheres) <= MaxSpheres

(* While the shape stays, a point once answered by the fast path is answered *)
(* by it from then on, unless the limit makes the cache drop a sphere; then  *)
(* only one is dropped, and it is none of the larger ones.                   *)
Kept(list, s) == \E i \in 1 .. Len(list) : list[i] = s

NothingBetterEvicted ==
  [][UNCHANGED gen =>
       \A i \in 1 .. Len(Content) :
         ~Kept(Content', Content[i]) =>
           /\ i = Len(Content)
           /\ Len(Content) = MaxSpheres
           /\ \A j \in 1 .. Len(Content') : Content'[j].radius >= Content[i].radius]_vars
=============================================================================
