------------------------- MODULE ClassifyPointProofs -------------------------
(***************************************************************************)
(* Theorems about what ClassifyPoint() rests on and what it answers.  The  *)
(* first part is about SphereCache, for any points of space, any distance  *)
(* that obeys the triangle inequality, any shapes with any triangles and   *)
(* deflections, and any limits; the second about RayQuery, for any finite solids and points *)
(* of the grid.  One module, since the spheres of the first part are a     *)
(* tier of the second.                                                     *)
(***************************************************************************)
EXTENDS SphereCache, RayQuery, FiniteSetTheorems, FunctionTheorems,
        WellFoundedInduction, TLAPS

-----------------------------------------------------------------------------
(* The cache of inscribed spheres. *)

(* A sphere belongs to a solid: its centre does, and if the mesher has given   *)
(* up on no face it reaches beyond a point of the surface by no more than what *)
(* the deflection of that face exceeds another's.                              *)
Reaches(s, g) ==
  \A f \in FacesAt(g) : \A x \in f.surface :
    \E h \in FacesAt(g) : s.radius <= Distance(s.centre, x) + f.deflection - h.deflection

Belongs(s, g) == s.centre \in Solid(g) /\ (Meshed(g) => Reaches(s, g))

AllBelong(list, g) == \A i \in 1 .. Len(list) : Belongs(list[i], g)

(* The seeds belong to the shape held, the spheres to the shape of their tag. *)
IInv ==
  /\ TypeOK
  /\ Descending(seeds) /\ Len(seeds) <= MaxSpheres /\ AllBelong(seeds, gen)
  /\ OrderedAndBounded
  /\ tag # NoGen => AllBelong(spheres, tag)

(* The points of a solid and of its faces are points of space. *)
LEMMA FacesAre ==
  ASSUME NEW g \in 0 .. MaxSetShape
  PROVE  /\ Solid(g) \subseteq Points /\ TriangleSet(g) \subseteq Points
         /\ UNION {f.surface : f \in FacesAt(g)} \subseteq Points
         /\ UNION {f.plane : f \in FacesAt(g)} \subseteq Points
<1>1. /\ Inside(g) \subseteq Points
      /\ \A f \in FacesAt(g) :
           f.surface \subseteq Points /\ f.plane \subseteq Points /\ f.triangles \subseteq Points
  BY ShapesAssumption
<1> QED
  BY <1>1 DEF Solid, TriangleSet

(* A nearest distance is the distance to no point exceeded. *)
LEMMA NearestInIs ==
  ASSUME NEW p \in Points, NEW set \in SUBSET Points, NEW d \in NearestIn(p, set)
  PROVE  d \in Nat /\ \A x \in set : d <= Distance(p, x)
BY DistanceAssumption DEF NearestIn

(* A bound from the planes, or the exact distance, stops at the surface. *)
LEMMA NearestReaches ==
  ASSUME NEW g \in 0 .. MaxSetShape, NEW p \in Points, NEW set \in SUBSET Points,
         \A f \in FacesAt(g) : f.surface \subseteq set,
         NEW d \in NearestIn(p, set)
  PROVE  Reaches([centre |-> p, radius |-> d], g)
<1> SUFFICES ASSUME NEW f \in FacesAt(g), NEW x \in f.surface
             PROVE  d <= Distance(p, x) + f.deflection - f.deflection
  BY DEF Reaches
<1>1. d \in Nat /\ d <= Distance(p, x)
  BY NearestInIs
<1>2. f.deflection \in Nat /\ x \in Points
  BY ShapesAssumption
<1>3. Distance(p, x) \in Nat
  BY <1>2, DistanceAssumption
<1> QED
  BY <1>1, <1>2, <1>3

(* The bound from the nearest triangle, less the deflection of its face,       *)
(* reaches beyond another face by what that face's deflection is larger.       *)
LEMMA BVHReaches ==
  ASSUME NEW g \in 0 .. MaxSetShape, Meshed(g), NEW p \in Points, NEW d \in BVHBounds(g, p)
  PROVE  Reaches([centre |-> p, radius |-> d], g)
<1>1. PICK h \in FacesAt(g), y \in TriangleSet(g) :
        /\ y \in h.triangles /\ Distance(p, y) \in NearestIn(p, TriangleSet(g))
        /\ d = AtLeastZero(Distance(p, y) - h.deflection)
  BY DEF BVHBounds, TriangleSet
<1>2. h.deflection \in Nat
  BY ShapesAssumption
<1> SUFFICES ASSUME NEW f \in FacesAt(g), NEW x \in f.surface
             PROVE  \E k \in FacesAt(g) : d <= Distance(p, x) + f.deflection - k.deflection
  BY DEF Reaches
<1>3. f.deflection \in Nat /\ x \in Points
  BY ShapesAssumption
<1>4. f.triangles # {}
  BY <1>1 DEF Meshed
<1>5. PICK z \in f.triangles : Distance(x, z) <= f.deflection
  BY <1>4, ShapesAssumption
<1>6. z \in TriangleSet(g) /\ z \in Points /\ y \in Points
  BY <1>5, FacesAre DEF TriangleSet
<1>7. Distance(p, y) <= Distance(p, z)
  BY <1>1, <1>6, FacesAre, NearestInIs
<1>8. Distance(p, z) <= Distance(p, x) + Distance(x, z)
  BY <1>3, <1>6, DistanceAssumption
<1>9. /\ Distance(p, y) \in Nat /\ Distance(p, z) \in Nat /\ Distance(p, x) \in Nat
      /\ Distance(x, z) \in Nat
  BY <1>3, <1>6, DistanceAssumption
<1>10. CASE Distance(p, y) - h.deflection < 0
  <2>1. d = 0
    BY <1>1, <1>10 DEF AtLeastZero
  <2>2. d <= Distance(p, x) + f.deflection - f.deflection
    BY <2>1, <1>3, <1>9
  <2> QED
    BY <2>2
<1>11. CASE ~(Distance(p, y) - h.deflection < 0)
  <2>1. d = Distance(p, y) - h.deflection
    BY <1>1, <1>11 DEF AtLeastZero
  <2>2. d <= Distance(p, x) + f.deflection - h.deflection
    BY <2>1, <1>2, <1>3, <1>5, <1>7, <1>8, <1>9
  <2> QED
    BY <2>2
<1> QED
  BY <1>10, <1>11

(* All bounds are numbers. *)
LEMMA BoundsAreNat ==
  ASSUME NEW g \in 0 .. MaxSetShape, NEW p \in Points
  PROVE  /\ PlaneBounds(g, p) \subseteq Nat /\ ExactDistances(g, p) \subseteq Nat
         /\ BVHBounds(g, p) \subseteq Nat
<1>1. PlaneBounds(g, p) \subseteq Nat /\ ExactDistances(g, p) \subseteq Nat
  BY FacesAre, NearestInIs DEF PlaneBounds, ExactDistances
<1>2. ASSUME NEW d \in BVHBounds(g, p) PROVE d \in Nat
  <2>1. PICK h \in FacesAt(g), y \in TriangleSet(g) :
          d = AtLeastZero(Distance(p, y) - h.deflection)
    BY DEF BVHBounds, TriangleSet
  <2>2. Distance(p, y) \in Nat /\ h.deflection \in Nat
    BY ShapesAssumption, FacesAre, DistanceAssumption
  <2> QED
    BY <2>1, <2>2 DEF AtLeastZero
<1> QED
  BY <1>1, <1>2

(* What DistanceToOut() inserts and what ComputeInitialSpheres() keeps belongs *)
(* to the solid.                                                               *)
LEMMA BoundsBelong ==
  ASSUME NEW g \in 0 .. MaxSetShape, NEW p \in Solid(g),
         NEW d \in OutBounds(g, p) \cup SeedRadii(g, p)
  PROVE  [centre |-> p, radius |-> d] \in Sphere /\ Belongs([centre |-> p, radius |-> d], g)
<1>1. p \in Points
  BY FacesAre
<1>2. /\ d \in PlaneBounds(g, p) \cup BVHBounds(g, p) \cup ExactDistances(g, p)
      /\ d \in PlaneBounds(g, p) => AllFacesPlanar(g) \/ d \in BVHBounds(g, p) \cup ExactDistances(g, p)
  BY DEF OutBounds, SeedRadii
<1>3. d \in Nat
  BY <1>1, <1>2, BoundsAreNat
<1>4. ASSUME Meshed(g) PROVE Reaches([centre |-> p, radius |-> d], g)
  <2>1. CASE d \in BVHBounds(g, p)
    BY <1>1, <1>4, <2>1, BVHReaches
  <2>2. CASE d \in ExactDistances(g, p)
    <3>1. \A f \in FacesAt(g) : f.surface \subseteq UNION {k.surface : k \in FacesAt(g)}
      OBVIOUS
    <3> QED
      BY <1>1, <2>2, <3>1, FacesAre, NearestReaches DEF ExactDistances
  <2>3. CASE d \in PlaneBounds(g, p) /\ AllFacesPlanar(g)
    <3>1. \A f \in FacesAt(g) : f.surface \subseteq f.plane
      BY <2>3, ShapesAssumption DEF AllFacesPlanar
    <3>2. \A f \in FacesAt(g) : f.surface \subseteq UNION {k.plane : k \in FacesAt(g)}
      BY <3>1
    <3> QED
      BY <1>1, <2>3, <3>2, FacesAre, NearestReaches DEF PlaneBounds
  <2> QED
    BY <1>2, <2>1, <2>2, <2>3
<1> QED
  BY <1>1, <1>3, <1>4 DEF Sphere, Belongs

(* What SetShape() may leave as seeds. *)
LEMMA SeedListsAre ==
  ASSUME NEW g \in 0 .. MaxSetShape, NEW list \in SeedLists(g)
  PROVE  /\ list \in Seq(Sphere) /\ Descending(list)
         /\ Len(list) <= MaxSpheres /\ AllBelong(list, g)
<1>1. PICK n \in 0 .. MaxSeeds : list \in [1 .. n -> Seedable(g)]
  BY DEF SeedLists
<1>2. n \in Nat /\ n <= MaxSpheres
  BY SphereCacheAssumption
<1>3. list \in Seq(Seedable(g)) /\ Len(list) = n
  BY <1>1, <1>2
<1>4. list \in Seq(Sphere)
  <2>1. Seedable(g) \subseteq Sphere
    BY BoundsBelong DEF Seedable, Solid
  <2>2. \A i \in 1 .. n : list[i] \in Sphere
    BY <1>1, <2>1
  <2> QED
    BY <1>1, <1>2, <2>2
<1>5. Descending(list)
  BY DEF SeedLists
<1>6. AllBelong(list, g)
  <2>1. \A q \in Seedable(g) : Belongs(q, g)
    BY BoundsBelong DEF Seedable, Solid
  <2>2. \A i \in 1 .. n : list[i] \in Seedable(g)
    BY <1>1
  <2> QED
    BY <1>3, <2>1, <2>2 DEF AllBelong
<1> QED
  BY <1>2, <1>3, <1>4, <1>5, <1>6

(* Inserting at the insertion point keeps the order and the limit, and brings *)
(* in nothing but the new sphere.                                             *)
LEMMA InsertKeepsOrder ==
  ASSUME NEW list \in Seq(Sphere), Descending(list), Len(list) <= MaxSpheres,
         NEW new \in Sphere, NEW k \in 1 .. Len(list) + 1,
         IsInsertionPoint(list, new.radius, k)
  PROVE  LET out == InsertAt(list, k, new)
         IN  /\ out \in Seq(Sphere) /\ Descending(out) /\ Len(out) <= MaxSpheres
             /\ \A i \in 1 .. Len(out) :
                  out[i] = new \/ \E j \in 1 .. Len(list) : out[i] = list[j]
<1> DEFINE size == IF Len(list) < MaxSpheres THEN Len(list) + 1 ELSE MaxSpheres
           item(i) == IF i < k THEN list[i] ELSE IF i = k THEN new ELSE list[i - 1]
           out == InsertAt(list, k, new)
<1>1. /\ Len(list) \in Nat /\ MaxSpheres \in Nat /\ size \in Nat
      /\ size <= Len(list) + 1 /\ size <= MaxSpheres
  <2>1. Len(list) \in Nat /\ MaxSpheres \in Nat
    BY SphereCacheAssumption
  <2> QED
    BY <2>1
<1>2. out = [i \in 1 .. size |-> item(i)]
  BY DEF InsertAt
<1>3. ASSUME NEW i \in 1 .. size
      PROVE  /\ item(i) \in Sphere
             /\ item(i) = new \/ \E j \in 1 .. Len(list) : item(i) = list[j]
  <2>1. CASE i < k
    BY <1>1, <2>1
  <2>2. CASE i = k
    BY <2>2
  <2>3. CASE i > k
    <3>1. i - 1 \in 1 .. Len(list) /\ item(i) = list[i - 1]
      BY <1>1, <2>3
    <3> QED
      BY <3>1
  <2> QED
    BY <1>1, <2>1, <2>2, <2>3
<1>4. out \in Seq(Sphere) /\ Len(out) = size
  <2> HIDE DEF item, size
  <2> QED
    BY <1>1, <1>2, <1>3
<1>5. \A i \in 1 .. size : out[i] = item(i)
  <2> HIDE DEF item, size, out
  <2> QED
    BY <1>2
<1>6. Descending(out)
  <2> SUFFICES ASSUME NEW i \in 1 .. size, NEW j \in 1 .. size, i < j
               PROVE  item(j).radius <= item(i).radius
    <3> HIDE DEF item, size, out
    <3> QED
      BY <1>4, <1>5 DEF Descending
  <2>1. \A m \in 1 .. Len(list) : list[m].radius \in Int
    <3>1. \A s \in Sphere : s.radius \in Int
      BY DEF Sphere
    <3>2. \A m \in 1 .. Len(list) : list[m] \in Sphere
      OBVIOUS
    <3> QED
      BY <3>1, <3>2
  <2>2. new.radius \in Int
    BY DEF Sphere
  <2>3. \A m \in 1 .. Len(list) : m < k => list[m].radius > new.radius
    BY <1>1 DEF IsInsertionPoint
  <2>4. \A m \in 1 .. Len(list) : m >= k => list[m].radius <= new.radius
    <3> SUFFICES ASSUME NEW m \in 1 .. Len(list), m >= k PROVE list[m].radius <= new.radius
      OBVIOUS
    <3>1. k \in 1 .. Len(list) /\ list[k].radius <= new.radius
      BY <1>1 DEF IsInsertionPoint
    <3>2. m = k \/ list[m].radius <= list[k].radius
      BY <1>1, <3>1 DEF Descending
    <3> QED
      BY <2>1, <2>2, <3>1, <3>2
  <2>5. CASE j < k
    BY <1>1, <2>5 DEF Descending
  <2>6. CASE j = k
    BY <1>1, <2>1, <2>2, <2>3, <2>6
  <2>7. CASE j > k
    <3>1. j - 1 \in 1 .. Len(list) /\ item(j) = list[j - 1]
      BY <1>1, <2>7
    <3>2. CASE i < k
      <4>1. i \in 1 .. Len(list) /\ item(i) = list[i] /\ i < j - 1
        BY <1>1, <2>7, <3>2
      <4> QED
        BY <3>1, <4>1 DEF Descending
    <3>3. CASE i = k
      BY <1>1, <2>4, <2>7, <3>1, <3>3
    <3>4. CASE i > k
      <4>1. i - 1 \in 1 .. Len(list) /\ item(i) = list[i - 1] /\ i - 1 < j - 1
        BY <1>1, <2>7, <3>1, <3>4
      <4> QED
        BY <3>1, <4>1 DEF Descending
    <3> QED
      BY <1>1, <3>2, <3>3, <3>4
  <2> QED
    BY <1>1, <2>5, <2>6, <2>7
<1> HIDE DEF out, item, size
<1> QED
  BY <1>1, <1>3, <1>4, <1>5, <1>6 DEF out

(* The constructor has computed the seeds of the first shape. *)
LEMMA InvInit == Init => IInv
<1> SUFFICES ASSUME Init PROVE IInv
  OBVIOUS
<1>1. 0 \in 0 .. MaxSetShape /\ MaxSpheres \in Nat
  BY SphereCacheAssumption
<1>2. /\ seeds \in Seq(Sphere) /\ Descending(seeds)
      /\ Len(seeds) <= MaxSpheres /\ AllBelong(seeds, gen)
  BY <1>1, SeedListsAre DEF Init
<1>3. spheres \in Seq(Sphere) /\ Len(spheres) = 0
  BY DEF Init
<1>4. Descending(spheres)
  BY <1>3 DEF Descending
<1> QED
  BY <1>1, <1>2, <1>3, <1>4 DEF Init, IInv, TypeOK, OrderedAndBounded

(* What GetOrInitSphereCache() returns belongs to the shape held. *)
LEMMA ContentIsCurrent ==
  ASSUME IInv
  PROVE  /\ Content \in Seq(Sphere) /\ Descending(Content)
         /\ Len(Content) <= MaxSpheres /\ AllBelong(Content, gen)
<1>1. gen # NoGen
  BY DEF IInv, TypeOK, NoGen
<1> QED
  BY <1>1 DEF IInv, TypeOK, OrderedAndBounded, Content

(* Queries and SetShape() keep the order and the limit, and each sphere its solid. *)
LEMMA InvStep == IInv /\ [Next]_vars => IInv'
<1> SUFFICES ASSUME IInv, [Next]_vars PROVE IInv'
  OBVIOUS
<1>1. CASE SetShape
  <2>1. gen + 1 \in 0 .. MaxSetShape
    BY <1>1, SphereCacheAssumption DEF SetShape, IInv, TypeOK
  <2>2. /\ seeds' \in Seq(Sphere) /\ Descending(seeds')
        /\ Len(seeds') <= MaxSpheres /\ AllBelong(seeds', gen')
    BY <1>1, <2>1, SeedListsAre DEF SetShape
  <2> QED
    BY <1>1, <2>1, <2>2 DEF SetShape, IInv, TypeOK, OrderedAndBounded, AllBelong, Descending
<1>2. CASE ClassifyPoint
  BY <1>2, ContentIsCurrent
  DEF ClassifyPoint, IInv, TypeOK, OrderedAndBounded, AllBelong, Descending
<1>3. ASSUME NEW p \in Points, DistanceToOut(p) PROVE IInv'
  <2>0. PICK d \in OutBounds(gen, p) :
          \/ spheres' = Content
          \/ \E k \in 1 .. Len(Content) + 1 :
               /\ IsInsertionPoint(Content, d, k)
               /\ spheres' = InsertAt(Content, k, [centre |-> p, radius |-> d])
    BY <1>3 DEF DistanceToOut
  <2> DEFINE new == [centre |-> p, radius |-> d]
             Good == /\ spheres' \in Seq(Sphere) /\ Descending(spheres')
                     /\ Len(spheres') <= MaxSpheres /\ AllBelong(spheres', gen)
  <2>1. new \in Sphere /\ new.radius = d /\ Belongs(new, gen)
    <3>1. gen \in 0 .. MaxSetShape /\ p \in Solid(gen)
      BY <1>3 DEF DistanceToOut, IInv, TypeOK
    <3> QED
      BY <3>1, BoundsBelong
  <2>2. tag' = gen /\ UNCHANGED <<gen, seeds>>
    BY <1>3 DEF DistanceToOut
  <2>3. Good
    <3>1. CASE spheres' = Content
      BY <3>1, ContentIsCurrent
    <3>2. ASSUME NEW k \in 1 .. Len(Content) + 1, IsInsertionPoint(Content, d, k),
                 spheres' = InsertAt(Content, k, new)
          PROVE  Good
      <4>1. /\ spheres' \in Seq(Sphere) /\ Descending(spheres')
            /\ Len(spheres') <= MaxSpheres
            /\ \A i \in 1 .. Len(spheres') :
                 spheres'[i] = new \/ \E j \in 1 .. Len(Content) : spheres'[i] = Content[j]
        BY <2>1, <3>2, ContentIsCurrent, InsertKeepsOrder
      <4>2. AllBelong(spheres', gen)
        BY <4>1, <2>1, ContentIsCurrent DEF AllBelong
      <4> QED
        BY <4>1, <4>2
    <3>3. \/ spheres' = Content
          \/ \E k \in 1 .. Len(Content) + 1 :
               IsInsertionPoint(Content, d, k) /\ spheres' = InsertAt(Content, k, new)
      BY <2>0
    <3> HIDE DEF Good, new
    <3> QED
      BY <3>1, <3>2, <3>3
  <2> QED
    BY <2>2, <2>3 DEF IInv, TypeOK, OrderedAndBounded, AllBelong, Descending
<1>4. CASE UNCHANGED vars
  BY <1>4 DEF vars, IInv, TypeOK, OrderedAndBounded, AllBelong, Descending
<1> QED
  BY <1>1, <1>2, <1>3, <1>4 DEF Next

(* Type correctness. *)
THEOREM TypeCorrect == Spec => []TypeOK
<1>1. IInv => TypeOK
  BY DEF IInv
<1> QED
  BY <1>1, InvInit, InvStep, PTL DEF Spec

(* The spheres stay in descending order and within the limit. *)
THEOREM SpheresOrderedAndBounded == Spec => []OrderedAndBounded
<1>1. IInv => OrderedAndBounded
  BY DEF IInv
<1> QED
  BY <1>1, InvInit, InvStep, PTL DEF Spec

(* The fast path of ClassifyPoint() answers kInside for points of the shape    *)
(* held, farther than the tolerance from its surface, up to what the deflections *)
(* of two faces differ, unless the mesher has given up on some faces only.     *)
THEOREM InsideAnswersAreSound == Spec => []FastPathSound
<1>1. IInv => FastPathSound
  <2> SUFFICES ASSUME IInv, Meshed(gen), NEW p \in Points, AnsweredInside(p),
                      NEW q \in Points \ Inside(gen)
               PROVE  \E f, h \in FacesAt(gen) : \E x \in f.surface :
                        Distance(x, q) + Tolerance
                          < Distance(p, q) + f.deflection - h.deflection
    BY DEF FastPathSound
  <2>1. PICK i \in 1 .. Len(Content) :
          Distance(Content[i].centre, p) < Content[i].radius - Tolerance
    BY DEF AnsweredInside
  <2> DEFINE c == Content[i].centre
             r == Content[i].radius
  <2>2. gen \in 0 .. MaxSetShape
    BY DEF IInv, TypeOK
  <2>3. c \in Points /\ r \in Int /\ Tolerance \in Int
    <3>1. Content[i] \in Sphere
      BY ContentIsCurrent
    <3>2. \A s \in Sphere : s.centre \in Points /\ s.radius \in Int
      BY DEF Sphere
    <3> QED
      BY <3>1, <3>2, SphereCacheAssumption
  <2>4. c \in Solid(gen) /\ Reaches(Content[i], gen)
    BY ContentIsCurrent DEF AllBelong, Belongs
  <2>5. PICK f \in FacesAt(gen) :
          \E x \in f.surface : Distance(c, x) + Distance(x, q) = Distance(c, q)
    BY <2>2, <2>4, ShapesAssumption
  <2>x. PICK x \in f.surface : Distance(c, x) + Distance(x, q) = Distance(c, q)
    BY <2>5
  <2>6. PICK h \in FacesAt(gen) : r <= Distance(c, x) + f.deflection - h.deflection
    BY <2>4 DEF Reaches
  <2>7. f.deflection \in Int /\ h.deflection \in Int /\ x \in Points
    BY <2>2, ShapesAssumption
  <2> HIDE DEF c, r
  <2>8. Distance(c, q) <= Distance(c, p) + Distance(p, q)
    BY <2>3, DistanceAssumption
  <2>9. /\ Distance(c, q) \in Int /\ Distance(c, p) \in Int /\ Distance(p, q) \in Int
        /\ Distance(c, x) \in Int /\ Distance(x, q) \in Int
    BY <2>3, <2>7, DistanceAssumption
  <2>10. Distance(c, p) < r - Tolerance
    BY <2>1 DEF c, r
  <2>11. Distance(x, q) + Tolerance < Distance(p, q) + f.deflection - h.deflection
    BY <2>3, <2>x, <2>6, <2>7, <2>8, <2>9, <2>10
  <2> QED
    BY <2>11
<1> QED
  BY <1>1, InvInit, InvStep, PTL DEF Spec

(* What an insertion loses: the last sphere of a full list, and then nothing  *)
(* smaller is kept.                                                           *)
LEMMA InsertLosesTheLast ==
  ASSUME NEW list \in Seq(Sphere), Descending(list), Len(list) <= MaxSpheres,
         NEW new \in Sphere, NEW k \in 1 .. Len(list) + 1,
         IsInsertionPoint(list, new.radius, k), ~Rejected(list, new),
         NEW i \in 1 .. Len(list), ~Kept(InsertAt(list, k, new), list[i])
  PROVE  /\ i = Len(list) /\ Len(list) = MaxSpheres
         /\ \A j \in 1 .. Len(InsertAt(list, k, new)) :
              InsertAt(list, k, new)[j].radius >= list[i].radius
<1> DEFINE size == IF Len(list) < MaxSpheres THEN Len(list) + 1 ELSE MaxSpheres
           out == InsertAt(list, k, new)
<1>0. Len(list) \in Nat /\ MaxSpheres \in Nat
  BY SphereCacheAssumption
<1>1. size \in Nat
  BY <1>0
<1>2. out \in Seq(Sphere) /\ Descending(out)
  BY InsertKeepsOrder
<1>3. DOMAIN out = 1 .. size
  BY DEF InsertAt
<1>4. Len(out) = size
  <2> HIDE DEF out, size
  <2> QED
    BY <1>1, <1>2, <1>3
<1>5. ASSUME NEW m \in 1 .. size
      PROVE  out[m] = IF m < k THEN list[m] ELSE IF m = k THEN new ELSE list[m - 1]
  BY DEF InsertAt
<1>6. i >= k
  <2> SUFFICES ASSUME i < k PROVE FALSE
    BY <1>0
  <2>1. i \in 1 .. size
    BY <1>0
  <2>2. out[i] = list[i]
    BY <1>5, <2>1
  <2> HIDE DEF out, size
  <2> QED
    BY <2>1, <2>2, <1>4 DEF Kept, out
<1>7. i + 1 \notin 1 .. size
  <2> SUFFICES ASSUME i + 1 \in 1 .. size PROVE FALSE
    OBVIOUS
  <2>1. out[i + 1] = list[i]
    <3>1. ~(i + 1 < k) /\ i + 1 # k /\ (i + 1) - 1 = i
      BY <1>6, <1>0
    <3>2. out[i + 1] = IF i + 1 < k THEN list[i + 1]
                       ELSE IF i + 1 = k THEN new ELSE list[(i + 1) - 1]
      BY <1>5
    <3> HIDE DEF out, size
    <3> QED
      BY <3>1, <3>2
  <2> HIDE DEF out, size
  <2> QED
    BY <2>1, <1>4 DEF Kept, out
<1>8. i = Len(list) /\ Len(list) = MaxSpheres /\ size = MaxSpheres
  BY <1>0, <1>7
<1>9. new.radius \in Int /\ \A m \in 1 .. Len(list) : list[m].radius \in Int
  <2>1. \A s \in Sphere : s.radius \in Int
    BY DEF Sphere
  <2>2. \A m \in 1 .. Len(list) : list[m] \in Sphere
    OBVIOUS
  <2> QED
    BY <2>1, <2>2
<1>10. new.radius > list[i].radius
  BY <1>0, <1>8, <1>9 DEF Rejected
<1>11. \A m \in 1 .. Len(list) : list[m].radius >= list[i].radius
  BY <1>0, <1>8, <1>9 DEF Descending
<1>12. ASSUME NEW j \in 1 .. size PROVE out[j].radius >= list[i].radius
  <2>1. CASE j < k
    <3>1. j \in 1 .. Len(list) /\ out[j] = list[j]
      BY <1>0, <1>5, <2>1
    <3> HIDE DEF out, size
    <3> QED
      BY <3>1, <1>11
  <2>2. CASE j = k
    <3>1. out[j] = new
      BY <1>5, <2>2
    <3> HIDE DEF out, size
    <3> QED
      BY <3>1, <1>9, <1>10
  <2>3. CASE j > k
    <3>1. j - 1 \in 1 .. Len(list) /\ out[j] = list[j - 1]
      BY <1>0, <1>5, <2>3
    <3> HIDE DEF out, size
    <3> QED
      BY <3>1, <1>11
  <2> QED
    BY <1>0, <2>1, <2>2, <2>3
<1> HIDE DEF out, size
<1> QED
  BY <1>4, <1>8, <1>12 DEF out

(* While the shape stays, a sphere leaves the cache only at the limit, one at  *)
(* a time, and none smaller stays: the fast path keeps answering what the      *)
(* larger spheres cover.                                                       *)
THEOREM OnlyTheSmallestIsEvicted == Spec => NothingBetterEvicted
<1>1. IInv /\ [Next]_vars =>
        [UNCHANGED gen =>
           \A i \in 1 .. Len(Content) :
             ~Kept(Content', Content[i]) =>
               /\ i = Len(Content)
               /\ Len(Content) = MaxSpheres
               /\ \A j \in 1 .. Len(Content') : Content'[j].radius >= Content[i].radius]_vars
  <2> SUFFICES ASSUME IInv, Next, UNCHANGED gen,
                      NEW i \in 1 .. Len(Content), ~Kept(Content', Content[i])
               PROVE  /\ i = Len(Content)
                      /\ Len(Content) = MaxSpheres
                      /\ \A j \in 1 .. Len(Content') : Content'[j].radius >= Content[i].radius
    OBVIOUS
  <2>1. Content' # Content
    BY DEF Kept
  <2>2. PICK p \in Points : DistanceToOut(p)
    <3>1. ~SetShape
      BY DEF SetShape, IInv, TypeOK
    <3>2. ~ClassifyPoint
      BY <2>1 DEF ClassifyPoint, Content
    <3> QED
      BY <3>1, <3>2 DEF Next
  <2>3. Content' = spheres'
    BY <2>2 DEF DistanceToOut, Content
  <2>4. PICK d \in OutBounds(gen, p) :
          LET new == [centre |-> p, radius |-> d]
          IN  /\ ~Rejected(Content, new)
              /\ \E k \in 1 .. Len(Content) + 1 :
                   IsInsertionPoint(Content, d, k) /\ spheres' = InsertAt(Content, k, new)
    BY <2>1, <2>2, <2>3 DEF DistanceToOut
  <2> DEFINE new == [centre |-> p, radius |-> d]
  <2>5. PICK k \in 1 .. Len(Content) + 1 :
          IsInsertionPoint(Content, d, k) /\ spheres' = InsertAt(Content, k, new)
    BY <2>4
  <2>6. new \in Sphere /\ new.radius = d /\ ~Rejected(Content, new)
    <3>1. gen \in 0 .. MaxSetShape /\ p \in Solid(gen)
      BY <2>2 DEF DistanceToOut, IInv, TypeOK
    <3> QED
      BY <2>4, <3>1, BoundsBelong
  <2> HIDE DEF new
  <2> QED
    BY <2>3, <2>4, <2>5, <2>6, ContentIsCurrent, InsertLosesTheLast
<1> QED
  BY <1>1, InvInit, InvStep, PTL DEF Spec, NothingBetterEvicted

-----------------------------------------------------------------------------
(* Numbers. *)

(* A set of natural numbers that is not empty has a least one.              *)
LEMMA NatLeast ==
  ASSUME NEW S, S \subseteq Nat, S # {}
  PROVE  \E n \in S : \A m \in S : n <= m
<1>1. IsWellFoundedOn(OpToRel(<, Nat), Nat)
  BY NatLessThanWellFounded
<1>2. PICK n \in S : \A y \in S : <<y, n>> \notin OpToRel(<, Nat)
  BY <1>1, WFMin
<1>3. \A m \in S : ~(m < n)
  BY <1>2 DEF OpToRel
<1> QED
  BY <1>3

(* A set with 0 and the successors of its elements has every number.        *)
LEMMA NatSetInduction ==
  ASSUME NEW S, 0 \in S, \A n \in Nat : n \in S => n + 1 \in S
  PROVE  \A n \in Nat : n \in S
<1> DEFINE M == Nat \ S
<1>1. SUFFICES ASSUME M # {} PROVE FALSE
  OBVIOUS
<1>2. PICK n \in M : \A m \in M : n <= m
  BY <1>1, NatLeast
<1>3. n # 0 /\ n \in Nat /\ n \notin S
  OBVIOUS
<1>4. n - 1 \in Nat /\ ~(n <= n - 1)
  BY <1>3
<1>5. n - 1 \in S
  BY <1>2, <1>4
<1>6. (n - 1) + 1 = n
  BY <1>3
<1> QED
  BY <1>3, <1>4, <1>5, <1>6

(* Between a number of B and one that is not there is a step in or out.     *)
LEMMA StepBetween ==
  ASSUME NEW B, NEW i \in Int, NEW j \in Int, i <= j, (i \in B) # (j \in B)
  PROVE  \E m \in i .. j - 1 : (m \in B) # (m + 1 \in B)
<1> DEFINE S == {n \in Nat : n <= j - i /\ (i + n \in B) # (i \in B)}
<1>1. j - i \in S
  BY Zenon, SMT
<1>2. PICK n \in S : \A m \in S : n <= m
  <2>1. S \subseteq Nat /\ S # {}
    BY <1>1
  <2> QED
    BY <2>1, NatLeast
<1>3. n \in Nat /\ n # 0 /\ n <= j - i
  OBVIOUS
<1>4. n - 1 \in Nat /\ ~(n <= n - 1) /\ n - 1 <= j - i
  BY <1>3
<1>5. (i + (n - 1) \in B) = (i \in B)
  BY <1>2, <1>4
<1>6. (i + n \in B) # (i \in B)
  OBVIOUS
<1>7. i + (n - 1) \in i .. j - 1 /\ (i + (n - 1)) + 1 = i + n
  BY <1>3
<1> QED
  BY <1>5, <1>6, <1>7

(* Squares grow with what is squared.                                       *)
LEMMA SquareGrows ==
  ASSUME NEW a \in Int, NEW b \in Int, (-b <= a /\ a <= b) \/ (b <= a /\ a <= -b)
  PROVE  Square(a) <= Square(b) /\ Square(a) \in Nat /\ Square(b) \in Nat
<1>1. CASE -b <= a /\ a <= b
  BY <1>1 DEF Square
<1>2. CASE b <= a /\ a <= -b
  BY <1>2 DEF Square
<1> QED
  BY <1>1, <1>2

-----------------------------------------------------------------------------
(* Cells, points and faces. *)

(* Cells and points alike: an integer for each axis. *)
Cell == [Axes -> Int]

(* A cell has a width. *)
LEMMA WidthIs == Width \in Nat /\ Width > 0
  BY GridAssumption

(* The planes between the cells. *)
LEMMA Planes ==
  ASSUME NEW i \in Int
  PROVE  /\ Width * i \in Int /\ Width * (i + 1) = Width * i + Width
         /\ \A j \in Int : i <= j => Width * i <= Width * j
         /\ \A j \in Int : i < j => Width * (i + 1) <= Width * j
  BY WidthIs

(* p belongs to the cell, its boundary included. *)
Touches(c, p) == c \in Cell /\ \A k \in Axes : Width * c[k] <= p[k] /\ p[k] <= Width * (c[k] + 1)

(* Along an axis the cells next to x are those that reach it.             *)
LEMMA AroundIs ==
  ASSUME NEW x \in Int
  PROVE  /\ Around(x) \subseteq Int /\ x \div Width \in Around(x)
         /\ \A i \in Int : i \in Around(x) <=> Width * i <= x /\ x <= Width * (i + 1)
<1>1. x \div Width \in Int /\ (x - 1) \div Width \in Int
  BY WidthIs
<1>2. /\ Width * (x \div Width) <= x /\ x < Width * (x \div Width) + Width
      /\ Width * ((x - 1) \div Width) <= x - 1 /\ x - 1 < Width * ((x - 1) \div Width) + Width
  BY WidthIs
<1>3. ASSUME NEW i \in Int, Width * i <= x, x <= Width * (i + 1)
      PROVE  i \in Around(x)
  <2>0. Width * i \in Int /\ Width \in Int /\ Width * (i + 1) = Width * i + Width
    BY Planes, WidthIs
  <2>1. CASE x < Width * i + Width
    <3>1. x \div Width = i
      BY <1>3, <2>1, WidthIs
    <3> QED
      BY <3>1 DEF Around
  <2>2. CASE x = Width * i + Width
    <3>1. Width * i <= x - 1 /\ x - 1 < Width * i + Width
      BY <2>2, WidthIs, Planes
    <3>2. (x - 1) \div Width = i
      BY <3>1, WidthIs
    <3> QED
      BY <3>2 DEF Around
  <2>3. x < Width * i + Width \/ x = Width * i + Width
    BY <1>3, <2>0
  <2> QED
    BY <2>1, <2>2, <2>3
<1>4. ASSUME NEW i \in Around(x)
      PROVE  Width * i <= x /\ x <= Width * (i + 1)
  <2>1. i \in Int /\ (i = x \div Width \/ i = (x - 1) \div Width)
    BY <1>1 DEF Around
  <2>2. Width * (i + 1) = Width * i + Width /\ Width * i \in Int
    BY <2>1, Planes
  <2>3. CASE i = x \div Width
    <3>1. Width * i <= x /\ x < Width * i + Width
      BY <1>2, <2>3
    <3> QED
      BY <2>2, <3>1, WidthIs
  <2>4. CASE i = (x - 1) \div Width
    <3>1. Width * i <= x - 1 /\ x - 1 < Width * i + Width
      BY <1>2, <2>4
    <3> QED
      BY <2>2, <3>1, WidthIs
  <2> QED
    BY <2>1, <2>3, <2>4
<1> QED
  BY <1>1, <1>3, <1>4 DEF Around

(* The cells the classifier looks at are those that p belongs to.           *)
LEMMA CellsAre ==
  ASSUME NEW p \in Cell
  PROVE  /\ \A c : c \in CellsAt(p) <=> Touches(c, p)
         /\ CellsAt(p) # {}
<1>1. p[1] \in Int /\ p[2] \in Int /\ p[3] \in Int
  BY DEF Cell, Axes
<1>2. ASSUME NEW c \in CellsAt(p) PROVE Touches(c, p)
  <2>1. PICK x \in Around(p[1]), y \in Around(p[2]), z \in Around(p[3]) : c = <<x, y, z>>
    BY DEF CellsAt
  <2>2. x \in Int /\ y \in Int /\ z \in Int
    BY <1>1, AroundIs
  <2>3. c \in Cell /\ c[1] = x /\ c[2] = y /\ c[3] = z
    BY <2>1, <2>2 DEF Cell, Axes
  <2>4. \A k \in Axes : k = 1 \/ k = 2 \/ k = 3
    BY DEF Axes
  <2>5. /\ Width * c[1] <= p[1] /\ p[1] <= Width * (c[1] + 1)
        /\ Width * c[2] <= p[2] /\ p[2] <= Width * (c[2] + 1)
        /\ Width * c[3] <= p[3] /\ p[3] <= Width * (c[3] + 1)
    BY <1>1, <2>1, <2>2, <2>3, AroundIs
  <2> QED
    BY <2>3, <2>4, <2>5 DEF Touches
<1>3. ASSUME NEW c, Touches(c, p) PROVE c \in CellsAt(p)
  <2>1. c \in Cell /\ c[1] \in Int /\ c[2] \in Int /\ c[3] \in Int /\ 1 \in Axes /\ 2 \in Axes /\ 3 \in Axes
    BY <1>3 DEF Touches, Cell, Axes
  <2>2. c[1] \in Around(p[1]) /\ c[2] \in Around(p[2]) /\ c[3] \in Around(p[3])
    BY <1>1, <1>3, <2>1, AroundIs DEF Touches
  <2>3. c = <<c[1], c[2], c[3]>>
    BY <2>1 DEF Cell, Axes
  <2> QED
    BY <2>2, <2>3 DEF CellsAt
<1>4. <<p[1] \div Width, p[2] \div Width, p[3] \div Width>> \in CellsAt(p)
  BY <1>1, AroundIs DEF CellsAt
<1> QED
  BY <1>2, <1>3, <1>4

(* The cell of the row of c along axis k with index i.                      *)
At(c, k, i) == [c EXCEPT ![k] = i]

(* It is a cell, differs along k only, and a later change along k wins.    *)
LEMMA AtIs ==
  ASSUME NEW c \in Cell, NEW k \in Axes, NEW i \in Int
  PROVE  /\ At(c, k, i) \in Cell /\ At(c, k, i)[k] = i
         /\ \A j \in Axes \ {k} : At(c, k, i)[j] = c[j]
         /\ At(c, k, c[k]) = c /\ c[k] \in Int
         /\ \A m \in Int : At(At(c, k, i), k, m) = At(c, k, m)
  BY DEF At, Cell

(* The neighbour on a side is in the same row.                             *)
LEMMA NeighbourIs ==
  ASSUME NEW c \in Cell, NEW k \in Axes, NEW h \in {-1, 1}
  PROVE  Neighbour(c, k, h) = At(c, k, c[k] + h)
  BY DEF At, Cell, Neighbour

(* The parts of a face.                                                     *)
LEMMA FaceIs ==
  ASSUME NEW s, s \subseteq Cell, NEW f \in FacesOf(s)
  PROVE  /\ f.cell \in s /\ f.cell \in Cell /\ f.axis \in Axes /\ f.side \in {-1, 1}
         /\ f.cell[f.axis] \in Int /\ Level(f) \in Int
         /\ f.side = 1 => Level(f) = Width * (f.cell[f.axis] + 1)
         /\ f.side = -1 => Level(f) = Width * f.cell[f.axis]
         /\ Neighbour(f.cell, f.axis, f.side) \in Cell
         /\ Neighbour(f.cell, f.axis, f.side) \notin s
         /\ Neighbour(f.cell, f.axis, f.side)[f.axis] = f.cell[f.axis] + f.side
         /\ \A j \in Axes \ {f.axis} : Neighbour(f.cell, f.axis, f.side)[j] = f.cell[j]
<1>1. f \in [cell : s, axis : Axes, side : {-1, 1}] /\ Neighbour(f.cell, f.axis, f.side) \notin s
  BY DEF FacesOf
<1>2. f.cell \in s /\ f.cell \in Cell /\ f.axis \in Axes /\ f.side \in {-1, 1}
  BY <1>1
<1>3. f.cell[f.axis] \in Int
  BY <1>2 DEF Cell
<1>4. f.side = 1 => (f.side + 1) \div 2 = 1
  OBVIOUS
<1>5. f.side = -1 => (f.side + 1) \div 2 = 0
  OBVIOUS
<1>6. /\ f.side = 1 => Level(f) = Width * (f.cell[f.axis] + 1)
      /\ f.side = -1 => Level(f) = Width * f.cell[f.axis]
  <2>1. f.cell[f.axis] + 0 = f.cell[f.axis]
    BY <1>3
  <2> QED
    BY <1>4, <1>5, <2>1 DEF Level
<1>7. Level(f) \in Int
  BY <1>2, <1>3, <1>6, Planes
<1>8. /\ f.cell[f.axis] + f.side \in Int
      /\ Neighbour(f.cell, f.axis, f.side) = At(f.cell, f.axis, f.cell[f.axis] + f.side)
  BY <1>2, <1>3, NeighbourIs
<1> QED
  BY <1>1, <1>2, <1>3, <1>6, <1>7, <1>8, AtIs

(* Between a cell of the solid and its neighbour outside there is a face.   *)
LEMMA FaceBetween ==
  ASSUME NEW s, s \subseteq Cell, NEW c \in Cell, NEW k \in Axes, NEW m \in Int,
         (At(c, k, m) \in s) # (At(c, k, m + 1) \in s)
  PROVE  \E f \in FacesOf(s) :
           /\ f.axis = k /\ Level(f) = Width * (m + 1)
           /\ \A j \in Axes \ {k} : f.cell[j] = c[j]
           /\ f.side = IF At(c, k, m) \in s THEN 1 ELSE -1
<1>1. CASE At(c, k, m) \in s
  <2> DEFINE a == At(c, k, m)
             f == [cell |-> a, axis |-> k, side |-> 1]
  <2>1. a \in Cell /\ a[k] = m /\ \A j \in Axes \ {k} : a[j] = c[j]
    BY AtIs
  <2>2. Neighbour(a, k, 1) = At(c, k, m + 1)
    <3>1. Neighbour(a, k, 1) = At(a, k, m + 1)
      BY <2>1, NeighbourIs
    <3>2. m + 1 \in Int
      OBVIOUS
    <3> QED
      BY <3>1, <3>2, AtIs
  <2>3. f \in FacesOf(s) /\ f.axis = k /\ f.cell = a /\ f.side = 1
    BY <1>1, <2>2 DEF FacesOf
  <2> HIDE DEF f
  <2>4. Level(f) = Width * (m + 1)
    BY <2>1, <2>3, FaceIs
  <2> QED
    BY <1>1, <2>1, <2>3, <2>4
<1>2. CASE At(c, k, m) \notin s
  <2> DEFINE a == At(c, k, m + 1)
             f == [cell |-> a, axis |-> k, side |-> -1]
  <2>0. m + 1 \in Int /\ (m + 1) + -1 = m
    OBVIOUS
  <2>1. a \in Cell /\ a[k] = m + 1 /\ \A j \in Axes \ {k} : a[j] = c[j]
    BY <2>0, AtIs
  <2>2. Neighbour(a, k, -1) = At(c, k, m)
    <3>1. Neighbour(a, k, -1) = At(a, k, m)
      BY <2>0, <2>1, NeighbourIs
    <3> QED
      BY <2>0, <3>1, AtIs
  <2>3. f \in FacesOf(s) /\ f.axis = k /\ f.cell = a /\ f.side = -1
    BY <1>2, <2>2 DEF FacesOf
  <2> HIDE DEF f
  <2>4. Level(f) = Width * (m + 1)
    BY <2>1, <2>3, FaceIs
  <2> QED
    BY <1>2, <2>1, <2>3, <2>4
<1> QED
  BY <1>1, <1>2

(* Between two cells of a row, one in the solid and one not, that reach x   *)
(* and y there is a face, at a level from x to y.                           *)
LEMMA CrossUp ==
  ASSUME NEW s, s \subseteq Cell, NEW c \in Cell, NEW k \in Axes, NEW i \in Int, NEW j \in Int,
         NEW x \in Int, NEW y \in Int, x <= y,
         Width * i <= x, x <= Width * (i + 1), Width * j <= y, y <= Width * (j + 1),
         (At(c, k, i) \in s) # (At(c, k, j) \in s)
  PROVE  \E f \in FacesOf(s) :
           /\ f.axis = k /\ x <= Level(f) /\ Level(f) <= y
           /\ \A n \in Axes \ {k} : f.cell[n] = c[n]
<1> DEFINE B == {n \in Int : At(c, k, n) \in s}
<1>0. \A n \in Int : n \in B <=> At(c, k, n) \in s
  OBVIOUS
<1> HIDE DEF B
<1>1. CASE i <= j
  <2>1. PICK m \in i .. j - 1 : (m \in B) # (m + 1 \in B)
    BY <1>0, <1>1, StepBetween
  <2>2. m \in Int /\ m + 1 \in Int /\ i <= m /\ m < j /\ i + 1 <= m + 1 /\ m + 1 <= j /\ i + 1 \in Int
    OBVIOUS
  <2>3. Width * (i + 1) <= Width * (m + 1) /\ Width * (m + 1) <= Width * j
    BY <2>2, Planes
  <2>4. Width * (m + 1) \in Int /\ Width * j \in Int /\ Width * (i + 1) \in Int
    BY <2>2, Planes
  <2>5. x <= Width * (m + 1) /\ Width * (m + 1) <= y
    BY <2>3, <2>4
  <2> QED
    BY <1>0, <2>1, <2>2, <2>5, FaceBetween
<1>2. CASE j < i
  <2>1. PICK m \in j .. i - 1 : (m \in B) # (m + 1 \in B)
    BY <1>0, <1>2, StepBetween
  <2>2. m \in Int /\ m + 1 \in Int /\ j + 1 <= m + 1 /\ m + 1 <= i /\ j + 1 \in Int
    OBVIOUS
  <2>3. Width * (j + 1) <= Width * (m + 1) /\ Width * (m + 1) <= Width * i
    BY <2>2, Planes
  <2>4. Width * (m + 1) \in Int /\ Width * i \in Int /\ Width * (j + 1) \in Int
    BY <2>2, Planes
  <2>5. x <= Width * (m + 1) /\ Width * (m + 1) <= y
    BY <2>3, <2>4
  <2> QED
    BY <1>0, <2>1, <2>2, <2>5, FaceBetween
<1> QED
  BY <1>1, <1>2

(* The same whichever of x and y is the greater.                            *)
LEMMA Crossing ==
  ASSUME NEW s, s \subseteq Cell, NEW c \in Cell, NEW k \in Axes, NEW i \in Int, NEW j \in Int,
         NEW x \in Int, NEW y \in Int,
         Width * i <= x, x <= Width * (i + 1), Width * j <= y, y <= Width * (j + 1),
         (At(c, k, i) \in s) # (At(c, k, j) \in s)
  PROVE  \E f \in FacesOf(s) :
           /\ f.axis = k
           /\ (x <= Level(f) /\ Level(f) <= y) \/ (y <= Level(f) /\ Level(f) <= x)
           /\ \A n \in Axes \ {k} : f.cell[n] = c[n]
<1>1. CASE x <= y
  <2>1. PICK f \in FacesOf(s) : /\ f.axis = k /\ x <= Level(f) /\ Level(f) <= y
                              /\ \A n \in Axes \ {k} : f.cell[n] = c[n]
    BY <1>1, CrossUp
  <2> QED
    BY <2>1
<1>2. CASE y <= x
  <2>1. PICK f \in FacesOf(s) : /\ f.axis = k /\ y <= Level(f) /\ Level(f) <= x
                              /\ \A n \in Axes \ {k} : f.cell[n] = c[n]
    BY <1>2, CrossUp
  <2> QED
    BY <2>1
<1> QED
  BY <1>1, <1>2

(* A face that p lies on parts two cells that p belongs to.                 *)
LEMMA OnFace ==
  ASSUME NEW s, s \subseteq Cell, NEW f \in FacesOf(s), NEW p \in Cell,
         \A j \in Axes \ {f.axis} : Width * f.cell[j] <= p[j] /\ p[j] <= Width * (f.cell[j] + 1),
         p[f.axis] = Level(f)
  PROVE  \E c \in s : \E d : Touches(c, p) /\ Touches(d, p) /\ d \notin s
<1> DEFINE k == f.axis
           c == f.cell
           d == Neighbour(f.cell, f.axis, f.side)
<1>1. /\ c \in s /\ c \in Cell /\ k \in Axes /\ d \in Cell /\ d \notin s /\ c[k] \in Int
      /\ f.side \in {-1, 1} /\ d[k] = c[k] + f.side
      /\ \A j \in Axes \ {k} : d[j] = c[j]
      /\ f.side = 1 => p[k] = Width * (c[k] + 1)
      /\ f.side = -1 => p[k] = Width * c[k]
  BY FaceIs
<1>2. \A j \in Axes \ {k} : Width * c[j] <= p[j] /\ p[j] <= Width * (c[j] + 1)
  OBVIOUS
<1>3. /\ Width * c[k] \in Int /\ Width \in Nat /\ Width * (c[k] + 1) = Width * c[k] + Width
  BY <1>1, Planes, WidthIs
<1> HIDE DEF k, c, d
<1>4. CASE f.side = 1
  <2>1. d[k] = c[k] + 1 /\ p[k] = Width * (c[k] + 1) /\ c[k] + 1 \in Int
    BY <1>1, <1>4
  <2>2. Width * ((c[k] + 1) + 1) = Width * (c[k] + 1) + Width
    BY <2>1, Planes
  <2>3. Width * c[k] <= p[k] /\ p[k] <= Width * (c[k] + 1)
    BY <1>3, <2>1
  <2>4. Width * d[k] <= p[k] /\ p[k] <= Width * (d[k] + 1)
    BY <1>3, <2>1, <2>2
  <2> QED
    BY <1>1, <1>2, <2>3, <2>4 DEF Touches
<1>5. CASE f.side = -1
  <2>1. d[k] = c[k] - 1 /\ p[k] = Width * c[k] /\ c[k] - 1 \in Int /\ (c[k] - 1) + 1 = c[k]
    BY <1>1, <1>5
  <2>2. Width * c[k] = Width * (c[k] - 1) + Width /\ Width * (c[k] - 1) \in Int
    BY <2>1, Planes
  <2>3. Width * c[k] <= p[k] /\ p[k] <= Width * (c[k] + 1)
    BY <1>3, <2>1
  <2>4. Width * d[k] <= p[k] /\ p[k] <= Width * (d[k] + 1)
    BY <1>3, <2>1, <2>2
  <2> QED
    BY <1>1, <1>2, <2>3, <2>4 DEF Touches
<1> QED
  BY <1>1, <1>4, <1>5

(* p is in the solid, out of it, or on its surface. *)
LEMMA ExactIs ==
  ASSUME NEW p \in Cell
  PROVE  /\ Exact(p) = "inside" <=> \A c : Touches(c, p) => c \in solid
         /\ Exact(p) = "outside" <=> \A c : Touches(c, p) => c \notin solid
         /\ Exact(p) = "surface" <=> (\E c : Touches(c, p) /\ c \in solid) /\ (\E c : Touches(c, p) /\ c \notin solid)
         /\ \E c : Touches(c, p)
<1> DEFINE C == CellsAt(p)
<1>1. C # {} /\ \A c : c \in C <=> Touches(c, p)
  BY CellsAre
<1>2. Exact(p) = IF C \subseteq solid THEN "inside" ELSE IF C \cap solid = {} THEN "outside" ELSE "surface"
  BY DEF Exact
<1> HIDE DEF C
<1>3. /\ C \subseteq solid <=> \A c : Touches(c, p) => c \in solid
      /\ C \cap solid = {} <=> \A c : Touches(c, p) => c \notin solid
      /\ ~(C \subseteq solid /\ C \cap solid = {})
      /\ \E c : Touches(c, p)
  BY <1>1
<1> QED
  BY <1>2, <1>3

(* Along its own plane a face is as far from p as p is beyond its edges.    *)
LEMMA GapIs ==
  ASSUME NEW s, s \subseteq Cell, NEW f \in FacesOf(s), NEW p \in Cell, NEW k \in Axes, k # f.axis
  PROVE  /\ f.cell[k] \in Int /\ Width * f.cell[k] \in Int /\ p[k] \in Int
         /\ Gap(p, f, k) = IF p[k] < Width * f.cell[k] THEN p[k] - Width * f.cell[k]
                           ELSE IF p[k] > Width * (f.cell[k] + 1) THEN p[k] - Width * (f.cell[k] + 1) ELSE 0
<1>1. f.cell \in Cell
  BY FaceIs
<1>2. f.cell[k] \in Int /\ p[k] \in Int
  BY <1>1 DEF Cell
<1>3. Width * f.cell[k] \in Int /\ Width * (f.cell[k] + 1) = Width * f.cell[k] + Width /\ Width \in Nat
  BY <1>2, Planes, WidthIs
<1> QED
  BY <1>2, <1>3 DEF Gap, Local

(* What a row of cells from one that x belongs to to one that y belongs to  *)
(* is away from x.                                                          *)
LEMMA RowGap ==
  ASSUME NEW i \in Int, NEW j \in Int, NEW m \in Int, NEW x \in Int, NEW y \in Int,
         Width * i <= x, x <= Width * (i + 1), Width * j <= y, y <= Width * (j + 1),
         m = i \/ m = j,
         NEW g, g = IF x < Width * m THEN x - Width * m
                    ELSE IF x > Width * (m + 1) THEN x - Width * (m + 1) ELSE 0
  PROVE  /\ g \in Int
         /\ (-(x - y) <= g /\ g <= x - y) \/ (x - y <= g /\ g <= -(x - y))
<1>1. /\ Width * i \in Int /\ Width * j \in Int /\ Width * (i + 1) \in Int /\ Width * (j + 1) \in Int
      /\ Width * m \in Int /\ Width * (m + 1) \in Int
  <2>1. i + 1 \in Int /\ j + 1 \in Int /\ m + 1 \in Int
    OBVIOUS
  <2> QED
    BY <2>1, Planes
<1>2. CASE m = i
  <2>1. g = 0
    BY <1>1, <1>2
  <2> QED
    BY <2>1
<1>3. CASE m = j
  BY <1>1, <1>3
<1> QED
  BY <1>2, <1>3

(* x is no farther from 0 than y. *)
Shorter(x, y) == x \in Int /\ y \in Int /\ ((-y <= x /\ x <= y) \/ (y <= x /\ x <= -y))

(* The face is no farther from p than q is, along any axis. *)
NoFarther(f, p, q) == \A k \in Axes : Shorter(Gap(p, f, k), p[k] - q[k])

(* So it is no farther from p than q is.                                   *)
LEMMA NoFartherSquares ==
  ASSUME NEW f, NEW p, NEW q, NoFarther(f, p, q)
  PROVE  /\ DistanceSquared(p, f) \in Nat
         /\ DistanceSquared(p, f) <= Square(p[1] - q[1]) + Square(p[2] - q[2]) + Square(p[3] - q[3])
<1>1. \A k \in Axes : /\ Square(Gap(p, f, k)) <= Square(p[k] - q[k])
                      /\ Square(Gap(p, f, k)) \in Nat /\ Square(p[k] - q[k]) \in Nat
  BY SquareGrows DEF NoFarther, Shorter
<1>2. 1 \in Axes /\ 2 \in Axes /\ 3 \in Axes
  BY DEF Axes
<1> QED
  BY <1>1, <1>2 DEF DistanceSquared

(* One row of the way from a, that p belongs to, to b, that q belongs to.   *)
LEMMA WayOutAlong ==
  ASSUME NEW s, s \subseteq Cell, NEW p \in Cell, NEW q \in Cell,
         NEW a, Touches(a, p), NEW b, Touches(b, q),
         NEW u \in Cell, NEW k \in Axes, u[k] = a[k],
         \A j \in Axes : u[j] = a[j] \/ u[j] = b[j],
         (u \in s) # (At(u, k, b[k]) \in s)
  PROVE  \E f \in FacesOf(s) : NoFarther(f, p, q)
<1>1. \A j \in Axes :
        /\ a[j] \in Int /\ b[j] \in Int /\ p[j] \in Int /\ q[j] \in Int
        /\ Width * a[j] <= p[j] /\ p[j] <= Width * (a[j] + 1)
        /\ Width * b[j] <= q[j] /\ q[j] <= Width * (b[j] + 1)
  BY DEF Touches, Cell
<1>2. At(u, k, a[k]) = u
  BY AtIs
<1>3. PICK f \in FacesOf(s) :
         /\ f.axis = k
         /\ (p[k] <= Level(f) /\ Level(f) <= q[k]) \/ (q[k] <= Level(f) /\ Level(f) <= p[k])
         /\ \A n \in Axes \ {k} : f.cell[n] = u[n]
  BY <1>1, <1>2, Crossing
<1>4. Shorter(Gap(p, f, k), p[k] - q[k])
  <2>1. Gap(p, f, k) = p[k] - Level(f) /\ Level(f) \in Int
    BY <1>3, FaceIs DEF Gap
  <2> QED
    BY <1>1, <1>3, <2>1 DEF Shorter
<1>5. ASSUME NEW j \in Axes, j # k
      PROVE  Shorter(Gap(p, f, j), p[j] - q[j])
  <2> DEFINE m == f.cell[j]
  <2>1. m = a[j] \/ m = b[j]
    BY <1>3, <1>5
  <2>2. /\ m \in Int
        /\ Gap(p, f, j) = IF p[j] < Width * m THEN p[j] - Width * m
                          ELSE IF p[j] > Width * (m + 1) THEN p[j] - Width * (m + 1) ELSE 0
    BY <1>3, <1>5, GapIs
  <2> HIDE DEF m
  <2>3. /\ Gap(p, f, j) \in Int
        /\ \/ -(p[j] - q[j]) <= Gap(p, f, j) /\ Gap(p, f, j) <= p[j] - q[j]
           \/ p[j] - q[j] <= Gap(p, f, j) /\ Gap(p, f, j) <= -(p[j] - q[j])
    BY <1>1, <2>1, <2>2, RowGap
  <2> QED
    BY <1>1, <2>3 DEF Shorter
<1> QED
  BY <1>4, <1>5 DEF NoFarther

(* From p in a cell of the solid to q in a cell outside there is a face on  *)
(* the way: cell by cell along one axis after another.                      *)
LEMMA WayOut ==
  ASSUME NEW s, s \subseteq Cell, NEW p \in Cell, NEW q \in Cell,
         NEW a, Touches(a, p), a \in s, NEW b, Touches(b, q), b \notin s
  PROVE  \E f \in FacesOf(s) : NoFarther(f, p, q)
<1>1. a \in Cell /\ b \in Cell /\ 1 \in Axes /\ 2 \in Axes /\ 3 \in Axes /\ \A k \in Axes : b[k] \in Int
  BY DEF Touches, Cell, Axes
<1>0. \A k \in Axes, v \in Cell :
        /\ At(v, k, b[k]) \in Cell /\ At(v, k, b[k])[k] = b[k]
        /\ \A j \in Axes : j # k => At(v, k, b[k])[j] = v[j]
  <2> TAKE k \in Axes, v \in Cell
  <2>1. b[k] \in Int
    BY <1>1
  <2>2. At(v, k, b[k]) \in Cell /\ At(v, k, b[k])[k] = b[k]
    BY <2>1, AtIs
  <2>3. \A j \in Axes \ {k} : At(v, k, b[k])[j] = v[j]
    BY <2>1, AtIs
  <2> QED
    BY <2>2, <2>3
<1>b. PICK c, d, e : c = At(a, 1, b[1]) /\ d = At(c, 2, b[2]) /\ e = At(d, 3, b[3])
  OBVIOUS
<1>c. 1 # 2 /\ 1 # 3 /\ 2 # 3 /\ 2 # 1 /\ 3 # 1 /\ 3 # 2
  OBVIOUS
<1>2. c \in Cell /\ c[1] = b[1] /\ c[2] = a[2] /\ c[3] = a[3]
  <2>1. c = At(a, 1, b[1]) /\ a \in Cell /\ 1 \in Axes
    BY <1>1, <1>b
  <2>2. c \in Cell /\ c[1] = b[1]
    BY Zenon, <1>0, <2>1
  <2>3. \A j \in Axes : j # 1 => c[j] = a[j]
    BY Zenon, <1>0, <2>1
  <2> QED
    BY Zenon, <1>1, <1>c, <2>2, <2>3
<1>3. d \in Cell /\ d[1] = b[1] /\ d[2] = b[2] /\ d[3] = a[3]
  BY Zenon, <1>0, <1>1, <1>2, <1>b, <1>c
<1>4. e \in Cell /\ e[1] = b[1] /\ e[2] = b[2] /\ e[3] = b[3]
  BY Zenon, <1>0, <1>1, <1>3, <1>b, <1>c
<1>5. e = b
  BY <1>1, <1>4 DEF Cell, Axes
<1>6. \A k \in Axes : k = 1 \/ k = 2 \/ k = 3
  BY DEF Axes
<1>7. CASE c \notin s
  BY <1>b, <1>1, <1>7, WayOutAlong
<1>8. CASE c \in s /\ d \notin s
  <2>1. \A j \in Axes : c[j] = a[j] \/ c[j] = b[j]
    BY <1>2, <1>6
  <2> QED
    BY <1>1, <1>2, <1>8, <1>b, <2>1, WayOutAlong
<1>9. CASE d \in s
  <2>1. \A j \in Axes : d[j] = a[j] \/ d[j] = b[j]
    BY <1>3, <1>6
  <2>2. At(d, 3, b[3]) \notin s
    BY <1>5, <1>b
  <2> QED
    BY <1>1, <1>3, <1>9, <2>1, <2>2, WayOutAlong
<1> QED
  BY <1>7, <1>8, <1>9

(* Where no face has distance 0 the point is inside or outside.             *)
LEMMA NearIs ==
  ASSUME NEW p \in Cell, solid \in Solids
  PROVE  ~Near(p) => Exact(p) = "inside" \/ Exact(p) = "outside"
<1> SUFFICES ASSUME Exact(p) # "inside", Exact(p) # "outside"
             PROVE  Near(p)
  OBVIOUS
<1>0. solid \subseteq Cell
  BY GridAssumption DEF Cell
<1>1. PICK a, b : Touches(a, p) /\ Touches(b, p) /\ a \in solid /\ b \notin solid
  BY ExactIs
<1>2. PICK f \in FacesOf(solid) : NoFarther(f, p, p)
  BY <1>0, <1>1, WayOut
<1>3. \A k \in Axes : Gap(p, f, k) = 0
  <2> TAKE k \in Axes
  <2>1. p[k] \in Int
    BY DEF Cell
  <2> QED
    BY <1>2, <2>1 DEF NoFarther, Shorter
<1>4. DistanceSquared(p, f) = 0
  BY <1>3 DEF DistanceSquared, Square, Axes
<1> QED
  BY <1>2, <1>4 DEF Near, Faces

(* A distance is a number, squared.                                         *)
LEMMA DistanceIs ==
  ASSUME NEW s, s \subseteq Cell, NEW p \in Cell, NEW f \in FacesOf(s)
  PROVE  DistanceSquared(p, f) \in Nat
<1>1. \A k \in Axes : Gap(p, f, k) \in Int
  <2> TAKE k \in Axes
  <2>0. p[k] \in Int
    BY DEF Cell
  <2>1. CASE k = f.axis
    BY <2>0, <2>1, FaceIs DEF Gap
  <2>2. CASE k # f.axis
    <3>1. f.cell[k] + 1 \in Int /\ f.cell[k] \in Int
      BY <2>2, GapIs
    <3>2. Width * (f.cell[k] + 1) \in Int /\ Width * f.cell[k] \in Int
      BY <3>1, Planes
    <3> QED
      BY <2>2, <3>2, GapIs
  <2> QED
    BY <2>1, <2>2
<1>2. \A k \in Axes : Square(Gap(p, f, k)) \in Nat
  BY <1>1, SquareGrows DEF Square
<1> QED
  BY <1>2 DEF DistanceSquared, Axes

-----------------------------------------------------------------------------
(* The box of a solid. *)

(* A solid has a box.                                                       *)
LEMMA SolidBounded ==
  ASSUME NEW s, IsFiniteSet(s), s \subseteq Cell
  PROVE  \E N \in Nat : \A c \in s : \A k \in Axes : -N <= c[k] /\ c[k] <= N
<1>1. PICK n \in Nat : ExistsBijection(1 .. n, s)
  BY FS_NatBijection
<1>2. PICK g : g \in Bijection(1 .. n, s)
  BY <1>1 DEF ExistsBijection
<1>3. \A c \in s : \E i \in 1 .. n : g[i] = c
  BY <1>2 DEF Bijection, Surjection
<1>4. \A i \in 1 .. n : g[i] \in Cell
  BY <1>2 DEF Bijection, Injection
<1> DEFINE S == {m \in Nat : m <= n => \E N \in Nat : \A i \in 1 .. m : \A k \in Axes : -N <= g[i][k] /\ g[i][k] <= N}
<1>5. 0 \in S
  <2>1. \A i \in 1 .. 0 : FALSE
    OBVIOUS
  <2>2. \E N \in Nat : \A i \in 1 .. 0 : \A k \in Axes : -N <= g[i][k] /\ g[i][k] <= N
    BY <2>1
  <2> QED
    BY <2>2
<1>6. ASSUME NEW m \in Nat, m \in S PROVE m + 1 \in S
  <2> SUFFICES ASSUME m + 1 <= n
               PROVE  \E N \in Nat : \A i \in 1 .. m + 1 : \A k \in Axes : -N <= g[i][k] /\ g[i][k] <= N
    OBVIOUS
  <2>1. PICK N \in Nat : \A i \in 1 .. m : \A k \in Axes : -N <= g[i][k] /\ g[i][k] <= N
    BY <1>6
  <2> DEFINE c == g[m + 1]
  <2>2. c[1] \in Int /\ c[2] \in Int /\ c[3] \in Int
    <3>1. m + 1 \in 1 .. n
      OBVIOUS
    <3>2. c \in Cell
      BY <1>4, <3>1
    <3> HIDE DEF c
    <3> QED
      BY <3>2 DEF Cell, Axes
  <2> HIDE DEF c
  <2>3. PICK M \in Nat : /\ -M <= c[1] /\ c[1] <= M /\ -M <= c[2] /\ c[2] <= M
                         /\ -M <= c[3] /\ c[3] <= M /\ N <= M
    <3> DEFINE z(x) == IF x < 0 THEN -x ELSE x
    <3>1. N + z(c[1]) + z(c[2]) + z(c[3]) \in Nat
      BY <2>2
    <3> WITNESS N + z(c[1]) + z(c[2]) + z(c[3]) \in Nat
    <3> QED
      BY <2>2
  <2>4. \A k \in Axes : -M <= c[k] /\ c[k] <= M
    BY <2>3 DEF Axes
  <2>5. \A i \in 1 .. m : \A k \in Axes : g[i][k] \in Int
    BY <1>4 DEF Cell
  <2>6. ASSUME NEW i \in 1 .. m + 1, NEW k \in Axes
        PROVE  -M <= g[i][k] /\ g[i][k] <= M
    <3>1. CASE i \in 1 .. m
      BY <2>1, <2>3, <2>5, <3>1
    <3>2. CASE i = m + 1
      BY <2>4, <3>2 DEF c
    <3> QED
      BY <3>1, <3>2
  <2> QED
    BY <2>6
<1> HIDE DEF S
<1>7. n \in S
  BY <1>5, <1>6, NatSetInduction
<1>8. PICK N \in Nat : \A i \in 1 .. n : \A k \in Axes : -N <= g[i][k] /\ g[i][k] <= N
  BY <1>7 DEF S
<1> QED
  BY <1>3, <1>8

(* A set of numbers with a lower bound has a least one ...                  *)
LEMMA MinIs ==
  ASSUME NEW S, S \subseteq Int, S # {}, NEW N \in Int, \A x \in S : N <= x
  PROVE  Min(S) \in S /\ \A x \in S : Min(S) <= x
<1> DEFINE T == {n \in Nat : N + n \in S}
<1>1. PICK x \in S : TRUE
  OBVIOUS
<1>2. x - N \in Nat /\ N + (x - N) = x
  OBVIOUS
<1>3. T \subseteq Nat /\ x - N \in T
  BY <1>2
<1>4. PICK n \in T : \A m \in T : n <= m
  BY <1>3, NatLeast
<1>5. ASSUME NEW y \in S PROVE N + n <= y
  <2>1. y - N \in T
    <3>1. y - N \in Nat /\ N + (y - N) = y
      OBVIOUS
    <3> QED
      BY <3>1
  <2> QED
    BY <1>4, <2>1
<1>6. \E m \in S : \A y \in S : m <= y
  BY <1>4, <1>5
<1> QED
  BY <1>6 DEF Min

(* ... and one with an upper bound a greatest.                              *)
LEMMA MaxIs ==
  ASSUME NEW S, S \subseteq Int, S # {}, NEW N \in Int, \A x \in S : x <= N
  PROVE  Max(S) \in S /\ \A x \in S : x <= Max(S)
<1> DEFINE T == {n \in Nat : N - n \in S}
<1>1. PICK x \in S : TRUE
  OBVIOUS
<1>2. N - x \in Nat /\ N - (N - x) = x
  OBVIOUS
<1>3. T \subseteq Nat /\ N - x \in T
  BY <1>2
<1>4. PICK n \in T : \A m \in T : n <= m
  BY <1>3, NatLeast
<1>5. ASSUME NEW y \in S PROVE y <= N - n
  <2>0. n \in Nat /\ y \in Int
    BY <1>3
  <2>1. N - y \in T
    <3>1. N - y \in Nat /\ N - (N - y) = y
      OBVIOUS
    <3> QED
      BY <3>1
  <2>2. n <= N - y
    BY <1>4, <2>1
  <2> QED
    BY <2>0, <2>2
<1>6. \E m \in S : \A y \in S : m >= y
  BY <1>4, <1>5
<1> QED
  BY <1>6 DEF Max

(* No cell of a solid is below its Lower() or above its Upper().            *)
LEMMA BoxIs ==
  ASSUME NEW s \in Solids, NEW k \in Axes
  PROVE  /\ Lower(s, k) \in Int /\ Upper(s, k) \in Int
         /\ \A c \in s : Lower(s, k) <= Width * c[k] /\ Width * (c[k] + 1) <= Upper(s, k)
<1>0. IsFiniteSet(s) /\ s # {} /\ s \subseteq Cell
  BY GridAssumption DEF Cell
<1> DEFINE S == {c[k] : c \in s}
<1>1. S # {} /\ S \subseteq Int
  BY <1>0 DEF Cell
<1>2. PICK N \in Nat : \A c \in s : \A i \in Axes : -N <= c[i] /\ c[i] <= N
  BY <1>0, SolidBounded
<1>3. -N \in Int /\ N \in Int /\ \A x \in S : -N <= x /\ x <= N
  BY <1>2
<1>3a. \A c \in s : c[k] \in S
  OBVIOUS
<1>3b. Lower(s, k) = Width * Min(S) /\ Upper(s, k) = Width * (Max(S) + 1)
  BY DEF Lower, Upper
<1> HIDE DEF S
<1>4. Min(S) \in S /\ (\A x \in S : Min(S) <= x) /\ Max(S) \in S /\ (\A x \in S : x <= Max(S))
  BY <1>1, <1>3, MinIs, MaxIs
<1>5. Min(S) \in Int /\ Max(S) \in Int /\ Max(S) + 1 \in Int
  <2>1. \A x \in S : x \in Int
    BY <1>1
  <2>2. Min(S) \in Int /\ Max(S) \in Int
    BY Zenon, <1>4, <2>1
  <2> QED
    BY <2>2
<1>6. Lower(s, k) \in Int /\ Upper(s, k) \in Int
  BY <1>3b, <1>5, Planes
<1>7. ASSUME NEW c \in s
      PROVE  Lower(s, k) <= Width * c[k] /\ Width * (c[k] + 1) <= Upper(s, k)
  <2>1. c[k] \in Int /\ c[k] + 1 \in Int /\ Min(S) <= c[k] /\ c[k] + 1 <= Max(S) + 1
    <3>1. c[k] \in S
      BY <1>3a
    <3>2. c[k] \in Int
      BY <1>1, <3>1
    <3>3. Min(S) <= c[k] /\ c[k] <= Max(S)
      BY Zenon, <1>4, <3>1
    <3> QED
      BY <1>5, <3>2, <3>3
  <2> QED
    BY <1>3b, <1>5, <2>1, Planes
<1> QED
  BY <1>6, <1>7

(* Out of the box is out of the solid.                                      *)
LEMMA OutOfBoundsIs ==
  ASSUME NEW p \in Cell, solid \in Solids, OutOfBounds(p)
  PROVE  Exact(p) = "outside"
<1>1. PICK k \in Axes : p[k] < Lower(solid, k) \/ p[k] > Upper(solid, k)
  BY DEF OutOfBounds
<1>2. ASSUME NEW c, Touches(c, p), c \in solid PROVE FALSE
  <2>1. /\ p[k] \in Int /\ c[k] \in Int /\ c[k] + 1 \in Int
        /\ Width * c[k] <= p[k] /\ p[k] <= Width * (c[k] + 1)
    BY <1>2 DEF Touches, Cell
  <2>2. /\ Lower(solid, k) <= Width * c[k] /\ Width * (c[k] + 1) <= Upper(solid, k)
        /\ Lower(solid, k) \in Int /\ Upper(solid, k) \in Int
    BY <1>2, BoxIs
  <2>3. Width * c[k] \in Int /\ Width * (c[k] + 1) \in Int
    BY <2>1, Planes
  <2> QED
    BY <1>1, <2>1, <2>2, <2>3
<1> QED
  BY <1>2, ExactIs

(* The candidates are points.                                               *)
LEMMA CandidatesAre ==
  ASSUME NEW s \in Solids
  PROVE  Candidates(s) \subseteq Cell
<1> SUFFICES ASSUME NEW x \in Candidates(s) PROVE x \in Cell
  OBVIOUS
<1> DEFINE D == {<<0, 0, 0>>} \cup {Neighbour(<<0, 0, 0>>, k, h) : k \in Axes, h \in {-2, 2}}
                \cup ({-3, 3} \X {-3, 3} \X {-3, 3})
           at(m) == [k \in Axes |-> (Lower(s, k) + Upper(s, k)) \div 2
                                    + (m[k] * (Upper(s, k) - Lower(s, k))) \div 8]
<1>1. PICK m \in D : x = at(m)
  BY DEF Candidates
<1>2. m \in Cell
  <2>1. CASE m = <<0, 0, 0>>
    BY <2>1 DEF Cell, Axes
  <2>2. CASE m \in {Neighbour(<<0, 0, 0>>, k, h) : k \in Axes, h \in {-2, 2}}
    <3>1. <<0, 0, 0>> \in Cell
      BY DEF Cell, Axes
    <3>2. PICK k \in Axes, h \in {-2, 2} : m = Neighbour(<<0, 0, 0>>, k, h)
      BY <2>2
    <3>3. \A c \in Cell : \A i \in Axes : \A n \in Int : Neighbour(c, i, n) \in Cell
      BY DEF Cell, Neighbour
    <3>4. h \in Int
      OBVIOUS
    <3> HIDE DEF D, at
    <3> QED
      BY <3>1, <3>2, <3>3, <3>4
  <2>3. CASE m \in {-3, 3} \X {-3, 3} \X {-3, 3}
    <3>1. PICK a \in {-3, 3}, b \in {-3, 3}, c \in {-3, 3} : m = <<a, b, c>>
      BY <2>3
    <3>2. a \in Int /\ b \in Int /\ c \in Int
      OBVIOUS
    <3> QED
      BY <3>1, <3>2 DEF Cell, Axes
  <2> QED
    BY <2>1, <2>2, <2>3
<1>3. ASSUME NEW k \in Axes
      PROVE  (Lower(s, k) + Upper(s, k)) \div 2 + (m[k] * (Upper(s, k) - Lower(s, k))) \div 8 \in Int
  <2>1. m[k] \in Int
    BY <1>2 DEF Cell
  <2>2. Lower(s, k) \in Int /\ Upper(s, k) \in Int
    BY BoxIs
  <2> DEFINE y == m[k] * (Upper(s, k) - Lower(s, k))
             z == Lower(s, k) + Upper(s, k)
  <2>3. y \in Int /\ z \in Int
    BY <2>1, <2>2
  <2> HIDE DEF y, z
  <2>4. y \div 8 \in Int /\ z \div 2 \in Int
    BY <2>3
  <2> QED
    BY <2>4 DEF y, z
<1> QED
  BY <1>1, <1>3 DEF Cell

(* A sphere about a centre inside that reaches no face has no point outside. *)
LEMMA InSphereIs ==
  ASSUME NEW p \in Cell, solid \in Solids, InSphere(p)
  PROVE  Exact(p) = "inside"
<1> SUFFICES ASSUME Exact(p) # "inside" PROVE FALSE
  OBVIOUS
<1>0. solid \subseteq Cell
  BY GridAssumption DEF Cell
<1> DEFINE S(x) == {DistanceSquared(x, f) : f \in FacesOf(solid)}
<1>1. PICK b \in Spheres[solid] :
        Square(p[1] - b.centre[1]) + Square(p[2] - b.centre[2]) + Square(p[3] - b.centre[3]) < b.square
  BY DEF InSphere
<1>2. PICK x \in Candidates(solid) : CellsAt(x) \subseteq solid /\ b = [centre |-> x, square |-> Min(S(x))]
  BY DEF Spheres
<1>3. Square(p[1] - x[1]) + Square(p[2] - x[2]) + Square(p[3] - x[3]) < Min(S(x))
  BY <1>1, <1>2
<1>4. x \in Cell
  BY CandidatesAre
<1>5. PICK a : Touches(a, x) /\ a \in solid
  BY <1>2, <1>4, CellsAre
<1>6. PICK c : Touches(c, p) /\ c \notin solid
  BY ExactIs
<1>7. PICK f \in FacesOf(solid) : NoFarther(f, x, p)
  BY <1>0, <1>4, <1>5, <1>6, WayOut
<1>8. DistanceSquared(x, f) <= Square(x[1] - p[1]) + Square(x[2] - p[2]) + Square(x[3] - p[3])
  BY <1>7, NoFartherSquares
<1>9. \A k \in Axes : Square(x[k] - p[k]) = Square(p[k] - x[k]) /\ Square(p[k] - x[k]) \in Int
  BY <1>4 DEF Square, Cell
<1>10. \A g \in FacesOf(solid) : DistanceSquared(x, g) \in Nat
  BY <1>0, <1>4, DistanceIs
<1>11. Min(S(x)) <= DistanceSquared(x, f) /\ Min(S(x)) \in Int
  <2>1. S(x) # {} /\ S(x) \subseteq Int /\ DistanceSquared(x, f) \in S(x) /\ 0 \in Int
    BY <1>10
  <2>2. \A y \in S(x) : 0 <= y
    BY <1>10
  <2> HIDE DEF S
  <2> QED
    BY <2>1, <2>2, MinIs
<1> QED
  BY <1>3, <1>8, <1>9, <1>10, <1>11 DEF Axes

-----------------------------------------------------------------------------
(* Rays. *)

(* On one line along an axis, or in one row of cells. *)
InLine(p, q, k) == \A j \in Axes \ {k} : p[j] = q[j]

(* The point at parameter t of the ray from p. *)
Way(p, ray, t) == [p EXCEPT ![ray.axis] = @ + t * ray.sign]

(* The parts of a ray.                                                     *)
LEMMA RayIs ==
  ASSUME NEW ray \in Rays
  PROVE  ray.axis \in Axes /\ ray.sign \in {-1, 1} /\ (ray.sign = 1 \/ ray.sign = -1)
BY DEF Rays

(* It is on the line through p along the axis, t away.                     *)
LEMMA WayIs ==
  ASSUME NEW p \in Cell, NEW ray \in Rays, NEW t \in Int
  PROVE  /\ Way(p, ray, t) \in Cell
         /\ InLine(Way(p, ray, t), p, ray.axis)
         /\ p[ray.axis] \in Int
         /\ ray.sign = 1 => Way(p, ray, t)[ray.axis] = p[ray.axis] + t
         /\ ray.sign = -1 => Way(p, ray, t)[ray.axis] = p[ray.axis] - t
         /\ t = 0 => Way(p, ray, t) = p
<1>1. ray.axis \in Axes /\ (ray.sign = 1 \/ ray.sign = -1)
  BY RayIs
<1>2. p[ray.axis] \in Int
  BY <1>1 DEF Cell
<1>3. /\ ray.sign = 1 => t * ray.sign = t
      /\ ray.sign = -1 => t * ray.sign = -t
  OBVIOUS
<1> DEFINE x == p[ray.axis] + t * ray.sign
<1>4. x \in Int
  BY <1>1, <1>2, <1>3
<1>5. Way(p, ray, t) = [p EXCEPT ![ray.axis] = x]
  BY DEF Way
<1>6. /\ ray.sign = 1 => x = p[ray.axis] + t
      /\ ray.sign = -1 => x = p[ray.axis] - t
      /\ t = 0 => x = p[ray.axis]
  BY <1>1, <1>2, <1>3
<1> HIDE DEF x
<1> QED
  BY <1>1, <1>2, <1>4, <1>5, <1>6 DEF Cell, InLine

(* The ray runs over a face when it runs along its cell.                    *)
LEMMA WithinIs ==
  ASSUME NEW s, s \subseteq Cell, NEW f \in FacesOf(s), NEW p \in Cell
  PROVE  Within(f, p) <=>
           \A j \in Axes \ {f.axis} : Width * f.cell[j] <= p[j] /\ p[j] <= Width * (f.cell[j] + 1)
<1>1. \A j \in Axes : /\ f.cell[j] \in Int /\ p[j] \in Int /\ Width * f.cell[j] \in Int
                      /\ Width * (f.cell[j] + 1) = Width * f.cell[j] + Width
  <2> TAKE j \in Axes
  <2>1. f.cell \in Cell
    BY FaceIs
  <2>2. f.cell[j] \in Int /\ p[j] \in Int
    BY <2>1 DEF Cell
  <2> QED
    BY <2>2, Planes
<1>2. \A j \in Axes : Local(f, p, j) \in 0 .. Width
                      <=> (Width * f.cell[j] <= p[j] /\ p[j] <= Width * (f.cell[j] + 1))
  BY <1>1, WidthIs DEF Local
<1> QED
  BY <1>2 DEF Within, Sides

(* The ray parameter of a face is where the ray meets its plane.            *)
LEMMA ParameterIs ==
  ASSUME NEW s, s \subseteq Cell, NEW f \in FacesOf(s), NEW p \in Cell, NEW ray \in Rays, f.axis = ray.axis
  PROVE  /\ Parameter(f, p, ray) \in Int /\ Level(f) \in Int /\ p[ray.axis] \in Int
         /\ ray.sign = 1 => Parameter(f, p, ray) = Level(f) - p[ray.axis]
         /\ ray.sign = -1 => Parameter(f, p, ray) = p[ray.axis] - Level(f)
         /\ Way(p, ray, Parameter(f, p, ray))[ray.axis] = Level(f)
<1>1. Level(f) \in Int
  BY FaceIs
<1>2. ray.axis \in Axes /\ (ray.sign = 1 \/ ray.sign = -1)
  BY RayIs
<1>3. p[ray.axis] \in Int
  BY <1>2 DEF Cell
<1>4. /\ Parameter(f, p, ray) \in Int
      /\ ray.sign = 1 => Parameter(f, p, ray) = Level(f) - p[ray.axis]
      /\ ray.sign = -1 => Parameter(f, p, ray) = p[ray.axis] - Level(f)
  BY <1>1, <1>2, <1>3 DEF Parameter
<1>5. /\ ray.sign = 1 => Way(p, ray, Parameter(f, p, ray))[ray.axis] = p[ray.axis] + Parameter(f, p, ray)
      /\ ray.sign = -1 => Way(p, ray, Parameter(f, p, ray))[ray.axis] = p[ray.axis] - Parameter(f, p, ray)
  BY <1>4, WayIs
<1> QED
  BY <1>1, <1>2, <1>3, <1>4, <1>5

(* Where a ray hits a face it is on the surface.                            *)
LEMMA HitOnSurface ==
  ASSUME solid \subseteq Cell, NEW f \in FacesOf(solid), NEW p \in Cell, NEW ray \in Rays, f.axis = ray.axis,
         Within(f, p)
  PROVE  Exact(Way(p, ray, Parameter(f, p, ray))) = "surface"
<1> DEFINE q == Way(p, ray, Parameter(f, p, ray))
<1>1. Parameter(f, p, ray) \in Int /\ q[f.axis] = Level(f)
  BY ParameterIs
<1>2. q \in Cell /\ \A j \in Axes \ {f.axis} : q[j] = p[j]
  BY <1>1, WayIs DEF InLine
<1>3. \A j \in Axes \ {f.axis} : Width * f.cell[j] <= p[j] /\ p[j] <= Width * (f.cell[j] + 1)
  BY WithinIs
<1> HIDE DEF q
<1>4. \E c \in solid : \E d : Touches(c, q) /\ Touches(d, q) /\ d \notin solid
  BY <1>1, <1>2, <1>3, OnFace
<1>5. Exact(q) = "surface"
  BY <1>2, <1>4, ExactIs
<1> QED
  BY <1>5 DEF q

(* The column of a cell p belongs to along an axis has one for each point   *)
(* of the line along the axis through p.                                    *)
LEMMA Column ==
  ASSUME NEW p, NEW q \in Cell, NEW k \in Axes, InLine(q, p, k), NEW a, Touches(a, p)
  PROVE  \E b : Touches(b, q) /\ InLine(b, a, k)
<1>1. q[k] \in Int
  BY DEF Cell
<1>2. PICK i \in Int : Width * i <= q[k] /\ q[k] <= Width * (i + 1)
  BY <1>1, AroundIs
<1>3. a \in Cell
  BY DEF Touches
<1>4. /\ At(a, k, i) \in Cell /\ At(a, k, i)[k] = i
      /\ \A j \in Axes \ {k} : At(a, k, i)[j] = a[j]
  BY <1>3, AtIs
<1>5. Touches(At(a, k, i), q)
  BY <1>2, <1>4 DEF Touches, InLine
<1> QED
  BY <1>4, <1>5 DEF InLine

(* Between a point of a ray in the solid and one outside, in one column of  *)
(* cells, it hits a face.                                                   *)
LEMMA RayCross ==
  ASSUME NEW s, s \subseteq Cell, NEW p \in Cell, NEW ray \in Rays, NEW t \in Int, NEW u \in Int, t <= u,
         NEW a, Touches(a, Way(p, ray, t)), NEW b, Touches(b, Way(p, ray, u)),
         InLine(b, a, ray.axis), (a \in s) # (b \in s)
  PROVE  \E f \in FacesOf(s) : /\ f.axis = ray.axis /\ Within(f, p)
                               /\ t <= Parameter(f, p, ray) /\ Parameter(f, p, ray) <= u
<1> DEFINE k == ray.axis
           x == Way(p, ray, t)[k]
           y == Way(p, ray, u)[k]
<1>1. k \in Axes /\ (ray.sign = 1 \/ ray.sign = -1)
  BY RayIs
<1>2. /\ Way(p, ray, t) \in Cell /\ Way(p, ray, u) \in Cell /\ p[k] \in Int
      /\ \A j \in Axes \ {k} : Way(p, ray, t)[j] = p[j]
      /\ ray.sign = 1 => x = p[k] + t /\ y = p[k] + u
      /\ ray.sign = -1 => x = p[k] - t /\ y = p[k] - u
  BY WayIs DEF InLine
<1>3. /\ a \in Cell /\ b \in Cell
      /\ \A j \in Axes \ {k} : Width * a[j] <= p[j] /\ p[j] <= Width * (a[j] + 1)
      /\ Width * a[k] <= x /\ x <= Width * (a[k] + 1)
      /\ Width * b[k] <= y /\ y <= Width * (b[k] + 1)
  BY <1>1, <1>2 DEF Touches
<1>4. x \in Int /\ y \in Int /\ a[k] \in Int /\ b[k] \in Int
  BY <1>1, <1>2, <1>3 DEF Cell
<1> HIDE DEF x, y
<1>5. At(a, k, a[k]) = a /\ At(a, k, b[k]) = b
  <2>1. At(a, k, a[k]) = a
    BY <1>1, <1>3, AtIs
  <2>2. /\ At(a, k, b[k]) \in Cell /\ At(a, k, b[k])[k] = b[k]
        /\ \A j \in Axes \ {k} : At(a, k, b[k])[j] = b[j]
    <3>1. a \in Cell /\ k \in Axes /\ b[k] \in Int
      BY <1>1, <1>3, <1>4
    <3> HIDE DEF k
    <3>2. At(a, k, b[k]) \in Cell /\ At(a, k, b[k])[k] = b[k]
      BY <3>1, AtIs
    <3>3. \A j \in Axes \ {k} : At(a, k, b[k])[j] = a[j]
      BY <3>1, AtIs
    <3>4. \A j \in Axes \ {k} : b[j] = a[j]
      BY DEF k, InLine
    <3> QED
      BY <3>2, <3>3, <3>4
  <2> QED
    BY <1>3, <2>1, <2>2 DEF Cell
<1>6. PICK f \in FacesOf(s) :
         /\ f.axis = k
         /\ (x <= Level(f) /\ Level(f) <= y) \/ (y <= Level(f) /\ Level(f) <= x)
         /\ \A n \in Axes \ {k} : f.cell[n] = a[n]
  BY <1>1, <1>3, <1>4, <1>5, Crossing
<1>7. Within(f, p)
  BY <1>3, <1>6, WithinIs
<1>8. /\ Parameter(f, p, ray) \in Int /\ Level(f) \in Int
      /\ ray.sign = 1 => Parameter(f, p, ray) = Level(f) - p[k]
      /\ ray.sign = -1 => Parameter(f, p, ray) = p[k] - Level(f)
  BY <1>6, ParameterIs
<1>9. t <= Parameter(f, p, ray) /\ Parameter(f, p, ray) <= u
  BY <1>1, <1>2, <1>4, <1>6, <1>8
<1> QED
  BY <1>6, <1>7, <1>9

(* A ray that starts on one side of the surface has hit a face before it is *)
(* on the other.                                                            *)
LEMMA HitBefore ==
  ASSUME solid \subseteq Cell, NEW p \in Cell, NEW ray \in Rays, NEW t \in Nat,
         \/ Exact(p) = "outside" /\ Exact(Way(p, ray, t)) = "inside"
         \/ Exact(p) = "inside" /\ Exact(Way(p, ray, t)) = "outside"
  PROVE  \E f \in FacesOf(solid) : /\ f.axis = ray.axis /\ Within(f, p)
                                   /\ 0 < Parameter(f, p, ray) /\ Parameter(f, p, ray) < t
<1> DEFINE q == Way(p, ray, t)
<1>1. q \in Cell /\ Way(p, ray, 0) = p /\ InLine(q, p, ray.axis)
  BY WayIs
<1>2. ray.axis \in Axes
  BY RayIs
<1>3. PICK a : Touches(a, p)
  BY ExactIs
<1> HIDE DEF q
<1>4. PICK b : Touches(b, q) /\ InLine(b, a, ray.axis)
  BY <1>1, <1>2, <1>3, Column
<1>5. (a \in solid) # (b \in solid)
  <2>1. CASE Exact(p) = "outside" /\ Exact(q) = "inside"
    BY <1>1, <1>3, <1>4, <2>1, ExactIs
  <2>2. CASE Exact(p) = "inside" /\ Exact(q) = "outside"
    BY <1>1, <1>3, <1>4, <2>2, ExactIs
  <2> QED
    BY <2>1, <2>2 DEF q
<1>6. PICK f \in FacesOf(solid) : /\ f.axis = ray.axis /\ Within(f, p)
                                  /\ 0 <= Parameter(f, p, ray) /\ Parameter(f, p, ray) <= t
  <2>1. Touches(a, Way(p, ray, 0)) /\ Touches(b, Way(p, ray, t)) /\ 0 \in Int /\ t \in Int /\ 0 <= t
    BY <1>1, <1>3, <1>4 DEF q
  <2> QED
    BY <1>4, <1>5, <2>1, RayCross
<1>7. Parameter(f, p, ray) \in Int
  BY <1>6, ParameterIs
<1>8. Exact(Way(p, ray, Parameter(f, p, ray))) = "surface"
  BY <1>6, HitOnSurface
<1>9. Parameter(f, p, ray) # 0 /\ Parameter(f, p, ray) # t
  <2>1. Exact(p) # "surface" /\ Exact(Way(p, ray, t)) # "surface"
    OBVIOUS
  <2> QED
    BY <1>1, <1>8, <2>1
<1> QED
  BY <1>6, <1>7, <1>9

(* A ray from inside leaves the solid.                                      *)
LEMMA LeavesSolid ==
  ASSUME solid \in Solids, NEW p \in Cell, NEW ray \in Rays
  PROVE  \E t \in Nat : \E b : /\ Touches(b, Way(p, ray, t)) /\ b \notin solid
<1>0. IsFiniteSet(solid) /\ solid \subseteq Cell
  BY GridAssumption DEF Cell
<1>1. PICK N \in Nat : \A c \in solid : \A k \in Axes : -N <= c[k] /\ c[k] <= N
  BY <1>0, SolidBounded
<1> DEFINE k == ray.axis
<1>2. k \in Axes /\ (ray.sign = 1 \/ ray.sign = -1)
  BY RayIs
<1>3. p[k] \in Int
  BY <1>2 DEF Cell
<1> HIDE DEF k
<1>4. Width * (N + 2) \in Int /\ Width * (-(N + 1)) \in Int
  <2>1. N + 2 \in Int /\ -(N + 1) \in Int
    OBVIOUS
  <2> QED
    BY <2>1, Planes
<1>5. PICK t \in Nat : /\ p[k] + t > Width * (N + 2)
                       /\ p[k] - t < Width * (-(N + 1))
  <2> DEFINE u == Width * (N + 2)
             v == Width * (-(N + 1))
             z(x) == IF x < 0 THEN -x ELSE x
             t == z(u) + z(v) + z(p[k]) + 1
  <2>1. u \in Int /\ v \in Int
    BY <1>4
  <2> HIDE DEF u, v
  <2>2. t \in Nat /\ p[k] + t > u /\ p[k] - t < v
    BY <1>3, <2>1
  <2> QED
    BY <2>2 DEF u, v
<1> DEFINE q == Way(p, ray, t)
<1>6. q \in Cell /\ (q[k] = p[k] + t \/ q[k] = p[k] - t)
  BY <1>2, WayIs DEF k
<1> HIDE DEF q
<1>7. PICK b : Touches(b, q)
  BY <1>6, ExactIs
<1>8. b \notin solid
  <2> SUFFICES ASSUME b \in solid PROVE FALSE
    OBVIOUS
  <2>1. -N <= b[k] /\ b[k] <= N /\ b[k] \in Int /\ Width * b[k] <= q[k] /\ q[k] <= Width * (b[k] + 1)
    BY <1>1, <1>2, <1>7 DEF Touches, Cell
  <2>2. b[k] + 1 \in Int /\ b[k] + 1 <= N + 2 /\ -(N + 1) <= b[k] /\ N + 2 \in Int /\ -(N + 1) \in Int
    BY <2>1
  <2>3. Width * (b[k] + 1) <= Width * (N + 2) /\ Width * (-(N + 1)) <= Width * b[k]
    BY <2>1, <2>2, Planes
  <2>4. Width * (b[k] + 1) \in Int /\ Width * b[k] \in Int
    BY <2>1, <2>2, Planes
  <2> QED
    BY <1>3, <1>4, <1>5, <1>6, <2>1, <2>3, <2>4
<1> QED
  BY <1>7, <1>8 DEF q

(* So it has a hit ahead.                                                   *)
LEMMA HitAhead ==
  ASSUME solid \in Solids, NEW p \in Cell, NEW ray \in Rays, Exact(p) = "inside"
  PROVE  Ahead(p, ray) # {}
<1>0. solid \subseteq Cell
  BY GridAssumption DEF Cell
<1>1. PICK t \in Nat : \E c : Touches(c, Way(p, ray, t)) /\ c \notin solid
  BY LeavesSolid
<1>c. PICK c : Touches(c, Way(p, ray, t)) /\ c \notin solid
  BY <1>1
<1>2. /\ Way(p, ray, t) \in Cell /\ Way(p, ray, 0) = p
      /\ InLine(p, Way(p, ray, t), ray.axis)
  BY WayIs DEF InLine
<1>3. ray.axis \in Axes
  BY RayIs
<1>4. PICK a : Touches(a, p) /\ InLine(a, c, ray.axis)
  BY <1>c, <1>2, <1>3, Column
<1>5. a \in solid
  BY <1>4, ExactIs
<1>6. PICK f \in FacesOf(solid) : /\ f.axis = ray.axis /\ Within(f, p)
                                  /\ 0 <= Parameter(f, p, ray) /\ Parameter(f, p, ray) <= t
  <2>1. Touches(a, Way(p, ray, 0)) /\ 0 \in Int /\ t \in Int /\ 0 <= t
    BY <1>2, <1>4
  <2>2. (a \in solid) # (c \in solid) /\ InLine(c, a, ray.axis)
    BY <1>c, <1>4, <1>5 DEF InLine
  <2> QED
    BY <1>0, <1>c, <1>4, <2>1, <2>2, RayCross
<1>7. Parameter(f, p, ray) # 0
  <2>1. Exact(Way(p, ray, Parameter(f, p, ray))) = "surface"
    BY <1>0, <1>6, HitOnSurface
  <2> QED
    BY <1>2, <2>1
<1>8. Parameter(f, p, ray) > 0
  BY <1>0, <1>6, <1>7, ParameterIs
<1> QED
  BY <1>6, <1>8 DEF Ahead, Hits, Faces

(* The face from inside is left by its side: its cell is the nearer one.    *)
LEMMA LeftByItsSide ==
  ASSUME solid \in Solids, NEW p \in Cell, NEW ray \in Rays, Exact(p) = "inside", NEW f \in Closest(p, ray)
  PROVE  f.side = ray.sign
<1>0. solid \subseteq Cell
  BY GridAssumption DEF Cell
<1>1. /\ f \in FacesOf(solid) /\ f.axis = ray.axis /\ Within(f, p) /\ Parameter(f, p, ray) > 0
      /\ \A g \in FacesOf(solid) : g.axis = ray.axis /\ Within(g, p) /\ Parameter(g, p, ray) > 0
           => Parameter(f, p, ray) <= Parameter(g, p, ray)
  BY DEF Closest, Ahead, Hits, Faces
<1> DEFINE k == ray.axis
           d == Parameter(f, p, ray)
           c == f.cell
           n == Neighbour(f.cell, f.axis, f.side)
           q == Way(p, ray, d - 1)
<1>2. /\ c \in Cell /\ k \in Axes /\ n \in Cell /\ n \notin solid /\ c[k] \in Int
      /\ (f.side = -1 \/ f.side = 1) /\ n[k] = c[k] + f.side /\ \A j \in Axes \ {k} : n[j] = c[j]
      /\ f.side = 1 => Level(f) = Width * (c[k] + 1)
      /\ f.side = -1 => Level(f) = Width * c[k]
  BY <1>0, <1>1, FaceIs
<1>3. \A j \in Axes \ {k} : Width * c[j] <= p[j] /\ p[j] <= Width * (c[j] + 1)
  BY <1>0, <1>1, WithinIs
<1>4. /\ d \in Int /\ Level(f) \in Int /\ p[k] \in Int /\ d - 1 \in Int
      /\ ray.sign = 1 => d = Level(f) - p[k]
      /\ ray.sign = -1 => d = p[k] - Level(f)
  BY <1>0, <1>1, ParameterIs
<1>5. /\ q \in Cell /\ \A j \in Axes \ {k} : q[j] = p[j]
      /\ ray.sign = 1 => q[k] = p[k] + (d - 1)
      /\ ray.sign = -1 => q[k] = p[k] - (d - 1)
      /\ Way(p, ray, 0) = p
  <2>1. Way(p, ray, 0) = p
    BY WayIs
  <2>2. /\ q \in Cell /\ \A j \in Axes \ {k} : q[j] = p[j]
        /\ ray.sign = 1 => q[k] = p[k] + (d - 1)
        /\ ray.sign = -1 => q[k] = p[k] - (d - 1)
    <3> HIDE DEF d
    <3> QED
      BY <1>4, WayIs DEF InLine
  <2> QED
    BY <2>1, <2>2
<1>6. ray.sign = 1 \/ ray.sign = -1
  BY RayIs
<1> SUFFICES ASSUME f.side # ray.sign PROVE FALSE
  OBVIOUS
<1> HIDE DEF k, d, c, n, q
<1>7. Touches(n, q)
  <2>1. \A j \in Axes \ {k} : Width * n[j] <= q[j] /\ q[j] <= Width * (n[j] + 1)
    BY <1>2, <1>3, <1>5
  <2>2. n[k] \in Int /\ n[k] + 1 \in Int /\ Width \in Nat /\ Width > 0
    BY <1>2, WidthIs DEF Cell
  <2>3. /\ Width * n[k] \in Int /\ Width * (n[k] + 1) = Width * n[k] + Width
        /\ Width * c[k] \in Int /\ Width * (c[k] + 1) = Width * c[k] + Width
        /\ Width * (n[k] + 1) \in Int
    BY <1>2, <2>2, Planes
  <2>4. CASE ray.sign = 1 /\ f.side = -1
    <3>1. n[k] + 1 = c[k] /\ q[k] = Level(f) - 1 /\ Level(f) = Width * c[k]
      BY <1>2, <1>4, <1>5, <2>4
    <3> QED
      BY <1>2, <1>4, <2>1, <2>2, <2>3, <3>1 DEF Touches
  <2>5. CASE ray.sign = -1 /\ f.side = 1
    <3>1. n[k] = c[k] + 1 /\ q[k] = Level(f) + 1 /\ Level(f) = Width * (c[k] + 1)
      BY <1>2, <1>4, <1>5, <2>5
    <3> QED
      BY <1>2, <1>4, <2>1, <2>2, <2>3, <3>1 DEF Touches
  <2> QED
    BY <1>2, <1>6, <2>4, <2>5
<1>8. PICK a : Touches(a, p) /\ InLine(a, n, k)
  <2>1. InLine(p, q, k)
    BY <1>5 DEF InLine
  <2> QED
    BY <1>2, <1>7, <2>1, Column
<1>9. a \in solid
  BY <1>8, ExactIs
<1>10. PICK g \in FacesOf(solid) : /\ g.axis = ray.axis /\ Within(g, p)
                                   /\ 0 <= Parameter(g, p, ray) /\ Parameter(g, p, ray) <= d - 1
  <2>1. Touches(a, Way(p, ray, 0)) /\ Touches(n, Way(p, ray, d - 1))
    BY <1>5, <1>7, <1>8 DEF q
  <2>2. 0 <= d - 1 /\ 0 \in Int /\ d - 1 \in Int
    BY <1>1, <1>4 DEF d
  <2>3. InLine(n, a, ray.axis)
    BY <1>8 DEF k, InLine
  <2>4. (a \in solid) # (n \in solid)
    BY <1>2, <1>9
  <2> QED
    BY <1>0, <2>1, <2>2, <2>3, <2>4, RayCross
<1>11. Parameter(g, p, ray) # 0
  <2>1. Exact(Way(p, ray, Parameter(g, p, ray))) = "surface"
    BY <1>0, <1>10, HitOnSurface
  <2> QED
    BY <1>5, <2>1
<1>12. Parameter(g, p, ray) \in Int
  BY <1>0, <1>10, ParameterIs
<1>13. d <= Parameter(g, p, ray)
  BY <1>1, <1>10, <1>11, <1>12 DEF d
<1> QED
  BY <1>4, <1>10, <1>12, <1>13

(* The answer of the directed DistanceToIn(). *)
DistanceAhead(p, ray) ==
  IF Ahead(p, ray) = {} THEN Infinity ELSE Min({Parameter(f, p, ray) : f \in Ahead(p, ray)})

(* The lesser of two numbers.                                              *)
LEMMA MinPair ==
  ASSUME NEW a \in Int, NEW b \in Int
  PROVE  Min({a, b}) \in Int /\ Min({a, b}) <= a /\ Min({a, b}) <= b
<1>1. PICK N \in Int : N <= a /\ N <= b
  <2>1. CASE a <= b
    BY <2>1
  <2>2. CASE b <= a
    BY <2>2
  <2> QED
    BY <2>1, <2>2
<1> DEFINE S == {a, b}
<1>2. S \subseteq Int /\ S # {} /\ a \in S /\ b \in S /\ \A x \in S : N <= x
  BY <1>1
<1> HIDE DEF S
<1>3. Min(S) \in S /\ \A x \in S : Min(S) <= x
  BY <1>2, MinIs
<1>4. Min(S) \in Int /\ Min(S) <= a /\ Min(S) <= b
  BY <1>2, <1>3
<1> QED
  BY <1>4 DEF S

(* From outside no matter is skipped.                                       *)
LEMMA InRight ==
  ASSUME solid \in Solids, NEW p \in Cell, NEW ray \in Rays, Exact(p) = "outside",
         NEW d, d = DistanceAhead(p, ray)
  PROVE  /\ d < Infinity => Exact(Way(p, ray, d)) = "surface"
         /\ \A t \in 0 .. Min({d, 8 * Width}) : Exact(Way(p, ray, t)) # "inside"
<1>0. solid \subseteq Cell
  BY GridAssumption DEF Cell
<1> DEFINE S == {Parameter(f, p, ray) : f \in Ahead(p, ray)}
<1>1. \A f \in Ahead(p, ray) : /\ f \in FacesOf(solid) /\ f.axis = ray.axis /\ Within(f, p)
                               /\ Parameter(f, p, ray) > 0
  BY DEF Ahead, Hits, Faces
<1>2. \A f \in Ahead(p, ray) : Parameter(f, p, ray) \in Int
  BY <1>0, <1>1, ParameterIs
<1>3. Ahead(p, ray) # {} => d \in S /\ d \in Int /\ \A f \in Ahead(p, ray) : d <= Parameter(f, p, ray)
  <2> SUFFICES ASSUME Ahead(p, ray) # {}
               PROVE  d \in S /\ d \in Int /\ \A f \in Ahead(p, ray) : d <= Parameter(f, p, ray)
    OBVIOUS
  <2>1. S # {} /\ S \subseteq Int /\ 0 \in Int /\ \A x \in S : 0 <= x
    BY <1>1, <1>2
  <2>2. d = Min(S)
    BY DEF DistanceAhead
  <2>3. \A f \in Ahead(p, ray) : Parameter(f, p, ray) \in S
    OBVIOUS
  <2> HIDE DEF S
  <2>4. d \in S /\ \A x \in S : d <= x
    BY <2>1, <2>2, MinIs
  <2> QED
    BY <2>1, <2>3, <2>4
<1>4. Ahead(p, ray) = {} => d = 1000
  BY DEF DistanceAhead, Infinity
<1>5. d \in Int
  BY <1>3, <1>4
<1>6. ASSUME d < Infinity PROVE Exact(Way(p, ray, d)) = "surface"
  <2>1. Ahead(p, ray) # {}
    BY <1>4, <1>6 DEF Infinity
  <2>2. PICK f \in Ahead(p, ray) : d = Parameter(f, p, ray)
    BY <1>3, <2>1
  <2> QED
    BY <1>0, <1>1, <2>2, HitOnSurface
<1>7. ASSUME NEW t \in 0 .. Min({d, 8 * Width}), Exact(Way(p, ray, t)) = "inside"
      PROVE  FALSE
  <2>1. t \in Nat /\ t <= d
    <3>1. 8 * Width \in Int
      BY WidthIs
    <3>2. Min({d, 8 * Width}) \in Int /\ Min({d, 8 * Width}) <= d
      BY <1>5, <3>1, MinPair
    <3> QED
      BY <1>5, <3>2
  <2>2. PICK f \in FacesOf(solid) : /\ f.axis = ray.axis /\ Within(f, p)
                                    /\ 0 < Parameter(f, p, ray) /\ Parameter(f, p, ray) < t
    BY <1>0, <1>7, <2>1, HitBefore
  <2>3. f \in Ahead(p, ray)
    <3>1. Parameter(f, p, ray) \in Int
      BY <1>0, <2>2, ParameterIs
    <3> QED
      BY <2>2, <3>1 DEF Ahead, Hits, Faces
  <2>4. d <= Parameter(f, p, ray) /\ Parameter(f, p, ray) \in Int
    BY <1>2, <1>3, <2>3
  <2> QED
    BY <1>5, <2>1, <2>2, <2>4
<1> QED
  BY <1>6, <1>7

(* From inside the solid is not left before the hit.                        *)
LEMMA OutRight ==
  ASSUME solid \in Solids, NEW p \in Cell, NEW ray \in Rays, Exact(p) = "inside",
         NEW f \in Closest(p, ray), NEW d, d = Parameter(f, p, ray)
  PROVE  /\ d > 0 /\ Exact(Way(p, ray, d)) = "surface"
         /\ \A t \in 0 .. d : Exact(Way(p, ray, t)) # "outside"
         /\ f.side = ray.sign
<1>0. solid \subseteq Cell
  BY GridAssumption DEF Cell
<1>1. /\ f \in FacesOf(solid) /\ f.axis = ray.axis /\ Within(f, p) /\ d > 0
      /\ \A g \in FacesOf(solid) : g.axis = ray.axis /\ Within(g, p) /\ Parameter(g, p, ray) > 0
           => d <= Parameter(g, p, ray)
  BY DEF Closest, Ahead, Hits, Faces
<1>2. d \in Int
  BY <1>0, <1>1, ParameterIs
<1>3. Exact(Way(p, ray, d)) = "surface"
  BY <1>0, <1>1, HitOnSurface
<1>4. ASSUME NEW t \in 0 .. d, Exact(Way(p, ray, t)) = "outside" PROVE FALSE
  <2>1. t \in Nat /\ t <= d
    BY <1>2
  <2>2. PICK g \in FacesOf(solid) : /\ g.axis = ray.axis /\ Within(g, p)
                                    /\ 0 < Parameter(g, p, ray) /\ Parameter(g, p, ray) < t
    BY <1>0, <1>4, <2>1, HitBefore
  <2>3. Parameter(g, p, ray) \in Int
    BY <1>0, <2>2, ParameterIs
  <2>4. d <= Parameter(g, p, ray)
    BY <1>1, <2>2, <2>3
  <2> QED
    BY <1>2, <2>1, <2>2, <2>3, <2>4
<1> QED
  BY <1>1, <1>3, <1>4, LeftByItsSide

(* What a query with a given answer promises of the distance. *)
Skips(p, ray, what, reply) ==
  /\ what = "DistanceToIn" /\ Exact(p) = "outside" =>
       /\ reply.distance < Infinity => Exact(Way(p, ray, reply.distance)) = "surface"
       /\ \A t \in 0 .. Min({reply.distance, 8 * Width}) : Exact(Way(p, ray, t)) # "inside"
  /\ what = "DistanceToOut" /\ Exact(p) = "inside" =>
       /\ reply.distance > 0 /\ Exact(Way(p, ray, reply.distance)) = "surface"
       /\ \A t \in 0 .. reply.distance : Exact(Way(p, ray, t)) # "outside"
       /\ reply.side = ray.sign

(* NoMatterSkipped says it of the query and the answer there are ...       *)
LEMMA SkipsIs == NoMatterSkipped <=> Skips(query.point, query.ray, query.what, answer)
  BY DEF NoMatterSkipped, Skips, Way, Along

(* ... and, the solid being what it was, of those of the next state.       *)
LEMMA SkipsLater ==
  ASSUME solid' = solid, Skips(query'.point, query'.ray, query'.what, answer')
  PROVE  NoMatterSkipped'
  BY DEF NoMatterSkipped, Skips, Way, Along, Exact

(* The points asked about are points of the grid.                          *)
LEMMA TargetsAre == Targets \subseteq Cell
  BY GridAssumption DEF Cell

(* Every query keeps NoMatterSkipped: DistanceToIn() by InRight,           *)
(* DistanceToOut() by HitAhead and OutRight.                               *)
LEMMA DistancesStep ==
  ASSUME solid \in Solids, NoMatterSkipped, [RayNext]_rayVars
  PROVE  (solid \in Solids)' /\ NoMatterSkipped'
<1>1. solid' = solid
  BY DEF RayNext, rayVars, ClassifyPointAt, DistanceToInAlong, DistanceToOutAlong, Ask, Return
<1>2. CASE UNCHANGED rayVars
  <2>1. solid' = solid /\ query' = query /\ answer' = answer
    BY <1>2 DEF rayVars
  <2>2. Skips(query'.point, query'.ray, query'.what, answer')
    BY <2>1, SkipsIs
  <2> QED
    BY <1>1, <2>2, SkipsLater
<1>3. CASE Return
  <2>1. query'.what # "DistanceToIn" /\ query'.what # "DistanceToOut"
    BY <1>3 DEF Return, NoQuery
  <2>2. Skips(query'.point, query'.ray, query'.what, answer')
    BY <2>1 DEF Skips
  <2> QED
    BY <1>1, <2>2, SkipsLater
<1>4. CASE \E p \in Targets : ClassifyPointAt(p)
  <2>1. query'.what # "DistanceToIn" /\ query'.what # "DistanceToOut"
    BY <1>4 DEF ClassifyPointAt, Ask
  <2>2. Skips(query'.point, query'.ray, query'.what, answer')
    BY <2>1 DEF Skips
  <2> QED
    BY <1>1, <2>2, SkipsLater
<1>5. ASSUME NEW p \in Targets, NEW ray \in Rays, DistanceToInAlong(p, ray)
      PROVE  NoMatterSkipped'
  <2>1. query'.what = "DistanceToIn" /\ query'.point = p /\ query'.ray = ray
    BY <1>5 DEF DistanceToInAlong, Ask
  <2>2. answer'.distance = DistanceAhead(p, ray)
    BY <1>5 DEF DistanceToInAlong, DistanceAhead, NoAnswer
  <2>3. p \in Cell
    BY TargetsAre
  <2>4. ASSUME Exact(p) = "outside"
        PROVE  /\ answer'.distance < Infinity => Exact(Way(p, ray, answer'.distance)) = "surface"
               /\ \A t \in 0 .. Min({answer'.distance, 8 * Width}) : Exact(Way(p, ray, t)) # "inside"
    BY <2>2, <2>3, <2>4, InRight
  <2>5. Skips(p, ray, "DistanceToIn", answer')
    BY <2>4 DEF Skips
  <2> QED
    BY <1>1, <2>1, <2>5, SkipsLater
<1>6. ASSUME NEW p \in Targets, NEW ray \in Rays, DistanceToOutAlong(p, ray)
      PROVE  NoMatterSkipped'
  <2>1. query'.what = "DistanceToOut" /\ query'.point = p /\ query'.ray = ray
    BY <1>6 DEF DistanceToOutAlong, Ask
  <2>3. p \in Cell
    BY TargetsAre
  <2>4. ASSUME Exact(p) = "inside"
        PROVE  /\ answer'.distance > 0 /\ Exact(Way(p, ray, answer'.distance)) = "surface"
               /\ \A t \in 0 .. answer'.distance : Exact(Way(p, ray, t)) # "outside"
               /\ answer'.side = ray.sign
    <3>1. Ahead(p, ray) # {}
      BY <2>3, <2>4, HitAhead
    <3>2. PICK f \in Closest(p, ray) :
             answer' = [NoAnswer EXCEPT !.distance = Parameter(f, p, ray), !.side = f.side]
      BY <1>6, <3>1 DEF DistanceToOutAlong
    <3>3. answer'.distance = Parameter(f, p, ray) /\ answer'.side = f.side
      BY <3>2 DEF NoAnswer
    <3> QED
      BY <2>3, <2>4, <3>3, OutRight
  <2>5. Skips(p, ray, "DistanceToOut", answer')
    BY <2>4 DEF Skips
  <2> QED
    BY <1>1, <2>1, <2>5, SkipsLater
<1> QED
  BY <1>1, <1>2, <1>3, <1>4, <1>5, <1>6 DEF RayNext

(* The directed DistanceToIn() and DistanceToOut() end on the surface and   *)
(* pass over no matter on the way, along every axis ray from every point,   *)
(* for every finite solid of the grid.                                      *)
THEOREM RaysSkipNoMatter == RaySpec => []NoMatterSkipped
<1>1. RayInit => solid \in Solids /\ NoMatterSkipped
  <2> SUFFICES ASSUME RayInit PROVE solid \in Solids /\ NoMatterSkipped
    OBVIOUS
  <2>1. query.what # "DistanceToIn" /\ query.what # "DistanceToOut" /\ solid \in Solids
    BY DEF RayInit, NoQuery
  <2> QED
    BY <2>1 DEF NoMatterSkipped
<1>2. (solid \in Solids /\ NoMatterSkipped) /\ [RayNext]_rayVars => (solid \in Solids /\ NoMatterSkipped)'
  BY DistancesStep
<1> QED
  BY <1>1, <1>2, PTL DEF RaySpec

-----------------------------------------------------------------------------
(* Parity. *)

(* The steps into and out of B from i to i + n. *)
Turns(B, i, n) == {m \in Int : i <= m /\ m < i + n /\ (m \in B) # (m + 1 \in B)}

(* The steps into and out of B from i to i + n are odd in number if only    *)
(* one of the two is in B.                                                  *)
LEMMA StepsParity ==
  ASSUME NEW B, NEW i \in Int, NEW n \in Nat
  PROVE  /\ IsFiniteSet(Turns(B, i, n))
         /\ Cardinality(Turns(B, i, n)) % 2 = 1 <=> ((i \in B) # (i + n \in B))
<1> DEFINE T(j) == {m \in Int : i <= m /\ m < i + j /\ (m \in B) # (m + 1 \in B)}
           S == {j \in Nat : IsFiniteSet(T(j)) /\ (Cardinality(T(j)) % 2 = 1 <=> ((i \in B) # (i + j \in B)))}
<1>1. 0 \in S
  <2>1. T(0) = {} /\ i + 0 = i
    OBVIOUS
  <2>2. IsFiniteSet(T(0)) /\ Cardinality(T(0)) = 0
    BY <2>1, FS_EmptySet
  <2> QED
    BY <2>1, <2>2
<1>2. ASSUME NEW j \in Nat, j \in S PROVE j + 1 \in S
  <2>1. IsFiniteSet(T(j)) /\ Cardinality(T(j)) \in Nat
        /\ (Cardinality(T(j)) % 2 = 1 <=> ((i \in B) # (i + j \in B)))
    BY <1>2, FS_CardinalityType
  <2>2. i + j \in Int /\ i + (j + 1) = (i + j) + 1 /\ i + j \notin T(j)
    OBVIOUS
  <2>3. CASE (i + j \in B) # ((i + j) + 1 \in B)
    <3>1. T(j + 1) = T(j) \cup {i + j}
      BY <2>2, <2>3
    <3> HIDE DEF T
    <3>2. IsFiniteSet(T(j + 1)) /\ Cardinality(T(j + 1)) = Cardinality(T(j)) + 1
      BY <2>1, <2>2, <3>1, FS_AddElement
    <3>3. Cardinality(T(j + 1)) % 2 = 1 <=> ~(Cardinality(T(j)) % 2 = 1)
      BY <2>1, <3>2
    <3>4. ((i \in B) # (i + (j + 1) \in B)) <=> ~((i \in B) # (i + j \in B))
      BY <2>2, <2>3
    <3> QED
      BY <2>1, <3>2, <3>3, <3>4
  <2>4. CASE (i + j \in B) = ((i + j) + 1 \in B)
    <3>1. T(j + 1) = T(j)
      BY <2>2, <2>4
    <3> HIDE DEF T
    <3>2. ((i \in B) # (i + (j + 1) \in B)) <=> ((i \in B) # (i + j \in B))
      BY <2>2, <2>4
    <3> QED
      BY <2>1, <3>1, <3>2
  <2> QED
    BY <2>3, <2>4
<1>3. n \in S
  <2> HIDE DEF S
  <2> QED
    BY <1>1, <1>2, NatSetInduction
<1>4. Turns(B, i, n) = T(n)
  BY DEF Turns
<1>5. IsFiniteSet(T(n)) /\ (Cardinality(T(n)) % 2 = 1 <=> ((i \in B) # (i + n \in B)))
  BY <1>3
<1> QED
  BY <1>4, <1>5

(* Where a row of cells from c's with index i on enters and leaves s.       *)
Steps(s, c, k, i) ==
  {m \in Int : i <= m /\ (At(c, k, m) \in s) # (At(c, k, m + 1) \in s)}

(* A row that starts in the solid leaves it once more than it enters it.    *)
LEMMA RowParity ==
  ASSUME NEW s, IsFiniteSet(s), s \subseteq Cell, NEW c \in Cell, NEW k \in Axes, NEW i \in Int
  PROVE  /\ IsFiniteSet(Steps(s, c, k, i))
         /\ Cardinality(Steps(s, c, k, i)) % 2 = 1 <=> At(c, k, i) \in s
<1> DEFINE T == Steps(s, c, k, i)
<1>1. PICK N \in Nat : \A d \in s : \A j \in Axes : -N <= d[j] /\ d[j] <= N
  BY SolidBounded
<1> DEFINE B == {m \in Int : At(c, k, m) \in s}
<1>2. \A m \in Int : m \in B <=> At(c, k, m) \in s
  OBVIOUS
<1>3. \A m \in Int : m > N => m \notin B
  <2> TAKE m \in Int
  <2>1. At(c, k, m)[k] = m
    BY AtIs
  <2> QED
    BY <1>1, <2>1
<1> HIDE DEF B
<1>4. PICK n \in Nat : i + n > N
  <2>1. CASE i > N
    <3>1. i + 0 > N
      BY <2>1
    <3> QED
      BY <3>1
  <2>2. CASE i <= N
    <3>1. N - i + 1 \in Nat /\ i + (N - i + 1) > N
      BY <2>2
    <3> QED
      BY <3>1
  <2> QED
    BY <2>1, <2>2
<1>5. T = Turns(B, i, n)
  <2>1. \A m \in Int : m + 1 \in Int
    OBVIOUS
  <2>2. \A m \in Int : (At(c, k, m) \in s) # (At(c, k, m + 1) \in s) <=> (m \in B) # (m + 1 \in B)
    BY <1>2, <2>1
  <2>3. \A m \in Int : (m \in B) # (m + 1 \in B) => m < i + n
    <3> SUFFICES ASSUME NEW m \in Int, m >= i + n PROVE ~((m \in B) # (m + 1 \in B))
      OBVIOUS
    <3>1. m > N /\ m + 1 > N /\ m + 1 \in Int
      BY <1>4
    <3> QED
      BY <1>3, <3>1
  <2> QED
    BY <2>2, <2>3 DEF Steps, Turns
<1> HIDE DEF T
<1>6. i + n \in Int /\ i + n \notin B
  BY <1>3, <1>4
<1>7. IsFiniteSet(T) /\ (Cardinality(T) % 2 = 1 <=> ((i \in B) # (i + n \in B)))
  BY <1>5, StepsParity
<1> QED
  BY <1>2, <1>6, <1>7 DEF T

(* A number inside a cell belongs to no other.                              *)
LEMMA OneIndex ==
  ASSUME NEW x \in Int, NEW i \in Int, NEW j \in Int,
         Width * i < x, x < Width * (i + 1), Width * j <= x, x <= Width * (j + 1)
  PROVE  i = j
<1>1. i + 1 \in Int /\ j + 1 \in Int
  OBVIOUS
<1>2. Width * i \in Int /\ Width * j \in Int /\ Width * (i + 1) \in Int /\ Width * (j + 1) \in Int
  BY <1>1, Planes
<1>3. CASE i + 1 <= j
  <2>1. Width * (i + 1) <= Width * j
    BY <1>1, <1>3, Planes
  <2> QED
    BY <1>2, <2>1
<1>4. CASE j + 1 <= i
  <2>1. Width * (j + 1) <= Width * i
    BY <1>1, <1>4, Planes
  <2> QED
    BY <1>2, <2>1
<1> QED
  BY <1>3, <1>4

(* A plane has one index.                                                  *)
LEMMA LevelOne ==
  ASSUME NEW i \in Int, NEW j \in Int, Width * i = Width * j
  PROVE  i = j
<1>1. Width * i \in Int /\ Width * j \in Int /\ Width * (i + 1) \in Int /\ Width * (j + 1) \in Int
      /\ Width * (i + 1) = Width * i + Width /\ Width * (j + 1) = Width * j + Width /\ Width > 0 /\ Width \in Nat
  BY Planes, WidthIs
<1>2. CASE i < j
  <2>1. Width * (i + 1) <= Width * j
    BY <1>2, Planes
  <2> QED
    BY <1>1, <2>1
<1>3. CASE j < i
  <2>1. Width * (j + 1) <= Width * i
    BY <1>3, Planes
  <2> QED
    BY <1>1, <2>1
<1> QED
  BY <1>2, <1>3

(* A ray over the inside of a face runs inside its column of cells.         *)
LEMMA InteriorIs ==
  ASSUME NEW s, s \subseteq Cell, NEW f \in FacesOf(s), NEW p \in Cell, Within(f, p), ~OnBoundary(f, p)
  PROVE  \A j \in Axes \ {f.axis} : Width * f.cell[j] < p[j] /\ p[j] < Width * (f.cell[j] + 1)
<1> SUFFICES ASSUME NEW j \in Axes \ {f.axis}
             PROVE  Width * f.cell[j] < p[j] /\ p[j] < Width * (f.cell[j] + 1)
  OBVIOUS
<1>1. Width * f.cell[j] <= p[j] /\ p[j] <= Width * (f.cell[j] + 1)
  BY WithinIs
<1>2. /\ f.cell[j] \in Int /\ p[j] \in Int /\ Width * f.cell[j] \in Int
      /\ Width * (f.cell[j] + 1) = Width * f.cell[j] + Width
  <2>1. f.cell \in Cell
    BY FaceIs
  <2>2. f.cell[j] \in Int /\ p[j] \in Int
    BY <2>1 DEF Cell
  <2> QED
    BY <2>2, Planes
<1>3. Local(f, p, j) # 0 /\ Local(f, p, j) # Width
  BY DEF OnBoundary, Sides
<1> QED
  BY <1>1, <1>2, <1>3, WidthIs DEF Local

(* The index of the lower of the two cells that a face parts. *)
Under(f) == IF f.side = 1 THEN f.cell[f.axis] ELSE f.cell[f.axis] - 1

(* It tells the face in its row: level, cell and side.                     *)
LEMMA UnderIs ==
  ASSUME NEW s, s \subseteq Cell, NEW f \in FacesOf(s), NEW c \in Cell, InLine(f.cell, c, f.axis)
  PROVE  /\ Under(f) \in Int /\ Level(f) = Width * (Under(f) + 1)
         /\ f.side = 1 => /\ f.cell = At(c, f.axis, Under(f))
                          /\ At(c, f.axis, Under(f)) \in s /\ At(c, f.axis, Under(f) + 1) \notin s
         /\ f.side = -1 => /\ f.cell = At(c, f.axis, Under(f) + 1)
                           /\ At(c, f.axis, Under(f)) \notin s /\ At(c, f.axis, Under(f) + 1) \in s
<1> DEFINE k == f.axis
           a == f.cell
           m == Under(f)
<1>1. /\ a \in s /\ a \in Cell /\ k \in Axes /\ a[k] \in Int
      /\ (f.side = 1 \/ f.side = -1)
      /\ f.side = 1 => Level(f) = Width * (a[k] + 1)
      /\ f.side = -1 => Level(f) = Width * a[k]
  BY FaceIs
<1>2. Neighbour(a, k, f.side) \notin s /\ Neighbour(a, k, f.side) = At(a, k, a[k] + f.side)
  BY <1>1, FaceIs, NeighbourIs
<1>3. /\ f.side = 1 => m = a[k]
      /\ f.side = -1 => m = a[k] - 1
  BY DEF Under
<1>4. m \in Int /\ m + 1 \in Int
  BY <1>1, <1>3
<1>5. \A i \in Int : At(a, k, i) = At(c, k, i)
  <2> TAKE i \in Int
  <2> QED
    BY <1>1 DEF InLine, At, Cell
<1>6. At(a, k, a[k]) = a
  BY <1>1, AtIs
<1> HIDE DEF k, a, m
<1>7. CASE f.side = 1
  <2>1. m = a[k] /\ m + 1 = a[k] + f.side
    BY <1>1, <1>3, <1>7
  <2>2. a = At(c, k, m) /\ At(c, k, m + 1) \notin s
    BY <1>2, <1>4, <1>5, <1>6, <2>1
  <2> QED
    BY <1>1, <1>4, <1>7, <2>1, <2>2 DEF k, a, m
<1>8. CASE f.side = -1
  <2>1. m + 1 = a[k] /\ m = a[k] + f.side
    BY <1>1, <1>3, <1>8
  <2>2. a = At(c, k, m + 1) /\ At(c, k, m) \notin s
    BY <1>2, <1>4, <1>5, <1>6, <2>1
  <2> QED
    BY <1>1, <1>4, <1>8, <2>1, <2>2 DEF k, a, m
<1> QED
  BY <1>1, <1>7, <1>8

(* The faces ahead on a ray upwards along an axis. *)
HitsAhead(s, p, k) ==
  {f \in FacesOf(s) : f.axis = k /\ Within(f, p) /\ Level(f) >= p[k]}

(* If it meets none of them on its boundary, and the point lies on none, it *)
(* meets them as often as it leaves and enters the solid.                   *)
LEMMA HitsParity ==
  ASSUME NEW s, IsFiniteSet(s), s \subseteq Cell, NEW p \in Cell, NEW k \in Axes, NEW H,
         H = HitsAhead(s, p, k), H # {}, \A f \in H : ~OnBoundary(f, p) /\ Level(f) # p[k]
  PROVE  /\ IsFiniteSet(H)
         /\ Cardinality(H) % 2 = 1 => \A a : Touches(a, p) => a \in s
         /\ Cardinality(H) % 2 # 1 => \A a : Touches(a, p) => a \notin s
<1>1. \A f : f \in H <=> /\ f \in FacesOf(s) /\ f.axis = k /\ Within(f, p) /\ Level(f) >= p[k]
  BY DEF HitsAhead
<1>2. PICK f0 \in H : TRUE
  OBVIOUS
<1>3. PICK c \in Cell : \A j \in Axes \ {k} : Width * c[j] < p[j] /\ p[j] < Width * (c[j] + 1)
  <2>1. f0 \in FacesOf(s) /\ f0.axis = k /\ Within(f0, p) /\ ~OnBoundary(f0, p)
    BY <1>1, <1>2
  <2>2. f0.cell \in Cell
    BY <2>1, FaceIs
  <2> QED
    BY <2>1, <2>2, InteriorIs
<1>4. p[k] \in Int /\ \A j \in Axes : p[j] \in Int /\ c[j] \in Int
  BY DEF Cell
<1>5. \A a \in Cell : (\A j \in Axes \ {k} : Width * a[j] <= p[j] /\ p[j] <= Width * (a[j] + 1)) => InLine(a, c, k)
  <2> SUFFICES ASSUME NEW a \in Cell, NEW j \in Axes \ {k},
                      Width * a[j] <= p[j], p[j] <= Width * (a[j] + 1)
               PROVE  a[j] = c[j]
    BY DEF InLine
  <2>1. a[j] \in Int /\ c[j] \in Int /\ p[j] \in Int
    BY DEF Cell
  <2>2. Width * c[j] < p[j] /\ p[j] < Width * (c[j] + 1)
    BY <1>3
  <2> QED
    BY <2>1, <2>2, OneIndex
<1>6. PICK i \in Int : Width * i <= p[k] /\ p[k] < Width * (i + 1)
  <2> DEFINE i == p[k] \div Width
  <2>1. i \in Int /\ Width * i <= p[k] /\ p[k] < Width * i + Width
    BY <1>4, WidthIs
  <2> HIDE DEF i
  <2>2. Width * (i + 1) = Width * i + Width
    BY <2>1, Planes
  <2> QED
    BY <2>1, <2>2
<1>7. Width * i \in Int /\ Width * (i + 1) \in Int /\ i + 1 \in Int
  BY Planes
<1> DEFINE T == Steps(s, c, k, i)
<1>8. \A m : m \in T <=> m \in Int /\ i <= m /\ (At(c, k, m) \in s) # (At(c, k, m + 1) \in s)
  BY DEF Steps
<1>9. IsFiniteSet(T) /\ (Cardinality(T) % 2 = 1 <=> At(c, k, i) \in s)
  BY RowParity
<1> HIDE DEF T
<1>10. \A f \in H : InLine(f.cell, c, k) /\ f \in FacesOf(s) /\ f.axis = k
  <2> TAKE f \in H
  <2>1. f \in FacesOf(s) /\ f.axis = k /\ Within(f, p)
    BY <1>1
  <2>2. f.cell \in Cell /\ \A j \in Axes \ {k} : Width * f.cell[j] <= p[j] /\ p[j] <= Width * (f.cell[j] + 1)
    BY <2>1, FaceIs, WithinIs
  <2> QED
    BY <1>5, <2>1, <2>2
<1>11. \A f \in H : /\ Under(f) \in Int /\ Level(f) = Width * (Under(f) + 1)
                    /\ (f.side = 1 /\ f.cell = At(c, k, Under(f)))
                       \/ (f.side = -1 /\ f.cell = At(c, k, Under(f) + 1))
                    /\ f.side = 1 <=> At(c, k, Under(f)) \in s
                    /\ (At(c, k, Under(f)) \in s) # (At(c, k, Under(f) + 1) \in s)
  <2> TAKE f \in H
  <2>1. f \in FacesOf(s) /\ f.axis = k /\ InLine(f.cell, c, f.axis) /\ (f.side = 1 \/ f.side = -1)
    BY <1>10, FaceIs
  <2>2. /\ Under(f) \in Int /\ Level(f) = Width * (Under(f) + 1)
        /\ f.side = 1 => /\ f.cell = At(c, k, Under(f))
                         /\ At(c, k, Under(f)) \in s /\ At(c, k, Under(f) + 1) \notin s
        /\ f.side = -1 => /\ f.cell = At(c, k, Under(f) + 1)
                          /\ At(c, k, Under(f)) \notin s /\ At(c, k, Under(f) + 1) \in s
    BY <2>1, UnderIs
  <2>3. CASE f.side = 1
    BY <2>2, <2>3
  <2>4. CASE f.side = -1
    BY <2>2, <2>4
  <2> QED
    BY <2>1, <2>3, <2>4
<1>12. \A f \in H : Under(f) \in T
  <2> TAKE f \in H
  <2>1. Under(f) \in Int /\ Level(f) = Width * (Under(f) + 1) /\ Level(f) >= p[k] /\ Level(f) # p[k]
    BY <1>1, <1>11
  <2>2. i <= Under(f)
    <3> SUFFICES ASSUME Under(f) + 1 <= i PROVE FALSE
      BY <2>1
    <3>1. Width * (Under(f) + 1) <= Width * i /\ Width * (Under(f) + 1) \in Int
      BY <2>1, Planes
    <3> QED
      BY <1>4, <1>6, <1>7, <2>1, <3>1
  <2> QED
    BY <1>8, <1>11, <2>1, <2>2
<1>13. \A f, g \in H : Under(f) = Under(g) => f = g
  <2> SUFFICES ASSUME NEW f \in H, NEW g \in H, Under(f) = Under(g) PROVE f = g
    OBVIOUS
  <2>1. f.side = g.side /\ f.cell = g.cell /\ f.axis = g.axis
    BY <1>10, <1>11
  <2>2. f \in [cell : s, axis : Axes, side : {-1, 1}] /\ g \in [cell : s, axis : Axes, side : {-1, 1}]
    BY <1>10 DEF FacesOf
  <2> QED
    BY <2>1, <2>2
<1>14. \A m \in T : \E f \in H : Under(f) = m
  <2> TAKE m \in T
  <2>1. m \in Int /\ i <= m /\ (At(c, k, m) \in s) # (At(c, k, m + 1) \in s)
    BY <1>8
  <2>2. PICK f \in FacesOf(s) : /\ f.axis = k /\ Level(f) = Width * (m + 1)
                                /\ \A j \in Axes \ {k} : f.cell[j] = c[j]
    BY <2>1, FaceBetween
  <2>3. Level(f) >= p[k]
    <3>1. m + 1 \in Int /\ i + 1 <= m + 1
      BY <2>1
    <3>2. Width * (i + 1) <= Width * (m + 1) /\ Width * (m + 1) \in Int
      BY <1>7, <3>1, Planes
    <3> QED
      BY <1>4, <1>6, <1>7, <2>2, <3>2
  <2>4. Within(f, p)
    <3>1. \A j \in Axes \ {k} : Width * f.cell[j] <= p[j] /\ p[j] <= Width * (f.cell[j] + 1)
      <4> TAKE j \in Axes \ {k}
      <4>1. c[j] \in Int /\ c[j] + 1 \in Int /\ p[j] \in Int
        BY <1>4
      <4>2. Width * c[j] \in Int /\ Width * (c[j] + 1) \in Int
        BY <4>1, Planes
      <4> QED
        BY <1>3, <2>2, <4>1, <4>2
    <3> QED
      BY <2>2, <3>1, WithinIs
  <2>5. f \in H
    BY <1>1, <2>2, <2>3, <2>4
  <2>6. Under(f) + 1 = m + 1
    <3>1. Width * (Under(f) + 1) = Width * (m + 1) /\ Under(f) + 1 \in Int /\ m + 1 \in Int
      BY <1>11, <2>1, <2>2, <2>5
    <3> QED
      BY <3>1, LevelOne
  <2>7. Under(f) = m
    BY <1>11, <2>1, <2>5, <2>6
  <2> QED
    BY <2>5, <2>7
<1>15. IsFiniteSet(H) /\ Cardinality(H) = Cardinality(T)
  <2> DEFINE M == [f \in H |-> Under(f)]
  <2>1. M \in Bijection(H, T)
    <3>1. M \in [H -> T] /\ \A f \in H : M[f] = Under(f)
      BY <1>12
    <3> HIDE DEF M
    <3>2. M \in Injection(H, T)
      <4>1. \A a, b \in H : M[a] = M[b] => a = b
        BY <1>13, <3>1
      <4> QED
        BY <3>1, <4>1 DEF Injection, IsInjective
    <3>3. M \in Surjection(H, T)
      BY <1>14, <3>1 DEF Surjection
    <3> QED
      BY <3>2, <3>3 DEF Bijection
  <2>2. ExistsBijection(T, H)
    BY <2>1, Fun_ExistsBijSymmetric DEF ExistsBijection
  <2> QED
    BY <1>9, <2>2, FS_Bijection
<1>16. ASSUME NEW a, Touches(a, p) PROVE a \in s <=> At(c, k, i) \in s
  <2>1. /\ a \in Cell /\ InLine(a, c, k) /\ a[k] \in Int
        /\ Width * a[k] <= p[k] /\ p[k] <= Width * (a[k] + 1)
    BY <1>5, <1>16 DEF Touches, Cell
  <2>2. a = At(c, k, a[k])
    BY <2>1 DEF At, InLine, Cell
  <2>3. a[k] + 1 \in Int /\ Width * a[k] \in Int /\ Width * (a[k] + 1) \in Int
    BY <2>1, Planes
  <2>4. a[k] <= i
    <3> SUFFICES ASSUME i + 1 <= a[k] PROVE FALSE
      BY <2>1
    <3>1. Width * (i + 1) <= Width * a[k]
      BY <1>7, <2>1, Planes
    <3> QED
      BY <1>4, <1>6, <1>7, <2>1, <2>3, <3>1
  <2>5. CASE a[k] = i
    BY <2>2, <2>5
  <2>6. CASE a[k] + 1 <= i
    <3> SUFFICES ASSUME (a \in s) # (At(c, k, i) \in s) PROVE FALSE
      OBVIOUS
    <3>1. Width * (a[k] + 1) <= Width * i
      BY <2>1, <2>3, <2>6, Planes
    <3>2. p[k] = Width * i /\ Width * (a[k] + 1) = Width * i
      BY <1>4, <1>6, <1>7, <2>1, <2>3, <3>1
    <3>3. a[k] + 1 = i
      BY <2>3, <3>2, LevelOne
    <3>4. (At(c, k, a[k]) \in s) # (At(c, k, a[k] + 1) \in s)
      BY <2>2, <3>3
    <3>5. PICK f \in FacesOf(s) : /\ f.axis = k /\ Level(f) = Width * (a[k] + 1)
                                  /\ \A j \in Axes \ {k} : f.cell[j] = c[j]
      BY <2>1, <3>4, FaceBetween
    <3>6. \A j \in Axes \ {k} : Width * a[j] <= p[j] /\ p[j] <= Width * (a[j] + 1)
      BY <1>16 DEF Touches
    <3>7. \A j \in Axes \ {k} : Width * f.cell[j] <= p[j] /\ p[j] <= Width * (f.cell[j] + 1)
      BY <2>1, <3>5, <3>6 DEF InLine
    <3>8. Within(f, p)
      BY <3>5, <3>7, WithinIs
    <3>9. Level(f) = p[k] /\ Level(f) >= p[k]
      BY <1>4, <3>2, <3>5
    <3> QED
      BY <1>1, <3>5, <3>8, <3>9
  <2> QED
    BY <2>1, <2>4, <2>5, <2>6
<1> QED
  BY <1>9, <1>15, <1>16

(* Off the edges a ray meets one of the two triangles of a face.            *)
LEMMA OneTriangle ==
  ASSUME NEW s, s \subseteq Cell, NEW f \in FacesOf(s), NEW p \in Cell, ~OnTriangleEdge(f, p)
  PROVE  \E h : Triangles(f, p) = {h}
<1> DEFINE a == Local(f, p, Min(Sides(f)))
           b == Local(f, p, Max(Sides(f)))
<1>1. f.axis \in 1 .. 3 /\ f.cell \in Cell
  BY FaceIs DEF Axes
<1>2. Sides(f) \subseteq 1 .. 3 /\ Sides(f) \subseteq Int /\ Sides(f) # {}
  BY <1>1 DEF Sides, Axes
<1>3. \A x \in Sides(f) : 1 <= x /\ x <= 3
  BY <1>2
<1>4. Min(Sides(f)) \in Sides(f) /\ Max(Sides(f)) \in Sides(f)
  BY <1>2, <1>3, MinIs, MaxIs
<1>5. \A j \in Sides(f) : Local(f, p, j) \in Int
  <2> TAKE j \in Sides(f)
  <2>1. j \in Axes
    BY DEF Sides
  <2>2. f.cell[j] \in Int /\ p[j] \in Int
    BY <1>1, <2>1 DEF Cell
  <2>3. Width * f.cell[j] \in Int
    BY <2>2, Planes
  <2> QED
    BY <2>2, <2>3 DEF Local
<1>6. a \in Int /\ b \in Int
  BY <1>4, <1>5
<1>7. a # b
  BY DEF OnTriangleEdge
<1>8. Triangles(f, p) = {h \in {"lower", "upper"} : IF h = "lower" THEN b <= a ELSE a <= b}
  BY DEF Triangles
<1> HIDE DEF a, b
<1>9. CASE b < a
  <2>1. b <= a /\ ~(a <= b)
    BY <1>6, <1>9
  <2>2. Triangles(f, p) = {"lower"}
    BY <1>8, <2>1
  <2> QED
    BY <2>2
<1>10. CASE a < b
  <2>1. a <= b /\ ~(b <= a)
    BY <1>6, <1>10
  <2>2. Triangles(f, p) = {"upper"}
    BY <1>8, <2>1
  <2> QED
    BY <2>2
<1> QED
  BY <1>6, <1>7, <1>9, <1>10

(* So it counts the faces.                                                  *)
LEMMA CastCounts ==
  ASSUME solid \in Solids, NEW p \in Cell, NEW k \in Axes, ~Cast(p, k).degenerate,
         NEW H, H = HitsAhead(solid, p, k), IsFiniteSet(H)
  PROVE  /\ \A f \in H : ~OnBoundary(f, p)
         /\ Cast(p, k).crossings = Cardinality(H)
<1>0. solid \subseteq Cell
  BY GridAssumption DEF Cell
<1>1. H = {f \in Hits(p, [Up EXCEPT !.axis = k]) : Level(f) >= p[k]}
  BY DEF HitsAhead, Hits, Faces, Up
<1> DEFINE pairs(f) == {<<f, h>> : h \in Triangles(f, p)}
           U == UNION {pairs(f) : f \in H}
<1>2. /\ Cast(p, k).crossings = Cardinality(U)
      /\ \A f \in H : ~OnTriangleEdge(f, p)
  BY <1>1 DEF Cast
<1>3. \A f \in H : f \in FacesOf(solid)
  BY DEF HitsAhead
<1>4. \A f \in H : \E h : Triangles(f, p) = {h}
  BY <1>0, <1>2, <1>3, OneTriangle
<1> DEFINE only(f) == CHOOSE h : Triangles(f, p) = {h}
           M == [f \in H |-> <<f, only(f)>>]
<1>5. \A f \in H : Triangles(f, p) = {only(f)}
  BY <1>4
<1> HIDE DEF only
<1>6. \A f \in H : pairs(f) = {<<f, only(f)>>}
  BY <1>5
<1>7. U = {<<f, only(f)>> : f \in H}
  <2>1. \A x : x \in U <=> \E f \in H : x \in pairs(f)
    OBVIOUS
  <2> HIDE DEF U, pairs
  <2>2. \A x : x \in U <=> \E f \in H : x = <<f, only(f)>>
    BY <1>6, <2>1
  <2> QED
    BY <2>2
<1> HIDE DEF U, pairs
<1>8. M \in Bijection(H, U)
  <2>1. M \in [H -> U] /\ \A f \in H : M[f] = <<f, only(f)>>
    BY <1>7
  <2>2. \A f, g \in H : M[f] = M[g] => f = g
    <3> SUFFICES ASSUME NEW f \in H, NEW g \in H, M[f] = M[g] PROVE f = g
      OBVIOUS
    <3>1. <<f, only(f)>> = <<g, only(g)>>
      BY <2>1
    <3> QED
      BY <3>1
  <2>3. \A x \in U : \E f \in H : M[f] = x
    BY <1>7, <2>1
  <2> HIDE DEF M
  <2>4. M \in Injection(H, U)
    BY <2>1, <2>2 DEF Injection, IsInjective
  <2>5. M \in Surjection(H, U)
    BY <2>1, <2>3 DEF Surjection
  <2> QED
    BY <2>4, <2>5 DEF Bijection
<1>9. Cardinality(U) = Cardinality(H)
  <2>1. ExistsBijection(H, U)
    BY <1>8 DEF ExistsBijection
  <2> QED
    BY <2>1, FS_Bijection
<1> QED
  BY <1>2, <1>9 DEF OnTriangleEdge

(* The vote of a ray that meets no edge is right, away from the surface.    *)
LEMMA VoteRight ==
  ASSUME solid \in Solids, NEW p \in Cell, ~Near(p), NEW k \in Axes, ~Cast(p, k).degenerate
  PROVE  /\ Cast(p, k).crossings \in Nat
         /\ Cast(p, k).crossings % 2 = 1 => Exact(p) = "inside"
         /\ Cast(p, k).crossings % 2 # 1 => Exact(p) = "outside"
<1>0. solid \subseteq Cell /\ IsFiniteSet(solid)
  BY GridAssumption DEF Cell
<1> DEFINE H == HitsAhead(solid, p, k)
           ray == [Up EXCEPT !.axis = k]
<1>1. Exact(p) = "inside" \/ Exact(p) = "outside"
  BY NearIs
<1>2. ray \in Rays /\ ray.axis = k /\ ray.sign = 1
  BY DEF Up, Rays
<1>3. \A f : f \in H <=> f \in FacesOf(solid) /\ f.axis = k /\ Within(f, p) /\ Level(f) >= p[k]
  BY DEF HitsAhead
<1> HIDE DEF H, ray
<1>4. \A f \in H : Level(f) # p[k]
  <2> SUFFICES ASSUME NEW f \in H, Level(f) = p[k] PROVE FALSE
    OBVIOUS
  <2>1. Parameter(f, p, ray) = Level(f) - p[k] /\ Level(f) \in Int
    BY <1>0, <1>2, <1>3, ParameterIs
  <2>2. Parameter(f, p, ray) = 0
    BY <2>1
  <2>3. Exact(Way(p, ray, 0)) = "surface"
    BY <1>0, <1>2, <1>3, <2>2, HitOnSurface
  <2>4. Way(p, ray, 0) = p
    BY <1>2, WayIs
  <2> QED
    BY <1>1, <2>3, <2>4
<1>5. CASE H = {}
  <2>1. IsFiniteSet(H) /\ Cardinality(H) = 0
    BY <1>5, FS_EmptySet
  <2>2. Cast(p, k).crossings = 0
    BY <2>1, CastCounts DEF H
  <2>3. Exact(p) # "inside"
    <3> SUFFICES ASSUME Exact(p) = "inside" PROVE FALSE
      OBVIOUS
    <3>1. PICK f \in Ahead(p, ray) : TRUE
      BY <1>2, HitAhead
    <3>2. f \in FacesOf(solid) /\ f.axis = k /\ Within(f, p) /\ Parameter(f, p, ray) > 0
      BY <1>2, <3>1 DEF Ahead, Hits, Faces
    <3>3. Parameter(f, p, ray) = Level(f) - p[k] /\ Level(f) \in Int /\ p[k] \in Int
      BY <1>0, <1>2, <3>2, ParameterIs
    <3>4. Level(f) >= p[k]
      BY <3>2, <3>3
    <3> QED
      BY <1>3, <1>5, <3>2, <3>4
  <2>4. Cast(p, k).crossings \in Nat /\ Cast(p, k).crossings % 2 = 0
    BY <2>2
  <2> QED
    BY <1>1, <2>3, <2>4
<1>6. CASE H # {}
  <2>1. \A f \in H : ~OnBoundary(f, p)
    BY DEF Cast, HitsAhead, H, Hits, Faces, Up, OnTriangleEdge
  <2>2. /\ IsFiniteSet(H)
        /\ Cardinality(H) % 2 = 1 => \A a : Touches(a, p) => a \in solid
        /\ Cardinality(H) % 2 # 1 => \A a : Touches(a, p) => a \notin solid
    BY <1>0, <1>4, <1>6, <2>1, HitsParity DEF H
  <2>3. Cast(p, k).crossings = Cardinality(H) /\ Cardinality(H) \in Nat
    BY <2>2, CastCounts, FS_CardinalityType DEF H
  <2> QED
    BY <2>2, <2>3, ExactIs
<1> QED
  BY <1>5, <1>6

(* The triangles' answer is right.                                          *)
LEMMA TrianglesRight ==
  ASSUME solid \in Solids, NEW p \in Cell
  PROVE  ByTriangles(p) = Exact(p)
<1> DEFINE up == Cast(p, 3)
           votes == {k \in Axes : ~Cast(p, k).degenerate}
           inside == {k \in votes : Cast(p, k).crossings % 2 = 1}
           outside == votes \ inside
<1>1. ByTriangles(p) = IF Near(p) THEN Exact(p)
                       ELSE IF ~up.degenerate /\ up.crossings > 0 THEN Parity(up.crossings)
                       ELSE IF Cardinality(inside) > Cardinality(outside) THEN "inside"
                       ELSE IF Cardinality(outside) > Cardinality(inside) THEN "outside"
                       ELSE Exact(p)
  BY DEF ByTriangles
<1>2. CASE Near(p)
  BY <1>1, <1>2
<1>3. CASE ~Near(p)
  <2>1. Exact(p) = "inside" \/ Exact(p) = "outside"
    BY <1>3, NearIs
  <2>2. \A k \in votes : /\ Cast(p, k).crossings % 2 = 1 => Exact(p) = "inside"
                         /\ Cast(p, k).crossings % 2 # 1 => Exact(p) = "outside"
    BY <1>3, VoteRight
  <2>3. ~up.degenerate => Parity(up.crossings) = Exact(p)
    <3>1. 3 \in Axes
      BY DEF Axes
    <3>2. ~up.degenerate => /\ up.crossings % 2 = 1 => Exact(p) = "inside"
                            /\ up.crossings % 2 # 1 => Exact(p) = "outside"
      BY <1>3, <3>1, VoteRight
    <3> QED
      BY <3>2 DEF Parity
  <2>4. IsFiniteSet(inside) /\ IsFiniteSet(outside)
    <3>1. IsFiniteSet(Axes)
      <4>1. 1 \in Int /\ 3 \in Int
        OBVIOUS
      <4>2. \A a, b \in Int : IsFiniteSet(a .. b)
        BY FS_Interval
      <4> QED
        BY Zenon, <4>1, <4>2 DEF Axes
    <3>2. inside \in SUBSET Axes /\ outside \in SUBSET Axes
      OBVIOUS
    <3> HIDE DEF inside, outside
    <3> QED
      BY <3>1, <3>2, FS_Subset
  <2>5. Exact(p) = "inside" => outside = {}
    BY <2>2
  <2>6. Exact(p) = "outside" => inside = {}
    BY <2>2
  <2> HIDE DEF up, votes, inside, outside
  <2>7. Cardinality(inside) \in Nat /\ Cardinality(outside) \in Nat
    BY <2>4, FS_CardinalityType
  <2>8. /\ Exact(p) = "inside" => Cardinality(outside) = 0
        /\ Exact(p) = "outside" => Cardinality(inside) = 0
    BY <2>5, <2>6, FS_EmptySet
  <2>9. /\ Exact(p) = "inside" => ~(Cardinality(outside) > Cardinality(inside))
        /\ Exact(p) = "outside" => ~(Cardinality(inside) > Cardinality(outside))
    BY <2>7, <2>8
  <2> QED
    BY <1>1, <1>3, <2>1, <2>3, <2>9
<1> QED
  BY <1>2, <1>3

(* The faces' answer is right.                                              *)
LEMMA FacesRight ==
  ASSUME solid \in Solids, NEW p \in Cell
  PROVE  ByFaces(p) = Exact(p)
<1>0. solid \subseteq Cell /\ IsFiniteSet(solid)
  BY GridAssumption DEF Cell
<1> DEFINE hits == Hits(p, Up)
           ahead == {f \in hits : Parameter(f, p, Up) > 0}
           cross == {f \in ahead : ~OnBoundary(f, p)}
<1>1. ByFaces(p) = IF \E f \in hits : Parameter(f, p, Up) = 0 THEN "surface"
                   ELSE IF cross = {} \/ cross # ahead THEN Exact(p)
                   ELSE Parity(Cardinality(cross))
  BY DEF ByFaces
<1>2. Up \in Rays /\ Up.axis = 3 /\ Up.sign = 1 /\ 3 \in Axes
  BY DEF Up, Rays, Axes
<1>3. \A f \in hits : f \in FacesOf(solid) /\ f.axis = 3 /\ Within(f, p)
  BY <1>2 DEF Hits, Faces
<1>4. \A f \in hits : Parameter(f, p, Up) = Level(f) - p[3] /\ Level(f) \in Int /\ p[3] \in Int
  BY <1>0, <1>2, <1>3, ParameterIs
<1>5. CASE \E f \in hits : Parameter(f, p, Up) = 0
  <2>1. PICK f \in hits : Parameter(f, p, Up) = 0
    BY <1>5
  <2>2. Exact(Way(p, Up, 0)) = "surface"
    BY <1>0, <1>2, <1>3, <2>1, HitOnSurface
  <2>3. Way(p, Up, 0) = p
    BY <1>2, WayIs
  <2> QED
    BY <1>1, <1>5, <2>2, <2>3
<1>6. CASE /\ ~(\E f \in hits : Parameter(f, p, Up) = 0)
           /\ cross # {} /\ cross = ahead
  <2> DEFINE H == HitsAhead(solid, p, 3)
  <2>1. \A f : f \in H <=> f \in hits /\ Level(f) >= p[3]
    BY <1>2 DEF HitsAhead, Hits, Faces
  <2>2. \A f : f \in ahead <=> f \in hits /\ Parameter(f, p, Up) > 0
    OBVIOUS
  <2>3. \A f \in cross : ~OnBoundary(f, p)
    OBVIOUS
  <2> HIDE DEF H, hits, ahead, cross
  <2>4. \A f \in hits : (Level(f) >= p[3] <=> Parameter(f, p, Up) > 0) /\ Level(f) # p[3]
    <3> TAKE f \in hits
    <3>1. Parameter(f, p, Up) # 0
      BY <1>6
    <3> QED
      BY <1>4, <3>1
  <2>5. H = cross
    BY <1>6, <2>1, <2>2, <2>4
  <2>6. H # {} /\ \A f \in H : ~OnBoundary(f, p) /\ Level(f) # p[3]
    BY <1>6, <2>1, <2>3, <2>4, <2>5
  <2>7. /\ Cardinality(H) % 2 = 1 => \A a : Touches(a, p) => a \in solid
        /\ Cardinality(H) % 2 # 1 => \A a : Touches(a, p) => a \notin solid
    BY <1>0, <1>2, <2>6, HitsParity DEF H
  <2>8. Parity(Cardinality(H)) = Exact(p)
    BY <2>7, ExactIs DEF Parity
  <2> QED
    BY <1>1, <1>6, <2>5, <2>8
<1>7. CASE /\ ~(\E f \in hits : Parameter(f, p, Up) = 0)
           /\ cross = {} \/ cross # ahead
  BY <1>1, <1>7
<1> QED
  BY <1>5, <1>6, <1>7

(* Each tier of ClassifyPoint() is right.                                   *)
LEMMA ClassIs ==
  ASSUME solid \in Solids, NEW p \in Cell
  PROVE  Class(p) = Exact(p)
BY OutOfBoundsIs, InSphereIs, TrianglesRight, FacesRight DEF Class

(* ClassifyRight of the next state, the solid being what it was.           *)
LEMMA ClassLater ==
  ASSUME solid' = solid, query'.what = "ClassifyPoint" => answer'.class = Exact(query'.point)
  PROVE  ClassifyRight'
  BY DEF ClassifyRight, Exact

(* Every query keeps ClassifyRight: ClassifyPoint() by ClassIs.            *)
LEMMA ClassStep ==
  ASSUME solid \in Solids, ClassifyRight, [RayNext]_rayVars
  PROVE  (solid \in Solids)' /\ ClassifyRight'
<1>1. solid' = solid
  BY DEF RayNext, rayVars, ClassifyPointAt, DistanceToInAlong, DistanceToOutAlong, Ask, Return
<1>2. CASE UNCHANGED rayVars
  <2>1. solid' = solid /\ query' = query /\ answer' = answer
    BY <1>2 DEF rayVars
  <2>2. query'.what = "ClassifyPoint" => answer'.class = Exact(query'.point)
    BY <2>1 DEF ClassifyRight
  <2> QED
    BY <1>1, <2>2, ClassLater
<1>3. ASSUME query'.what # "ClassifyPoint" PROVE ClassifyRight'
  BY <1>1, <1>3, ClassLater
<1>4. CASE Return
  BY <1>3, <1>4 DEF Return, NoQuery
<1>5. ASSUME NEW p \in Targets, NEW ray \in Rays, DistanceToInAlong(p, ray) \/ DistanceToOutAlong(p, ray)
      PROVE  ClassifyRight'
  <2>1. CASE DistanceToInAlong(p, ray)
    <3>1. query'.what = "DistanceToIn"
      BY <2>1 DEF DistanceToInAlong, Ask
    <3> QED
      BY <1>3, <3>1
  <2>2. CASE DistanceToOutAlong(p, ray)
    <3>1. query'.what = "DistanceToOut"
      BY <2>2 DEF DistanceToOutAlong, Ask
    <3> QED
      BY <1>3, <3>1
  <2> QED
    BY <1>5, <2>1, <2>2
<1>6. ASSUME NEW p \in Targets, ClassifyPointAt(p)
      PROVE  ClassifyRight'
  <2>1. query'.point = p /\ answer'.class = Class(p)
    BY <1>6 DEF ClassifyPointAt, Ask, NoAnswer
  <2>2. Class(p) = Exact(p)
    BY TargetsAre, ClassIs
  <2> QED
    BY <1>1, <2>1, <2>2, ClassLater
<1> QED
  BY <1>1, <1>2, <1>4, <1>5, <1>6 DEF RayNext

(* ClassifyPoint() agrees with the exact classifier, by whichever tier it   *)
(* answers and with or without triangles, at every point of the grid, for   *)
(* every finite solid of it.                                                *)
THEOREM PointsClassifiedRight == RaySpec => []ClassifyRight
<1>1. RayInit => solid \in Solids /\ ClassifyRight
  BY DEF RayInit, NoQuery, ClassifyRight
<1>2. (solid \in Solids /\ ClassifyRight) /\ [RayNext]_rayVars => (solid \in Solids /\ ClassifyRight)'
  BY ClassStep
<1> QED
  BY <1>1, <1>2, PTL DEF RaySpec
=============================================================================
