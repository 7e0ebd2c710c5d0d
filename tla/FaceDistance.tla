------------------------------ MODULE FaceDistance ------------------------------
(***************************************************************************)
(* The point queries of G4OCCTSolidKernel that answer from the faces:       *)
(* SurfaceNormal(p), DistanceToIn(p), DistanceToOut(p) and the exact        *)
(* distances, with the tiers of cheaper bounds tried before the scan of     *)
(* TryFindClosestFace(), which prunes faces by their boxes.                 *)
(*                                                                          *)
(* A behaviour is one shape, one point, and any sequence of queries.  A     *)
(* face is the distances the code measures to it from the point, in units   *)
(* of length; the geometry guarantees only that the box and the infinite    *)
(* plane are no farther than the face and that the triangles are within the *)
(* deflection the code ascribes to the face.                                *)
(***************************************************************************)
EXTENDS Integers

CONSTANTS
  NumFaces,   \* fFaceBoundsCache.size()
  FaceData,   \* what a face can be, seen from the point
  Tolerance,  \* IntersectionTolerance()
  Infinity    \* kInfinity: above every sum of distances

Faces == 1 .. NumFaces

(* No plane (a curved face), no triangle (the mesher gave up on the face). *)
None == -1

AtLeastZero(d) == IF d < 0 THEN 0 ELSE d

ASSUME FaceDistanceAssumption ==
  /\ NumFaces \in Nat \ {0}
  /\ Tolerance \in Nat
  /\ Infinity \in Nat

ASSUME FaceDataAssumption ==
  \A f \in FaceData :
    /\ f.exact \in Nat       \* BRepExtrema_DistShapeShape
    /\ f.solved \in BOOLEAN  \* it is done and has a solution
    /\ f.box \in 0 .. f.exact
    /\ f.plane \in {None} \cup 0 .. f.exact
    /\ f.polygon \in BOOLEAN /\ (f.polygon => f.plane # None)  \* has outwardNormal
    /\ f.deflection \in Nat  \* fFaceDeflections
    /\ f.mesh \in {None} \cup (AtLeastZero(f.exact - f.deflection) .. f.exact + f.deflection)
    /\ f.exact < Infinity

VARIABLES
  faces,       \* fFaceBoundsCache and fTriangleSet, seen from the point
  deflection,  \* fBVHDeflection
  aabb,        \* AABBLowerBound(p)
  inside,      \* the exact classifier's verdict: in or on
  query,       \* the call under way, or the last one
  pc,          \* idle, scan, answered
  next,        \* the scan's loop index
  reach,       \* its maxDistance
  best,        \* its bestMatch, 0 when empty
  answer       \* the distance, or the face whose normal is returned (0: fallback)

shapeVars == <<faces, deflection, aabb, inside>>
vars      == <<shapeVars, query, pc, next, reach, best, answer>>

Queries ==
  {"SurfaceNormal", "DistanceToIn", "DistanceToOut", "ExactDistanceToIn", "ExactDistanceToOut"}

TypeOK ==
  /\ faces \in [Faces -> FaceData]
  /\ deflection \in Nat
  /\ aabb \in Nat
  /\ inside \in BOOLEAN
  /\ query \in Queries
  /\ pc \in {"idle", "scan", "answered"}
  /\ next \in 1 .. NumFaces + 1
  /\ reach \in Nat
  /\ best \in 0 .. NumFaces
  /\ answer \in Nat

(* The shape's box holds every face; the global deflection is the largest.   *)
Init ==
  /\ faces \in [Faces -> FaceData]
  /\ deflection \in {faces[f].deflection : f \in Faces}
  /\ \A f \in Faces : faces[f].deflection <= deflection
  /\ aabb \in {0} \cup {faces[f].box : f \in Faces}
  /\ \A f \in Faces : aabb <= faces[f].box
  /\ inside \in BOOLEAN
  /\ inside => aabb = 0
  /\ query = "SurfaceNormal"
  /\ pc = "idle"
  /\ next = 1
  /\ reach = Infinity
  /\ best = 0
  /\ answer = 0

-----------------------------------------------------------------------------
(* The cheap bounds. *)

AllFacesPlanar == \A f \in Faces : faces[f].plane # None

Meshed == {f \in Faces : faces[f].mesh # None}

(* The faces the nearest triangle may belong to. *)
NearestTriangle == {f \in Meshed : \A g \in Meshed : faces[f].mesh <= faces[g].mesh}

(* Mutation: no allowance is made for the triangles. *)
BVHBoundsPlain ==
  IF Meshed = {} THEN {Infinity} ELSE {faces[f].mesh : f \in NearestTriangle}

(* BVHLowerBoundDistance(): the values it may return. *)
BVHBounds ==
  IF Meshed = {} THEN {Infinity}
  ELSE {AtLeastZero(faces[f].mesh - faces[f].deflection) : f \in NearestTriangle}

(* The first face with the least plane distance, among some of them. *)
FirstNearestPlane(candidates) ==
  {f \in candidates : \A g \in candidates :
     faces[f].plane < faces[g].plane \/ (faces[f].plane = faces[g].plane /\ f <= g)}

(* PlanarFaceLowerBoundDistance() of an all-planar solid. *)
PlanarBounds == {faces[f].plane : f \in FirstNearestPlane(Faces)}

-----------------------------------------------------------------------------
(* Calls. *)

Answer(q, value) ==
  /\ query' = q
  /\ pc' = "answered"
  /\ answer' = value
  /\ UNCHANGED <<shapeVars, next, reach, best>>

Scan(q, maxDistance) ==
  /\ query' = q
  /\ pc' = "scan"
  /\ next' = 1
  /\ reach' = maxDistance
  /\ best' = 0
  /\ UNCHANGED <<shapeVars, answer>>

Polygons == {f \in Faces : faces[f].polygon}

(* All faces planar: the nearest plane that has a cached normal. *)
NormalFromPlane ==
  /\ AllFacesPlanar
  /\ \E f \in FirstNearestPlane(Polygons) : Answer("SurfaceNormal", f)

(* Mutation: the search radius allows for one deflection only. *)
SeedDistanceTight(bvh) ==
  IF deflection > 0 /\ bvh < Infinity THEN bvh + deflection ELSE Infinity

(* The radius within which SurfaceNormal() looks for a face. *)
SeedDistance(bvh) ==
  IF deflection > 0 /\ bvh < Infinity THEN bvh + 2 * deflection ELSE Infinity

NormalFromScan ==
  /\ (~AllFacesPlanar \/ Polygons = {})
  /\ \E bvh \in BVHBounds : Scan("SurfaceNormal", SeedDistance(bvh))

SurfaceNormal == NormalFromPlane \/ NormalFromScan

ExactDistanceToInAs(q) ==
  \/ inside /\ Answer(q, 0)
  \/ ~inside /\ Scan(q, Infinity)

DistanceToIn ==
  \/ aabb > Tolerance /\ Answer("DistanceToIn", aabb)
  \/ /\ aabb <= Tolerance
     /\ \E bvh \in BVHBounds :
          IF bvh < Infinity /\ bvh > Tolerance
          THEN Answer("DistanceToIn", bvh)
          ELSE ExactDistanceToInAs("DistanceToIn")

DistanceToOut ==
  \/ AllFacesPlanar /\ \E d \in PlanarBounds : Answer("DistanceToOut", d)
  \/ /\ ~AllFacesPlanar
     /\ \E bvh \in BVHBounds :
          IF bvh < Infinity THEN Answer("DistanceToOut", bvh)
          ELSE Scan("DistanceToOut", Infinity)

ExactDistanceToIn == ExactDistanceToInAs("ExactDistanceToIn")

ExactDistanceToOut == Scan("ExactDistanceToOut", Infinity)

Call ==
  /\ pc = "idle"
  /\ \/ SurfaceNormal
     \/ DistanceToIn \/ DistanceToOut
     \/ ExactDistanceToIn \/ ExactDistanceToOut

-----------------------------------------------------------------------------
(* TryFindClosestFace(), one iteration at a time. *)

Threshold == IF best # 0 THEN faces[best].exact ELSE reach

(* Mutation: boxes are compared with the box of the best match. *)
PrunedByBestBox(f) ==
  Threshold < Infinity /\ faces[f].box > IF best # 0 THEN faces[best].box ELSE reach

Pruned(f) == Threshold < Infinity /\ faces[f].box > Threshold

(* Mutation: what is not pruned is taken. *)
BetterUncompared(f) == ~Pruned(f) /\ faces[f].solved

Better(f) ==
  ~Pruned(f) /\ faces[f].solved /\ (best # 0 => faces[f].exact < faces[best].exact)

(* Mutation: the loop runs one face too far. *)
VisitFacePastEnd ==
  /\ pc = "scan"
  /\ next <= NumFaces + 1
  /\ next' = next + 1
  /\ UNCHANGED <<shapeVars, query, pc, reach, best, answer>>

VisitFace ==
  /\ pc = "scan"
  /\ next <= NumFaces
  /\ best' = IF Better(next) THEN next ELSE best
  /\ next' = next + 1
  /\ UNCHANGED <<shapeVars, query, pc, reach, answer>>

(* What the query makes of the closest face. *)
Outcome ==
  CASE query = "SurfaceNormal" -> best
    [] best # 0 /\ query # "SurfaceNormal" ->
         IF faces[best].exact <= Tolerance THEN 0 ELSE faces[best].exact
    [] best = 0 /\ query \in {"DistanceToIn", "ExactDistanceToIn"} -> Infinity
    [] best = 0 /\ query \in {"DistanceToOut", "ExactDistanceToOut"} -> 0

FinishScan ==
  /\ pc = "scan"
  /\ next > NumFaces
  /\ answer' = Outcome
  /\ pc' = "answered"
  /\ UNCHANGED <<shapeVars, query, next, reach, best>>

(* The locals of the call are gone. *)
Return ==
  /\ pc = "answered"
  /\ query' = "SurfaceNormal"
  /\ pc' = "idle"
  /\ next' = 1
  /\ reach' = Infinity
  /\ best' = 0
  /\ answer' = 0
  /\ UNCHANGED shapeVars

Next == Call \/ VisitFace \/ FinishScan \/ Return

Spec == Init /\ [][Next]_vars

-----------------------------------------------------------------------------
(* Properties. *)

Answered(q) == pc = "answered" /\ query = q

AllSolved == \A f \in Faces : faces[f].solved

Nearest == {f \in Faces : \A g \in Faces : faces[f].exact <= faces[g].exact}

(* Pruning by boxes, first against the radius and then against the best match  *)
(* so far, never loses the nearest face within the radius, nor the first of    *)
(* several at the same distance.                                               *)
ScanFindsNearest ==
  /\ pc = "scan" /\ next > NumFaces
  /\ \E f \in Faces : faces[f].solved /\ faces[f].exact <= reach
  => /\ best # 0
     /\ faces[best].solved
     /\ \A f \in Faces : faces[f].solved =>
          /\ faces[best].exact <= faces[f].exact
          /\ f < best => faces[best].exact < faces[f].exact

(* SurfaceNormal() on a solid with a curved face answers from a face nearest   *)
(* to the point: the radius seeded from the triangles reaches it, although it  *)
(* comes from the deflection of another face.                                  *)
ScannedNormalIsNearest ==
  Answered("SurfaceNormal") /\ ~AllFacesPlanar /\ AllSolved => answer \in Nearest

(* The exact distances are the distance to a nearest face, 0 within the        *)
(* tolerance, and 0 for the outside distance of a point inside.                *)
ExactDistancesExact ==
  /\ Answered("ExactDistanceToIn") /\ inside => answer = 0
  /\ (Answered("ExactDistanceToOut") \/ (Answered("ExactDistanceToIn") /\ ~inside)) /\ AllSolved =>
       \E f \in Nearest :
         answer = IF faces[f].exact <= Tolerance THEN 0 ELSE faces[f].exact

(* A safety never exceeds the distance to a face by more than that face's      *)
(* deflection exceeds the smallest one; never at all on an all-planar solid    *)
(* left through DistanceToOut(), nor when all faces have the same deflection.  *)
SafetyOverestimate ==
  (Answered("DistanceToIn") \/ Answered("DistanceToOut")) /\ AllSolved /\ Meshed = Faces =>
    \A f \in Faces :
      IF query = "DistanceToOut" /\ AllFacesPlanar
      THEN answer <= faces[f].exact
      ELSE \E g \in Faces :
             answer <= faces[f].exact + faces[f].deflection - faces[g].deflection

(* "Return the outward surface normal at the face nearest point @p p."         *)
NormalOfNearestFace == Answered("SurfaceNormal") /\ AllSolved => answer \in Nearest

(* "Conservative lower bound on the shortest exterior distance to the solid."  *)
SafetyConservative ==
  Answered("DistanceToIn") /\ AllSolved /\ Meshed = Faces =>
    \A f \in Faces : answer <= faces[f].exact
=============================================================================
