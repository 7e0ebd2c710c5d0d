--------------------------- MODULE FaceDistanceProofs ---------------------------
(***************************************************************************)
(* Theorems about FaceDistance, for any number of faces and any distances   *)
(* to them that the assumptions on FaceData allow.                          *)
(***************************************************************************)
EXTENDS FaceDistance, TLAPS

(* What the assumption says of each face of a shape. *)
LEMMA FaceFacts ==
  ASSUME NEW faceOf \in [Faces -> FaceData], NEW f \in Faces
  PROVE  /\ faceOf[f].exact \in Nat /\ faceOf[f].exact < Infinity
         /\ faceOf[f].solved \in BOOLEAN
         /\ faceOf[f].box \in Nat /\ faceOf[f].box <= faceOf[f].exact
         /\ faceOf[f].plane \in Int
         /\ faceOf[f].plane # None =>
              faceOf[f].plane \in Nat /\ faceOf[f].plane <= faceOf[f].exact
         /\ faceOf[f].deflection \in Nat
         /\ faceOf[f].mesh \in Int
         /\ faceOf[f].mesh # None =>
              /\ faceOf[f].mesh \in Nat
              /\ faceOf[f].mesh <= faceOf[f].exact + faceOf[f].deflection
              /\ faceOf[f].exact <= faceOf[f].mesh + faceOf[f].deflection
  BY FaceDataAssumption, FaceDistanceAssumption DEF None, AtLeastZero

-----------------------------------------------------------------------------
(* Type correctness; the shape does not change under the queries. *)

(* The box of the shape holds the faces, the global deflection is no smaller *)
(* than any face's.                                                          *)
ShapeInv ==
  /\ \A f \in Faces : faces[f].deflection <= deflection /\ aabb <= faces[f].exact
  /\ inside => aabb = 0

TypeInv == TypeOK /\ ShapeInv

(* The constructor has measured the shape. *)
LEMMA TypeInit == Init => TypeInv
<1> SUFFICES ASSUME Init PROVE TypeInv
  OBVIOUS
<1>1. faces \in [Faces -> FaceData] /\ inside \in BOOLEAN
  BY DEF Init
<1>2. deflection \in Nat
  BY <1>1, FaceFacts DEF Init
<1>3. aabb \in Nat
  BY <1>1, FaceFacts DEF Init
<1>4. \A f \in Faces : aabb <= faces[f].exact
  BY <1>1, <1>3, FaceFacts DEF Init
<1> QED
  BY <1>1, <1>2, <1>3, <1>4, FaceDistanceAssumption
  DEF Init, TypeInv, TypeOK, ShapeInv, Queries

(* The bounds are lengths. *)
LEMMA BoundsTyped == TypeInv => BVHBounds \subseteq Nat
<1> SUFFICES ASSUME TypeInv, NEW d \in BVHBounds PROVE d \in Nat
  OBVIOUS
<1>1. CASE Meshed = {}
  BY <1>1, FaceDistanceAssumption DEF BVHBounds
<1>2. CASE Meshed # {}
  <2>1. PICK f \in NearestTriangle : d = AtLeastZero(faces[f].mesh - faces[f].deflection)
    BY <1>2 DEF BVHBounds
  <2>2. f \in Faces /\ faces[f].mesh \in Int /\ faces[f].deflection \in Nat
    BY FaceFacts DEF NearestTriangle, Meshed, TypeInv, TypeOK
  <2> QED
    BY <2>1, <2>2 DEF AtLeastZero
<1> QED
  BY <1>1, <1>2

(* A call either answers with a length or a face, or starts a scan. *)
LEMMA CallCases ==
  ASSUME TypeInv, Call
  PROVE  /\ UNCHANGED shapeVars
         /\ \/ pc' = "answered" /\ answer' \in Nat /\ UNCHANGED <<next, reach, best>>
            \/ pc' = "scan" /\ next' = 1 /\ best' = 0 /\ reach' \in Nat /\ UNCHANGED answer
         /\ query' \in Queries
<1> USE FaceDistanceAssumption DEF TypeInv, TypeOK, Queries
<1>1. CASE NormalFromPlane
  BY <1>1 DEF NormalFromPlane, Answer, FirstNearestPlane, Polygons, Faces
<1>2. CASE NormalFromScan
  <2>1. PICK bvh \in BVHBounds : Scan("SurfaceNormal", SeedDistance(bvh))
    BY <1>2 DEF NormalFromScan
  <2>2. SeedDistance(bvh) \in Nat
    BY BoundsTyped DEF SeedDistance
  <2> QED
    BY <2>1, <2>2 DEF Scan
<1>3. ASSUME NEW q \in Queries, ExactDistanceToInAs(q) PROVE
        /\ UNCHANGED shapeVars
        /\ \/ pc' = "answered" /\ answer' \in Nat /\ UNCHANGED <<next, reach, best>>
           \/ pc' = "scan" /\ next' = 1 /\ best' = 0 /\ reach' \in Nat /\ UNCHANGED answer
        /\ query' \in Queries
  BY <1>3 DEF ExactDistanceToInAs, Answer, Scan
<1>4. CASE DistanceToIn
  <2>1. CASE Answer("DistanceToIn", aabb)
    BY <2>1 DEF Answer
  <2>2. CASE ExactDistanceToInAs("DistanceToIn")
    BY <2>2, <1>3
  <2>3. ASSUME NEW bvh \in BVHBounds, Answer("DistanceToIn", bvh) PROVE
          pc' = "answered" /\ answer' \in Nat /\ UNCHANGED <<shapeVars, next, reach, best>>
          /\ query' \in Queries
    BY <2>3, BoundsTyped DEF Answer
  <2> QED
    BY <1>4, <2>1, <2>2, <2>3 DEF DistanceToIn
<1>5. CASE DistanceToOut
  <2>1. ASSUME NEW d \in PlanarBounds, AllFacesPlanar PROVE d \in Nat
    BY <2>1, FaceFacts DEF PlanarBounds, FirstNearestPlane, AllFacesPlanar
  <2>2. CASE AllFacesPlanar /\ \E d \in PlanarBounds : Answer("DistanceToOut", d)
    BY <2>1, <2>2 DEF Answer
  <2>3. ASSUME NEW bvh \in BVHBounds, Answer("DistanceToOut", bvh) PROVE
          pc' = "answered" /\ answer' \in Nat /\ UNCHANGED <<shapeVars, next, reach, best>>
          /\ query' \in Queries
    BY <2>3, BoundsTyped DEF Answer
  <2>4. CASE Scan("DistanceToOut", Infinity)
    BY <2>4 DEF Scan
  <2> QED
    BY <1>5, <2>2, <2>3, <2>4 DEF DistanceToOut
<1>6. CASE ExactDistanceToIn
  BY <1>6, <1>3 DEF ExactDistanceToIn
<1>7. CASE ExactDistanceToOut
  BY <1>7 DEF ExactDistanceToOut, Scan
<1> QED
  BY <1>1, <1>2, <1>4, <1>5, <1>6, <1>7 DEF Call, SurfaceNormal

(* Every step keeps the types. *)
LEMMA TypeStep == TypeInv /\ [Next]_vars => TypeInv'
<1> SUFFICES ASSUME TypeInv, [Next]_vars PROVE TypeInv'
  OBVIOUS
<1> USE FaceDistanceAssumption DEF TypeInv, TypeOK, ShapeInv, shapeVars
<1>1. CASE Call
  BY <1>1, CallCases
<1>2. CASE VisitFace
  BY <1>2 DEF VisitFace
<1>3. CASE FinishScan
  <2>1. best # 0 => faces[best].exact \in Nat
    BY FaceFacts DEF Faces
  <2>2. Outcome \in Nat
    BY <2>1 DEF Outcome, Queries
  <2> QED
    BY <1>3, <2>2 DEF FinishScan
<1>4. CASE Return
  BY <1>4 DEF Return, Queries
<1>5. CASE UNCHANGED vars
  BY <1>5 DEF vars
<1> QED
  BY <1>1, <1>2, <1>3, <1>4, <1>5 DEF Next

(* Type correctness: in particular the scan stays within the faces. *)
THEOREM TypeCorrect == Spec => []TypeOK
<1>1. TypeInv => TypeOK
  BY DEF TypeInv
<1> QED
  BY <1>1, TypeInit, TypeStep, PTL DEF Spec

-----------------------------------------------------------------------------
(* The scan. *)

(* Among the faces visited so far, those within the radius are no nearer than *)
(* the best match, and strictly farther if they come first.                   *)
ScanInv ==
  pc = "scan" =>
    /\ best # 0 => best < next /\ faces[best].solved
    /\ \A f \in Faces : f < next /\ faces[f].solved =>
         \/ reach < faces[f].exact
         \/ /\ best # 0
            /\ faces[best].exact <= faces[f].exact
            /\ f < best => faces[best].exact < faces[f].exact

(* No scan is under way at the start. *)
LEMMA ScanInit == Init => ScanInv
  BY DEF Init, ScanInv

(* A face that is pruned or not better is beyond the radius or not nearer.     *)
LEMMA ScanStep == TypeInv /\ ScanInv /\ [Next]_vars => ScanInv'
<1> SUFFICES ASSUME TypeInv, ScanInv, [Next]_vars PROVE ScanInv'
  OBVIOUS
<1>1. CASE Call
  BY <1>1, CallCases DEF ScanInv, Faces
<1>2. CASE VisitFace
  <2>1. /\ pc = "scan" /\ next \in Faces /\ next' = next + 1
        /\ UNCHANGED <<faces, pc, reach>>
    BY <1>2, FaceDistanceAssumption DEF VisitFace, shapeVars, TypeInv, TypeOK, Faces
  <2>2. /\ next \in Nat /\ reach \in Nat /\ Infinity \in Nat /\ best \in Nat
        /\ best # 0 => best \in Faces
        /\ Faces \subseteq Nat
    BY FaceDistanceAssumption DEF TypeInv, TypeOK, Faces
  <2>3. \A f \in Faces : /\ faces[f].exact \in Nat /\ faces[f].exact < Infinity
                         /\ faces[f].box \in Nat /\ faces[f].box <= faces[f].exact
    BY FaceFacts DEF TypeInv, TypeOK
  <2>4. CASE Better(next)
    <3>1. best' = next /\ faces[next].solved
          /\ (best # 0 => faces[next].exact < faces[best].exact)
      BY <1>2, <2>4 DEF VisitFace, Better
    <3>2. ASSUME NEW f \in Faces, f < next, faces[f].solved
          PROVE  reach < faces[f].exact \/ faces[next].exact < faces[f].exact
      <4>1. \/ reach < faces[f].exact
            \/ best # 0 /\ faces[best].exact <= faces[f].exact
        BY <2>1, <3>2 DEF ScanInv
      <4> QED
        BY <2>1, <2>2, <2>3, <3>1, <4>1
    <3>3. \A f \in Faces : f < next + 1 => f = next \/ f < next
      BY <2>1, <2>2
    <3>4. next # 0 /\ next < next + 1 /\ ~(next < next) /\ faces[next].exact <= faces[next].exact
      BY <2>1, <2>2, <2>3, FaceDistanceAssumption DEF Faces
    <3>5. \A f \in Faces : faces[next].exact < faces[f].exact => faces[next].exact <= faces[f].exact
      BY <2>1, <2>3
    <3> QED
      BY <2>1, <3>1, <3>2, <3>3, <3>4, <3>5 DEF ScanInv
  <2>5. CASE ~Better(next)
    <3>1. best' = best
      BY <1>2, <2>5 DEF VisitFace
    <3>2. faces[next].solved =>
            \/ reach < faces[next].exact
            \/ best # 0 /\ faces[best].exact <= faces[next].exact
      BY <2>1, <2>2, <2>3, <2>5 DEF Better, Pruned, Threshold
    <3> QED
      BY <2>1, <2>2, <2>3, <3>1, <3>2 DEF ScanInv
  <2> QED
    BY <2>4, <2>5
<1>3. CASE FinishScan
  BY <1>3 DEF FinishScan, ScanInv
<1>4. CASE Return
  BY <1>4 DEF Return, ScanInv
<1>5. CASE UNCHANGED vars
  BY <1>5 DEF vars, shapeVars, ScanInv
<1> QED
  BY <1>1, <1>2, <1>3, <1>4, <1>5 DEF Next

(* At the end of the loop every face has been visited. *)
LEMMA ScanEnds == TypeInv /\ ScanInv => ScanFindsNearest
<1> SUFFICES ASSUME TypeInv, ScanInv, pc = "scan", next > NumFaces,
                    NEW r \in Faces, faces[r].solved, faces[r].exact <= reach
             PROVE  /\ best # 0
                    /\ faces[best].solved
                    /\ \A f \in Faces : faces[f].solved =>
                         /\ faces[best].exact <= faces[f].exact
                         /\ f < best => faces[best].exact < faces[f].exact
  BY DEF ScanFindsNearest
<1>1. \A f \in Faces : f < next
  BY FaceDistanceAssumption DEF TypeInv, TypeOK, Faces
<1>2. reach \in Nat /\ best \in Nat /\ (best # 0 => best \in Faces)
  BY FaceDistanceAssumption DEF TypeInv, TypeOK, Faces
<1>3. \A f \in Faces : faces[f].exact \in Nat
  BY FaceFacts DEF TypeInv, TypeOK
<1>4. best # 0 /\ faces[best].exact <= faces[r].exact /\ faces[best].solved
  BY <1>1, <1>2, <1>3 DEF ScanInv
<1> QED
  BY <1>1, <1>2, <1>3, <1>4 DEF ScanInv

(* Pruning never loses the nearest face within the radius, nor the first of    *)
(* several at the same distance: for any faces, boxes and radius.              *)
THEOREM PruningIsSafe == Spec => []ScanFindsNearest
  BY TypeInit, TypeStep, ScanInit, ScanStep, ScanEnds, PTL DEF Spec

-----------------------------------------------------------------------------
(* The radius and the answers. *)

(* What a scan was started with: for the normal a radius that reaches a face,  *)
(* for the distances no radius.                                                *)
ReachInv ==
  pc = "scan" =>
    /\ query = "SurfaceNormal" => \E f \in Faces : faces[f].exact <= reach
    /\ query # "SurfaceNormal" => reach = Infinity
    /\ query \in {"DistanceToIn", "ExactDistanceToIn"} => ~inside

(* No scan is under way at the start. *)
LEMMA ReachInit == Init => ReachInv
  BY DEF Init, ReachInv

(* The bound takes one deflection off the nearest triangle, the radius adds two *)
(* of the largest: more than enough to reach that triangle's face again.        *)
LEMMA SeedReaches ==
  ASSUME TypeInv, NEW bvh \in BVHBounds
  PROVE  \E f \in Faces : faces[f].exact <= SeedDistance(bvh)
<1>0. \A f \in Faces :
        /\ faces[f].exact \in Nat /\ faces[f].exact < Infinity
        /\ faces[f].mesh \in Int /\ faces[f].deflection \in Nat
        /\ faces[f].deflection <= deflection
        /\ faces[f].mesh # None => faces[f].exact <= faces[f].mesh + faces[f].deflection
  BY FaceFacts DEF TypeInv, TypeOK, ShapeInv
<1>1. 1 \in Faces /\ Infinity \in Nat /\ deflection \in Nat
  BY FaceDistanceAssumption DEF Faces, TypeInv, TypeOK
<1>2. CASE SeedDistance(bvh) = Infinity
  <2>1. faces[1].exact <= Infinity
    BY <1>0, <1>1
  <2> QED
    BY <1>1, <1>2, <2>1
<1>3. CASE SeedDistance(bvh) # Infinity
  <2>1. SeedDistance(bvh) = bvh + 2 * deflection /\ bvh < Infinity
    BY <1>3 DEF SeedDistance
  <2>2. Meshed # {}
    BY <1>1, <2>1 DEF BVHBounds
  <2>3. PICK f \in NearestTriangle : bvh = AtLeastZero(faces[f].mesh - faces[f].deflection)
    BY <2>2 DEF BVHBounds
  <2>4. f \in Faces /\ faces[f].mesh # None
    BY DEF NearestTriangle, Meshed
  <2>5. bvh >= faces[f].mesh - faces[f].deflection /\ bvh \in Int
    BY <1>0, <2>3, <2>4 DEF AtLeastZero
  <2>6. faces[f].exact <= bvh + 2 * deflection
    BY <1>0, <1>1, <2>4, <2>5
  <2> QED
    BY <2>1, <2>4, <2>6
<1> QED
  BY <1>2, <1>3

(* The calls that scan start it as ReachInv says. *)
LEMMA ReachStep == TypeInv /\ ReachInv /\ [Next]_vars => ReachInv'
<1> SUFFICES ASSUME TypeInv, ReachInv, [Next]_vars PROVE ReachInv'
  OBVIOUS
<1>1. ASSUME NEW q \in Queries, NEW value, Answer(q, value) PROVE ReachInv'
  BY <1>1 DEF Answer, ReachInv
<1>2. ASSUME NEW q \in Queries, q # "SurfaceNormal", Scan(q, Infinity),
             q \in {"DistanceToIn", "ExactDistanceToIn"} => ~inside
      PROVE  ReachInv'
  BY <1>2 DEF Scan, ReachInv, shapeVars
<1>3. ASSUME NEW q \in Queries, q # "SurfaceNormal", ExactDistanceToInAs(q) PROVE ReachInv'
  BY <1>3, <1>1, <1>2 DEF ExactDistanceToInAs
<1>4. CASE NormalFromPlane
  BY <1>4, <1>1 DEF NormalFromPlane, Queries
<1>5. CASE NormalFromScan
  <2>1. PICK bvh \in BVHBounds : Scan("SurfaceNormal", SeedDistance(bvh))
    BY <1>5 DEF NormalFromScan
  <2>2. \E f \in Faces : faces[f].exact <= SeedDistance(bvh)
    BY SeedReaches
  <2> QED
    BY <2>1, <2>2 DEF Scan, ReachInv, shapeVars
<1>6. CASE DistanceToIn
  BY <1>6, <1>1, <1>3 DEF DistanceToIn, Queries
<1>7. CASE DistanceToOut
  BY <1>7, <1>1, <1>2 DEF DistanceToOut, Queries
<1>8. CASE ExactDistanceToIn
  BY <1>8, <1>3 DEF ExactDistanceToIn, Queries
<1>9. CASE ExactDistanceToOut
  BY <1>9, <1>2 DEF ExactDistanceToOut, Queries
<1>10. CASE VisitFace
  BY <1>10 DEF VisitFace, ReachInv, shapeVars
<1>11. CASE FinishScan \/ Return
  BY <1>11 DEF FinishScan, Return, ReachInv
<1>12. CASE UNCHANGED vars
  BY <1>12 DEF vars, shapeVars, ReachInv
<1> QED
  BY <1>4, <1>5, <1>6, <1>7, <1>8, <1>9, <1>10, <1>11, <1>12 DEF Next, Call, SurfaceNormal

(* The end of a scan that could reach a face, when every face is solved.       *)
LEMMA ClosestIsNearest ==
  ASSUME TypeInv, ScanInv, ReachInv, FinishScan, AllSolved
  PROVE  best \in Faces /\ best \in Nearest
<1>1. pc = "scan" /\ next > NumFaces
  BY DEF FinishScan
<1>2. \E f \in Faces : faces[f].exact <= reach
  <2>1. CASE query = "SurfaceNormal"
    BY <1>1, <2>1 DEF ReachInv
  <2>2. CASE query # "SurfaceNormal"
    <3>1. reach = Infinity
      BY <1>1, <2>2 DEF ReachInv
    <3>2. 1 \in Faces /\ faces[1].exact <= Infinity
      BY FaceFacts, FaceDistanceAssumption DEF TypeInv, TypeOK, Faces
    <3> QED
      BY <3>1, <3>2
  <2> QED
    BY <2>1, <2>2
<1>3. ScanFindsNearest
  BY ScanEnds
<1>4. best # 0 /\ \A f \in Faces : faces[best].exact <= faces[f].exact
  BY <1>1, <1>2, <1>3 DEF ScanFindsNearest, AllSolved
<1>5. best \in Faces
  BY <1>4, FaceDistanceAssumption DEF TypeInv, TypeOK, Faces
<1> QED
  BY <1>4, <1>5 DEF Nearest

(* What the queries make of it. *)
LEMMA ScanAnswers ==
  ASSUME TypeInv, ScanInv, ReachInv, FinishScan, AllSolved
  PROVE  /\ query = "SurfaceNormal" => answer' \in Nearest
         /\ query # "SurfaceNormal" =>
              \E f \in Nearest :
                answer' = IF faces[f].exact <= Tolerance THEN 0 ELSE faces[f].exact
<1>1. best \in Nearest /\ best # 0
  BY ClosestIsNearest DEF Faces
<1>2. answer' = Outcome
  BY DEF FinishScan
<1>3. CASE query = "SurfaceNormal"
  BY <1>1, <1>2, <1>3 DEF Outcome
<1>4. CASE query # "SurfaceNormal"
  <2>1. Outcome = IF faces[best].exact <= Tolerance THEN 0 ELSE faces[best].exact
    BY <1>1, <1>4 DEF Outcome
  <2> QED
    BY <1>1, <1>2, <1>4, <2>1
<1> QED
  BY <1>3, <1>4

(* The shape under the answers. *)
LEMMA ShapeStays ==
  TypeInv /\ [Next]_vars => UNCHANGED shapeVars
  BY CallCases DEF Next, VisitFace, FinishScan, Return, vars

(* On a solid with a curved face, SurfaceNormal() answers from a nearest face: *)
(* the radius seeded from the triangles is wide enough for any deflections.    *)
THEOREM SeededNormalsAreNearest == Spec => []ScannedNormalIsNearest
<1> DEFINE IInv == TypeInv /\ ScanInv /\ ReachInv /\ ScannedNormalIsNearest
<1>1. Init => IInv
  BY TypeInit, ScanInit, ReachInit DEF Init, ScannedNormalIsNearest, Answered
<1>2. IInv /\ [Next]_vars => IInv'
  <2> SUFFICES ASSUME IInv, [Next]_vars PROVE IInv'
    OBVIOUS
  <2>1. TypeInv' /\ ScanInv' /\ ReachInv'
    BY TypeStep, ScanStep, ReachStep
  <2>2. UNCHANGED faces
    BY ShapeStays DEF shapeVars
  <2>3. SUFFICES ASSUME pc' = "answered", query' = "SurfaceNormal", ~AllFacesPlanar, AllSolved
                 PROVE  answer' \in Nearest
    BY <2>1, <2>2 DEF ScannedNormalIsNearest, Answered, AllFacesPlanar, AllSolved, Nearest
  <2>4. CASE Call
    BY <2>3, <2>4
    DEF Call, SurfaceNormal, NormalFromPlane, NormalFromScan, DistanceToIn, DistanceToOut,
        ExactDistanceToIn, ExactDistanceToOut, ExactDistanceToInAs, Answer, Scan
  <2>5. CASE FinishScan
    BY <2>3, <2>5, ScanAnswers DEF FinishScan
  <2>6. CASE VisitFace \/ Return
    BY <2>3, <2>6 DEF VisitFace, Return, TypeInv, TypeOK
  <2>7. CASE UNCHANGED vars
    BY <2>3, <2>7 DEF vars, ScannedNormalIsNearest, Answered
  <2> QED
    BY <2>4, <2>5, <2>6, <2>7 DEF Next
<1>3. IInv => ScannedNormalIsNearest
  OBVIOUS
<1> HIDE DEF IInv
<1> QED
  BY <1>1, <1>2, <1>3, PTL DEF Spec

(* The exact distances are exact, whatever the boxes prune. *)
THEOREM ExactDistancesAreExact == Spec => []ExactDistancesExact
<1> DEFINE IInv == TypeInv /\ ScanInv /\ ReachInv /\ ExactDistancesExact
<1>1. Init => IInv
  BY TypeInit, ScanInit, ReachInit DEF Init, ExactDistancesExact, Answered
<1>2. IInv /\ [Next]_vars => IInv'
  <2> SUFFICES ASSUME IInv, [Next]_vars PROVE IInv'
    OBVIOUS
  <2>1. TypeInv' /\ ScanInv' /\ ReachInv'
    BY TypeStep, ScanStep, ReachStep
  <2>2. UNCHANGED <<faces, inside>>
    BY ShapeStays DEF shapeVars
  <2>3. SUFFICES ASSUME pc' = "answered", query' \in {"ExactDistanceToIn", "ExactDistanceToOut"}
                 PROVE  /\ query' = "ExactDistanceToIn" /\ inside => answer' = 0
                        /\ AllSolved /\ (query' = "ExactDistanceToIn" => ~inside) =>
                             \E f \in Nearest : answer' =
                               IF faces[f].exact <= Tolerance THEN 0 ELSE faces[f].exact
    BY <2>1, <2>2 DEF ExactDistancesExact, Answered, AllSolved, Nearest
  <2>4. CASE Call
    BY <2>3, <2>4
    DEF Call, SurfaceNormal, NormalFromPlane, NormalFromScan, DistanceToIn, DistanceToOut,
        ExactDistanceToIn, ExactDistanceToOut, ExactDistanceToInAs, Answer, Scan
  <2>5. CASE FinishScan
    <3>1. query' = query /\ pc = "scan"
      BY <2>5 DEF FinishScan
    <3>2. query = "ExactDistanceToIn" => ~inside
      BY <3>1 DEF ReachInv
    <3> QED
      BY <2>3, <2>5, <3>1, <3>2, ScanAnswers
  <2>6. CASE VisitFace \/ Return
    BY <2>3, <2>6 DEF VisitFace, Return, TypeInv, TypeOK
  <2>7. CASE UNCHANGED vars
    BY <2>3, <2>7 DEF vars, ExactDistancesExact, Answered
  <2> QED
    BY <2>4, <2>5, <2>6, <2>7 DEF Next
<1>3. IInv => ExactDistancesExact
  OBVIOUS
<1> HIDE DEF IInv
<1> QED
  BY <1>1, <1>2, <1>3, PTL DEF Spec

-----------------------------------------------------------------------------
(* The safeties. *)

(* A bound from the triangles is off by the difference of two deflections at   *)
(* most: that of the face it should have been measured to, and that of the     *)
(* face whose triangle was nearest.                                            *)
LEMMA BoundOverestimate ==
  ASSUME TypeInv, Meshed = Faces, NEW d \in BVHBounds, NEW f \in Faces
  PROVE  \E g \in Faces : d <= faces[f].exact + faces[f].deflection - faces[g].deflection
<1>0. \A g \in Faces :
        /\ faces[g].exact \in Nat /\ faces[g].mesh \in Int /\ faces[g].deflection \in Nat
        /\ faces[g].mesh # None => faces[g].mesh <= faces[g].exact + faces[g].deflection
  BY FaceFacts DEF TypeInv, TypeOK
<1>1. PICK b \in NearestTriangle : d = AtLeastZero(faces[b].mesh - faces[b].deflection)
  BY DEF BVHBounds
<1>2. b \in Faces /\ faces[b].mesh <= faces[f].mesh /\ faces[f].mesh # None
  BY DEF NearestTriangle, Meshed
<1>3. CASE d = 0
  <2>1. d <= faces[f].exact + faces[f].deflection - faces[f].deflection
    BY <1>0, <1>3
  <2> QED
    BY <2>1
<1>4. CASE d # 0
  <2>1. d = faces[b].mesh - faces[b].deflection
    BY <1>1, <1>4 DEF AtLeastZero
  <2>2. d <= faces[f].exact + faces[f].deflection - faces[b].deflection
    BY <1>0, <1>2, <2>1
  <2> QED
    BY <1>2, <2>2
<1> QED
  BY <1>3, <1>4

(* Every tier of the safeties keeps to it. *)
THEOREM SafetiesAreNearlyConservative == Spec => []SafetyOverestimate
<1> DEFINE IInv == TypeInv /\ ScanInv /\ ReachInv /\ SafetyOverestimate
<1>1. Init => IInv
  BY TypeInit, ScanInit, ReachInit DEF Init, SafetyOverestimate, Answered
<1>2. IInv /\ [Next]_vars => IInv'
  <2> SUFFICES ASSUME IInv, [Next]_vars PROVE IInv'
    OBVIOUS
  <2>1. TypeInv' /\ ScanInv' /\ ReachInv'
    BY TypeStep, ScanStep, ReachStep
  <2>2. UNCHANGED <<faces, aabb>>
    BY ShapeStays DEF shapeVars
  <2>3. SUFFICES ASSUME pc' = "answered", query' \in {"DistanceToIn", "DistanceToOut"},
                        AllSolved, Meshed = Faces, NEW f \in Faces
                 PROVE  IF query' = "DistanceToOut" /\ AllFacesPlanar
                        THEN answer' <= faces[f].exact
                        ELSE \E g \in Faces : answer' <=
                               faces[f].exact + faces[f].deflection - faces[g].deflection
    BY <2>1, <2>2
    DEF SafetyOverestimate, Answered, AllSolved, AllFacesPlanar, Meshed
  <2>4. /\ faces[f].exact \in Nat /\ faces[f].deflection \in Nat
        /\ aabb \in Nat /\ aabb <= faces[f].exact
    BY FaceFacts DEF TypeInv, TypeOK, ShapeInv
  <2>5. ASSUME answer' \in Nat, answer' <= faces[f].exact
        PROVE  IF query' = "DistanceToOut" /\ AllFacesPlanar
               THEN answer' <= faces[f].exact
               ELSE \E g \in Faces : answer' <=
                      faces[f].exact + faces[f].deflection - faces[g].deflection
    <3>1. answer' <= faces[f].exact + faces[f].deflection - faces[f].deflection
      BY <2>4, <2>5
    <3> QED
      BY <2>5, <3>1
  <2>6. CASE Call
    <3>1. answer' \in Nat
      BY <2>1 DEF TypeInv, TypeOK
    <3>2. CASE DistanceToIn
      <4>1. CASE answer' = aabb \/ answer' = 0
        BY <2>4, <2>5, <4>1
      <4>2. ASSUME NEW bvh \in BVHBounds, answer' = bvh, query' = "DistanceToIn"
            PROVE  \E g \in Faces : answer' <=
                     faces[f].exact + faces[f].deflection - faces[g].deflection
        BY <2>3, <4>2, BoundOverestimate
      <4> QED
        BY <2>3, <3>2, <4>1, <4>2 DEF DistanceToIn, ExactDistanceToInAs, Answer, Scan
    <3>3. CASE DistanceToOut
      <4>1. CASE AllFacesPlanar
        <5>1. PICK d \in PlanarBounds : answer' = d
          BY <3>3, <4>1 DEF DistanceToOut, Answer
        <5>2. PICK b \in Faces : d = faces[b].plane /\ faces[b].plane <= faces[f].plane
          <6>1. PICK b \in FirstNearestPlane(Faces) : d = faces[b].plane
            BY DEF PlanarBounds
          <6>2. b \in Faces /\ faces[b].plane \in Int /\ faces[f].plane \in Int
            BY FaceFacts DEF FirstNearestPlane, TypeInv, TypeOK
          <6> QED
            BY <6>1, <6>2 DEF FirstNearestPlane
        <5>3. faces[f].plane <= faces[f].exact /\ faces[f].plane \in Nat /\ faces[b].plane \in Nat
          BY <4>1, FaceFacts DEF AllFacesPlanar, TypeInv, TypeOK
        <5>4. answer' <= faces[f].exact
          BY <2>4, <5>1, <5>2, <5>3
        <5> QED
          BY <2>5, <3>1, <5>4
      <4>2. CASE ~AllFacesPlanar
        <5>1. PICK bvh \in BVHBounds : answer' = bvh
          BY <2>3, <3>3, <4>2 DEF DistanceToOut, Answer, Scan
        <5> QED
          BY <2>3, <4>2, <5>1, BoundOverestimate
      <4> QED
        BY <4>1, <4>2
    <3> QED
      BY <2>3, <2>6, <3>2, <3>3
      DEF Call, SurfaceNormal, NormalFromPlane, NormalFromScan, ExactDistanceToIn,
          ExactDistanceToOut, ExactDistanceToInAs, Answer, Scan
  <2>7. CASE FinishScan
    <3>1. query' = query
      BY <2>7 DEF FinishScan
    <3>2. PICK n \in Nearest :
            answer' = IF faces[n].exact <= Tolerance THEN 0 ELSE faces[n].exact
      BY <2>3, <2>7, <3>1, ScanAnswers
    <3>3. n \in Faces /\ faces[n].exact <= faces[f].exact
      BY DEF Nearest
    <3>4. faces[n].exact \in Nat
      BY <3>3, FaceFacts DEF TypeInv, TypeOK
    <3>5. answer' \in Nat /\ answer' <= faces[f].exact
      BY <2>4, <3>2, <3>3, <3>4
    <3> QED
      BY <2>5, <3>5
  <2>8. CASE VisitFace \/ Return
    BY <2>3, <2>8 DEF VisitFace, Return, TypeInv, TypeOK
  <2>9. CASE UNCHANGED vars
    BY <2>3, <2>9 DEF vars, SafetyOverestimate, Answered
  <2> QED
    BY <2>6, <2>7, <2>8, <2>9 DEF Next
<1>3. IInv => SafetyOverestimate
  OBVIOUS
<1> HIDE DEF IInv
<1> QED
  BY <1>1, <1>2, <1>3, PTL DEF Spec
=============================================================================
