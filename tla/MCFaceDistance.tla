---------------------------- MODULE MCFaceDistance ----------------------------
(* Instances of FaceDistance for TLC. *)
EXTENDS FaceDistance

Face(e, b, d, m) ==
  [exact |-> e, solved |-> TRUE, box |-> b, plane |-> None, polygon |-> FALSE,
   deflection |-> d, mesh |-> m]

PlanarFace(e, b, p, polygon) ==
  [exact |-> e, solved |-> TRUE, box |-> b, plane |-> p, polygon |-> polygon,
   deflection |-> 1, mesh |-> e]

(* Curved faces with triangles on either side of the surface, of fine and     *)
(* coarse deflection, at equal and at different distances.                    *)
CurvedFaces ==
  {Face(e, b, d, m) : e \in {1, 4, 5}, b \in {0, 4}, d \in {0, 3}, m \in {1, 4, 7}}

Consistent(f) ==
  f.box <= f.exact /\ f.mesh \in AtLeastZero(f.exact - f.deflection) .. f.exact + f.deflection

(* Planar faces with and without a polygon, whose plane may pass near the     *)
(* point while the face is far.                                               *)
PlanarFaces ==
  {PlanarFace(4, 0, 0, TRUE), PlanarFace(4, 4, 4, TRUE), PlanarFace(2, 1, 2, FALSE),
   PlanarFace(0, 0, 0, FALSE), PlanarFace(1, 0, 1, TRUE)}

(* Faces the mesher or the exact distance gave up on. *)
FailedFaces ==
  {Face(4, 4, 1, None), [Face(1, 0, 1, 2) EXCEPT !.solved = FALSE]}

AllFaceData == {f \in CurvedFaces : Consistent(f)} \cup PlanarFaces \cup FailedFaces

(* A plate with a hole, seen from a point of its upper face: that face has    *)
(* two wires, hence neither polygon nor cached normal; the others are the     *)
(* sides and the lower face.                                                  *)
PlateWithHole ==
  {PlanarFace(0, 0, 0, FALSE), PlanarFace(3, 3, 3, TRUE), PlanarFace(5, 5, 5, TRUE)}

(* A small flat patch beside a large coarse face that bulges to the point.    *)
PatchAndBulge == {Face(4, 4, 0, 4), Face(3, 2, 3, 5)}
=============================================================================
