--------------------------- MODULE MCPolyhedronCache ---------------------------
(* An instance of PolyhedronCache for TLC. *)
EXTENDS PolyhedronCache, TLC

(* The first shape installed has no bounding box: SetOCCTShape() throws. *)
FirstShapeVoid == {1}

(* Neither that shape nor the second one tessellates to anything. *)
FirstTwoEmpty == {1, 2}

(* Threads are interchangeable: no property is temporal. *)
ThreadSymmetry == Permutations(Threads)
=============================================================================
