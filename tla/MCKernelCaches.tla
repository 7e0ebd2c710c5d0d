---------------------------- MODULE MCKernelCaches ----------------------------
(* Instances of KernelCaches for TLC. *)
EXTENDS KernelCaches, TLC

(* The first shape installed has no bounding box: SetShape() throws. *)
FirstShapeVoid == {1}

(* The classifier and the intersectors stand for the two sources of data; the *)
(* sphere cache reads the same source as the intersectors.                    *)
BothSources == {"classifier", "intersector"}

(* Threads are interchangeable: no property is temporal. *)
ThreadSymmetry == Permutations(Threads)
=============================================================================
