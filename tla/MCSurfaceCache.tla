---------------------------- MODULE MCSurfaceCache ----------------------------
(* An instance of SurfaceCache for TLC. *)
EXTENDS SurfaceCache

(* Every shape has a bounding box: SetShape() does not throw. *)
NoVoidShape == {}
=============================================================================
