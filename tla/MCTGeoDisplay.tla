---------------------------- MODULE MCTGeoDisplay ----------------------------
(* An instance of TGeoDisplay for TLC. *)
EXTENDS TGeoDisplay

(* The first shape installed has no bounding box: SetShape() throws. *)
FirstShapeVoid == {1}
=============================================================================
