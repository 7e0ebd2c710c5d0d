----------------------------- MODULE MCSphereCache -----------------------------
(* Instances of SphereCache for TLC: the points of a line. *)
EXTENDS SphereCache

Line == -4 .. 16

LineDistance(p, q) == IF p < q THEN q - p ELSE p - q

Curved(surface, triangles, deflection) ==
  [surface |-> surface, plane |-> {}, triangles |-> triangles, deflection |-> deflection]

Planar(surface) ==
  [surface |-> surface, plane |-> surface, triangles |-> surface, deflection |-> 1]

(* Two parts.  One has a coarse face that bulges inwards from its triangles, *)
(* and a fine one; the other lies before the coarse face.                    *)
Uneven ==
  [inside |-> {-2} \cup (5 .. 12), box |-> -3 .. 13,
   faces  |-> {Curved({4}, {0}, 4), Curved({13}, {13}, 0), Curved({-3, -1}, {-3, -1}, 0)}]

(* Two parts whose faces have the same deflection, with triangles on either  *)
(* side of the surface.                                                      *)
TwoParts ==
  [inside |-> (-2 .. 6) \cup (9 .. 15), box |-> -3 .. 16,
   faces  |-> {Curved({-3, 7}, {-4, 7}, 1), Curved({8, 16}, {8, 15}, 1)}]

(* Planes only. *)
Slab == [inside |-> 3 .. 7, box |-> 2 .. 8, faces |-> {Planar({2}), Planar({8})}]

(* The mesher has failed on every face. *)
Unmeshed == [inside |-> 1 .. 6, box |-> 0 .. 7, faces |-> {Curved({0}, {}, 2), Curved({7}, {}, 1)}]

LineShapes == [g \in 0 .. 3 |-> <<Uneven, TwoParts, Slab, Unmeshed>>[g + 1]]
=============================================================================
