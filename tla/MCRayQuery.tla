------------------------------ MODULE MCRayQuery ------------------------------
(* An instance of RayQuery for TLC. *)
EXTENDS RayQuery

(* A block; steps; a bridge with an overhang on each side; two parts that   *)
(* do not touch; two that touch along an edge; a ring around a hole.        *)
MCSolids ==
  {{<<0, 0, 0>>},
   {<<0, 0, 0>>, <<1, 0, 0>>, <<0, 0, 1>>},
   {<<0, 0, 0>>, <<2, 0, 0>>, <<0, 0, 1>>, <<1, 0, 1>>, <<2, 0, 1>>},
   {<<0, 0, 0>>, <<0, 0, 2>>},
   {<<0, 0, 0>>, <<1, 0, 1>>},
   {<<i, j, 0>> : i \in 0 .. 2, j \in 0 .. 2} \ {<<1, 1, 0>>}}

MCTargets == {-1, 0, 1, 4, 8, 11, 16, 18} \X {0, 3, 4, 8, 9} \X {-2, 0, 3, 8, 12, 16, 20}
=============================================================================
