--------------------------- MODULE MC_ClosestPoint ---------------------------
(* Three triangles over two geometries, distances 0..2: equal distances,  *)
(* bounds that let a far triangle be culled, and the empty scene.          *)
EXTENDS ClosestPoint, TLC

MC_Triangles == {<<0, 0>>, <<0, 1>>, <<1, 0>>}
=============================================================================
