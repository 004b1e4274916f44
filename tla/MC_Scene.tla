------------------------------ MODULE MC_Scene ------------------------------
(* Scene with two meshes and up to three attached geometries: enough for a *)
(* registry shift after a failed push_back to show on a later geometry.    *)
EXTENDS Scene, TLC

MC_Meshes == {"m1", "m2"}
=============================================================================
