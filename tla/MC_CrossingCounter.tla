-------------------------- MODULE MC_CrossingCounter --------------------------
(* Two geometries of three triangles each, up to three crossings and four *)
(* hits along the ray: room for a shared-edge crossing next to a second    *)
(* crossing of the same mesh, and for two meshes touching at one point.   *)
EXTENDS CrossingCounter, TLC

MC_Geoms == {0, 1}
MC_Prims == {0, 1, 2}
=============================================================================
