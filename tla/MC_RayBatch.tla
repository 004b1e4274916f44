----------------------------- MODULE MC_RayBatch -----------------------------
(* Up to five rays in batches of two: one, two and three batches, a       *)
(* partial last batch, and the empty call.                                *)
EXTENDS RayBatch, TLC

MC_Answers == {1, 2}

(* One geometry, and every kind of Ng the float arithmetic tells apart.   *)
MC_Geoms == {"g0"}
MC_NgClasses == {"regular", "zero", "underflow", "overflow"}
=============================================================================
