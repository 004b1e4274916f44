--------------------------- MODULE CrossingCounter ---------------------------
(***************************************************************************)
(* The crossing count of one ray in RaycastingScene::CountIntersections:   *)
(* Embree calls the filter CountIntersectionsFunc for every candidate hit  *)
(* it finds while traversing the BVH, in traversal order (not sorted by    *)
(* distance).  The filter keeps, per ray, the (geomID, primID, tfar) of    *)
(* the last hit it counted, counts a hit when it differs from that triple  *)
(* by the rule of line 115, and always rejects the hit (valid = 0) so that *)
(* tfar never shrinks and traversal goes on along the whole ray.           *)
(*                                                                         *)
(* The input is the set of triangles the ray meets, grouped in crossings:  *)
(* a crossing of a mesh surface meets one triangle, two triangles at a     *)
(* shared edge, or more at a shared vertex, all of one geometry and at one *)
(* distance.  Distances are abstracted to naturals: crossing at position   *)
(* i is at distance 2 * i.  Embree computes a hit's t per triangle, so the *)
(* triangles of one crossing may report t values that differ in the last   *)
(* bits: with TieJitter a hit may carry 2 * i + 1 instead.                 *)
(***************************************************************************)
EXTENDS Naturals, Sequences, FiniteSets

CONSTANTS
    Geoms,             \* geometry ids of the scene
    Prims,             \* primitive ids within a geometry
    MaxCrossings,      \* bound on the crossings along the ray
    MaxHits,           \* bound on the candidate hits along the ray
    TieJitter,         \* hits of one crossing may report distinct t values
    AdjacentTraversal, \* Embree delivers the hits of a crossing one after the other
    INVALID_ID         \* RTC_INVALID_GEOMETRY_ID

ASSUME CountConstantsAssumption ==
    /\ MaxCrossings \in Nat /\ MaxHits \in Nat
    /\ TieJitter \in BOOLEAN /\ AdjacentTraversal \in BOOLEAN
    /\ INVALID_ID \notin Geoms \cup Prims

(* ray.tfar = std::numeric_limits<float>::infinity(): beyond every hit.   *)
Infinity == 2 * MaxCrossings + 2

Hit == [ev : 1..MaxCrossings, geom : Geoms, prim : Prims, t : 0..Infinity]

VARIABLES
    hits,          \* the candidate hits of the ray (input, fixed in a call)
    order,         \* the hits passed to the filter so far, in order
    prev,          \* previous_geom_prim_ID_tfar[ray_id]
    intersections, \* intersections[ray_id]
    tfar           \* ray.tfar, the far end of the ray's valid range

vars == <<hits, order, prev, intersections, tfar>>

(* The ray scenarios that geometry allows: crossing e lies on geometry     *)
(* g[e], meets the non-empty set ps[e] of its triangles at position pos[e] *)
(* (positions non-decreasing in e); two crossings of one geometry share no *)
(* triangle and no position.                                               *)
Scenario(k, g, ps, pos) ==
    /\ \A e \in 1..k - 1 : pos[e] <= pos[e + 1]
    /\ \A e, f \in 1..k : e # f /\ g[e] = g[f] =>
           ps[e] \cap ps[f] = {} /\ pos[e] # pos[f]

HitsOf(k, g, ps, pos, jit) ==
    UNION {{[ev |-> e, geom |-> g[e], prim |-> p,
             t |-> 2 * pos[e] + jit[<<e, p>>]] : p \in ps[e]} : e \in 1..k}

Delivered == {order[i] : i \in 1..Len(order)}

Crossings == {h.ev : h \in hits}

(* Mutant of CountsAsNew: the t comparison is dropped, so two triangles of *)
(* one crossing count twice.                                               *)
CountsAsNew_NoT(p, h) ==
    \/ p.geom # h.geom
    \/ p.prim # h.prim

(* The line-115 test: the hit is counted when its geometry differs from    *)
(* the previous counted one, or both its primitive and its t differ.       *)
CountsAsNew(p, h) ==
    \/ p.geom # h.geom
    \/ p.prim # h.prim /\ p.t # h.t

TypeOK ==
    /\ hits \subseteq Hit
    /\ order \in Seq(Hit)
    /\ prev \in [geom : Geoms \cup {INVALID_ID}, prim : Prims \cup {INVALID_ID},
                 t : 0..Infinity]
    /\ intersections \in Nat
    /\ tfar \in 0..Infinity

(* Impl::CountIntersections for one ray: intersections zeroed by memset,   *)
(* previous triple (INVALID, INVALID, 0), ray range [0, +inf).             *)
Init ==
    /\ \E k \in 0..MaxCrossings :
       \E g \in [1..k -> Geoms], ps \in [1..k -> SUBSET Prims \ {{}}],
         pos \in [1..k -> 1..k] :
          \E jit \in [UNION {{<<e, p>> : p \in ps[e]} : e \in 1..k} ->
                        IF TieJitter THEN {0, 1} ELSE {0}] :
              /\ Scenario(k, g, ps, pos)
              /\ Cardinality(HitsOf(k, g, ps, pos, jit)) <= MaxHits
              /\ hits = HitsOf(k, g, ps, pos, jit)
    /\ order = <<>>
    /\ prev = [geom |-> INVALID_ID, prim |-> INVALID_ID, t |-> 0]
    /\ intersections = 0
    /\ tfar = Infinity

(* The hits Embree may pass to the filter next: not yet passed, within the *)
(* ray's range; with AdjacentTraversal, a started crossing is finished     *)
(* before another one is begun.                                            *)
Candidates ==
    {h \in hits \ Delivered :
        /\ h.t <= tfar
        /\ AdjacentTraversal /\ order # <<>> =>
              \/ h.ev = order[Len(order)].ev
              \/ \A x \in hits : x.ev = order[Len(order)].ev => x \in Delivered}

(* Mutant of CountIntersectionsFunc: the hit is not rejected, so Embree    *)
(* shrinks tfar to it and culls the hits beyond.                           *)
CountIntersectionsFunc_KeepHit(h) ==
    /\ order' = Append(order, h)
    /\ IF CountsAsNew(prev, h)
         THEN /\ intersections' = intersections + 1
              /\ prev' = [geom |-> h.geom, prim |-> h.prim, t |-> h.t]
         ELSE UNCHANGED <<intersections, prev>>
    /\ tfar' = h.t
    /\ UNCHANGED hits

(* CountIntersectionsFunc for one valid ray of the packet and hit h.       *)
CountIntersectionsFunc(h) ==
    /\ order' = Append(order, h)
    /\ IF CountsAsNew(prev, h)
         THEN /\ intersections' = intersections + 1
              /\ prev' = [geom |-> h.geom, prim |-> h.prim, t |-> h.t]
         ELSE UNCHANGED <<intersections, prev>>
    /\ UNCHANGED <<hits, tfar>>

Next == \E h \in Candidates : CountIntersectionsFunc(h)

(* The traversal ends when no candidate is left: rtcIntersect1M returns.   *)
Done == Candidates = {}

Spec == Init /\ [][Next]_vars

-----------------------------------------------------------------------------
(* Properties *)

(* The hits of every crossing reached the filter one after the other.      *)
CrossingsAdjacent ==
    \A i, j \in 1..Len(order) :
        i < j /\ order[i].ev = order[j].ev =>
            \A l \in i..j : order[l].ev = order[i].ev

(* Every triangle of a crossing reported the same t.                       *)
TiesExact == \A h, x \in hits : h.ev = x.ev => h.t = x.t

(* No two geometries are crossed at the same distance.                     *)
NoTouching == \A h, x \in hits : h.geom # x.geom => h.t # x.t

(* Whatever the traversal order, every crossing of the ray is counted at   *)
(* least once when CountIntersections returns: the filter never swallows   *)
(* the first hit of a crossing.                                            *)
CountNoLoss ==
    Done => intersections >= Cardinality(Crossings)

(* When the hits of each crossing reach the filter adjacently, carry equal *)
(* t, and no two geometries meet the ray at one distance, the count is     *)
(* exactly the number of crossings: shared-edge and shared-vertex          *)
(* duplicates are all suppressed.                                          *)
CountExactWhenAdjacent ==
    Done /\ CrossingsAdjacent /\ TiesExact /\ NoTouching =>
        intersections = Cardinality(Crossings)

(* Spec section 4.3: for a closed surface (one geometry) the count has     *)
(* the parity of the true number of crossings, the inside/outside test of  *)
(* ComputeSignedDistance and ComputeOccupancy.                             *)
ParityExact ==
    Done /\ Cardinality({h.geom : h \in hits}) <= 1 =>
        intersections % 2 = Cardinality(Crossings) % 2

=============================================================================
