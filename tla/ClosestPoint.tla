---------------------------- MODULE ClosestPoint ----------------------------
(***************************************************************************)
(* The closest-point search of one query point in                          *)
(* Impl::ComputeClosestPoints: rtcPointQuery traverses the BVH with a      *)
(* query sphere of radius query.radius (initially +inf) and calls          *)
(* ClosestPointFunc for every triangle whose bounds meet the sphere, in    *)
(* traversal order.  The callback computes the distance d from the query  *)
(* point to the triangle; when d < radius it shrinks the radius to d and   *)
(* records the triangle as the result, so later triangles whose bounds lie *)
(* beyond the new radius are culled.                                       *)
(*                                                                         *)
(* Distances are abstracted to naturals: dist[x] is the distance to        *)
(* triangle x, lb[x] <= dist[x] the distance to its bounding box.  The     *)
(* closest point on x is abstracted to x itself.                           *)
(***************************************************************************)
EXTENDS Naturals, Sequences

CONSTANTS
    Triangles,  \* (geomID, primID) pairs a scene may hold
    MaxDist,    \* bound on the abstract distances
    INVALID_ID, \* RTC_INVALID_GEOMETRY_ID
    Garbage     \* an uninitialised embree::Vec3f

ASSUME ClosestPointAssumption ==
    /\ MaxDist \in Nat
    /\ INVALID_ID \notin Triangles /\ Garbage \notin Triangles

(* query.radius = std::numeric_limits<float>::infinity()                  *)
Infinity == MaxDist + 1

VARIABLES
    scene,   \* the triangles of the scene (input)
    dist,    \* dist[x]: distance from the query point to triangle x (input)
    lb,      \* lb[x]: distance from the query point to x's bounds (input)
    visited, \* the triangles passed to ClosestPointFunc, in order
    radius,  \* query.radius
    result   \* ClosestPointResult: the point and the ids, abstracted to one

vars == <<scene, dist, lb, visited, radius, result>>

Visited == {visited[i] : i \in 1..Len(visited)}

TypeOK ==
    /\ scene \subseteq Triangles
    /\ dist \in [scene -> 0..MaxDist]
    /\ lb \in [scene -> 0..MaxDist]
    /\ visited \in Seq(scene)
    /\ radius \in 0..Infinity
    /\ result \in [p : scene \cup {Garbage}, id : scene \cup {INVALID_ID}]

(* A fresh ClosestPointResult: ids invalid, the point left uninitialised   *)
(* by the Vec3f default constructor.                                       *)
Init ==
    /\ scene \in SUBSET Triangles
    /\ dist \in [scene -> 0..MaxDist]
    /\ lb \in [scene -> 0..MaxDist]
    /\ \A x \in scene : lb[x] <= dist[x]
    /\ visited = <<>>
    /\ radius = Infinity
    /\ result = [p |-> Garbage, id |-> INVALID_ID]

(* The triangles rtcPointQuery may still hand to the callback: not yet     *)
(* visited, bounds within the current radius.                              *)
Candidates == {x \in scene \ Visited : lb[x] <= radius}

(* Mutant of ClosestPointFunc: a triangle at the current radius also       *)
(* replaces the result (<= for <).                                         *)
ClosestPointFunc_LessEq(x) ==
    /\ visited' = Append(visited, x)
    /\ IF dist[x] <= radius
         THEN /\ radius' = dist[x]
              /\ result' = [p |-> x, id |-> x]
         ELSE UNCHANGED <<radius, result>>
    /\ UNCHANGED <<scene, dist, lb>>

(* ClosestPointFunc for triangle x: closestPointTriangle, distance, and    *)
(* the update of radius and result when strictly closer.                   *)
ClosestPointFunc(x) ==
    /\ visited' = Append(visited, x)
    /\ IF dist[x] < radius
         THEN /\ radius' = dist[x]
              /\ result' = [p |-> x, id |-> x]
         ELSE UNCHANGED <<radius, result>>
    /\ UNCHANGED <<scene, dist, lb>>

Next == \E x \in Candidates : ClosestPointFunc(x)

(* rtcPointQuery returns when nothing is left to visit.                   *)
Done == Candidates = {}

Spec == Init /\ [][Next]_vars

-----------------------------------------------------------------------------
(* Properties *)

MinDist == CHOOSE d \in {dist[x] : x \in scene} : \A x \in scene : d <= dist[x]

(* When rtcPointQuery returns on a non-empty scene, the result is a        *)
(* triangle at the least distance over the whole scene, despite the        *)
(* triangles culled by the shrinking radius, and among the triangles at    *)
(* that distance it is the first one traversal reached.                    *)
ClosestIsFirstMinimal ==
    Done /\ scene # {} =>
        /\ result.id \in scene
        /\ dist[result.id] = MinDist
        /\ \A i \in 1..Len(visited) :
              dist[visited[i]] = MinDist => visited[i] = result.id \/
                  \E j \in 1..i - 1 : visited[j] = result.id

(* Spec section 7: a miss is encoded by sentinel values in the result,    *)
(* never by undefined data: the point ComputeDistance subtracts is a       *)
(* defined value.                                                          *)
MissIsSentinel ==
    Done => result.p # Garbage

=============================================================================
