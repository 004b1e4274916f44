------------------------- MODULE ClosestPointProofs -------------------------
(***************************************************************************)
(* Proof that the shrinking-radius search of ComputeClosestPoints returns  *)
(* the first closest triangle (module ClosestPoint), for every set of      *)
(* triangles, every distance bound and every traversal order.              *)
(***************************************************************************)
EXTENDS ClosestPoint, SequenceTheorems, TLAPS

(* The inductive invariant.  The radius is +inf exactly while no triangle  *)
(* has been recorded; once one is, the radius is its distance and it was   *)
(* visited.  No visited triangle is closer than the radius, and every      *)
(* visited triangle at the radius comes at or after the recorded one.      *)
(* Bounds never exceed distances.                                          *)
RadiusIsResult ==
    /\ result.id = INVALID_ID <=> radius = Infinity
    /\ result.id # INVALID_ID =>
           /\ result.id \in Visited
           /\ radius = dist[result.id]
    /\ Visited # {} => result.id # INVALID_ID

VisitedNotCloser ==
    \A i \in 1..Len(visited) :
        /\ radius <= dist[visited[i]]
        /\ dist[visited[i]] = radius => \E j \in 1..i : visited[j] = result.id

CInv ==
    /\ TypeOK
    /\ \A x \in scene : lb[x] <= dist[x]
    /\ RadiusIsResult
    /\ VisitedNotCloser

(* A query starts with no triangle visited, radius +inf and no result.     *)
LEMMA CInvInit == Init => CInv
<1> SUFFICES ASSUME Init PROVE CInv
  OBVIOUS
<1>1. Visited = {} /\ Len(visited) = 0
  BY DEF Init, Visited
<1>2. TypeOK
  BY ClosestPointAssumption DEF Init, TypeOK, Infinity
<1>3. RadiusIsResult
  BY <1>1, ClosestPointAssumption DEF Init, RadiusIsResult
<1>4. QED
  BY <1>1, <1>2, <1>3 DEF Init, CInv, VisitedNotCloser

(* One call of ClosestPointFunc keeps the invariant.                       *)
LEMMA CInvStep == CInv /\ [Next]_vars => CInv'
<1> USE ClosestPointAssumption
<1> SUFFICES ASSUME CInv, [Next]_vars PROVE CInv'
  OBVIOUS
<1>1. ASSUME NEW x \in Candidates, ClosestPointFunc(x) PROVE CInv'
  <2> DEFINE n == Len(visited)
  <2>1. /\ x \in scene /\ x \notin Visited /\ lb[x] <= radius
        /\ visited \in Seq(scene) /\ n \in Nat
        /\ radius \in 0..Infinity /\ dist[x] \in 0..MaxDist
    BY LenProperties DEF Candidates, CInv, TypeOK
  <2>2. /\ visited' \in Seq(scene)
        /\ Len(visited') = n + 1
        /\ \A i \in 1..n : visited'[i] = visited[i]
        /\ visited'[n + 1] = x
    BY <1>1, <2>1, AppendProperties DEF ClosestPointFunc
  <2>3. Visited' = Visited \cup {x}
    BY <2>2 DEF Visited
  <2>4. UNCHANGED <<scene, dist, lb>>
    BY <1>1 DEF ClosestPointFunc
  <2>5. CASE dist[x] < radius
    <3>1. radius' = dist[x] /\ result' = [p |-> x, id |-> x]
      BY <1>1, <2>5 DEF ClosestPointFunc
    <3>2. TypeOK'
      BY <2>1, <2>2, <2>4, <3>1 DEF CInv, TypeOK, Infinity
    <3>3. RadiusIsResult'
      <4>1. x # INVALID_ID /\ dist[x] # Infinity
        BY <2>1 DEF CInv, TypeOK, Infinity
      <4>2. QED
        BY <4>1, <2>1, <2>3, <2>4, <3>1 DEF RadiusIsResult
    <3>4. VisitedNotCloser'
      <4> SUFFICES ASSUME NEW i \in 1..n + 1
                   PROVE /\ radius' <= dist'[visited'[i]]
                         /\ dist'[visited'[i]] = radius' =>
                              \E j \in 1..i : visited'[j] = result'.id
        BY <2>2 DEF VisitedNotCloser
      <4>1. CASE i \in 1..n
        <5>1. visited[i] \in scene
          BY <4>1, <2>1, ElementOfSeq
        <5>2. dist[visited[i]] \in Nat
          BY <5>1 DEF CInv, TypeOK
        <5>3. radius <= dist[visited[i]]
          BY <4>1 DEF CInv, VisitedNotCloser
        <5>4. QED
          BY <4>1, <5>2, <5>3, <2>1, <2>2, <2>4, <2>5, <3>1 DEF Infinity
      <4>2. CASE i = n + 1
        BY <4>2, <2>2, <2>4, <3>1, <2>1
      <4>3. QED
        BY <4>1, <4>2, <2>1
    <3>5. QED
      BY <3>2, <3>3, <3>4, <2>4 DEF CInv
  <2>6. CASE ~(dist[x] < radius)
    <3>1. UNCHANGED <<radius, result>>
      BY <1>1, <2>6 DEF ClosestPointFunc
    <3>2. radius # Infinity
      BY <2>1, <2>6 DEF Infinity
    <3>3. /\ result.id \in Visited
          /\ radius = dist[result.id]
      BY <3>2 DEF CInv, RadiusIsResult
    <3>4. PICK k \in 1..n : visited[k] = result.id
      BY <3>3 DEF Visited
    <3>5. TypeOK'
      BY <2>2, <2>4, <3>1 DEF CInv, TypeOK
    <3>6. RadiusIsResult'
      BY <2>3, <2>4, <3>1, <3>3 DEF CInv, RadiusIsResult
    <3>7. VisitedNotCloser'
      <4> SUFFICES ASSUME NEW i \in 1..n + 1
                   PROVE /\ radius' <= dist'[visited'[i]]
                         /\ dist'[visited'[i]] = radius' =>
                              \E j \in 1..i : visited'[j] = result'.id
        BY <2>2 DEF VisitedNotCloser
      <4>1. CASE i \in 1..n
        <5>1. /\ radius <= dist[visited[i]]
              /\ dist[visited[i]] = radius => \E j \in 1..i : visited[j] = result.id
          BY <4>1 DEF CInv, VisitedNotCloser
        <5>2. QED
          BY <4>1, <5>1, <2>2, <2>4, <3>1
      <4>2. CASE i = n + 1
        <5>1. radius <= dist[x]
          BY <2>1, <2>6
        <5>2. visited'[k] = result'.id /\ k \in 1..i
          BY <4>2, <3>4, <2>2, <3>1
        <5>3. QED
          BY <4>2, <5>1, <5>2, <2>2, <2>4, <3>1
      <4>3. QED
        BY <4>1, <4>2, <2>1
    <3>8. QED
      BY <3>5, <3>6, <3>7, <2>4 DEF CInv
  <2>7. QED
    BY <2>5, <2>6
<1>2. CASE UNCHANGED vars
  BY <1>2 DEF vars, CInv, TypeOK, RadiusIsResult, VisitedNotCloser, Visited
<1>3. QED
  BY <1>1, <1>2 DEF Next

(* When traversal is over on a non-empty scene the invariant gives the     *)
(* property: every unvisited triangle was culled, so its bound, and hence  *)
(* its distance, lies beyond the radius, and the radius is the minimum.    *)
LEMMA CInvDone == CInv => ClosestIsFirstMinimal
<1> USE ClosestPointAssumption
<1> SUFFICES ASSUME CInv, Done, scene # {} PROVE ClosestIsFirstMinimal
  BY DEF ClosestIsFirstMinimal
<1>1. \A y \in scene : y \notin Visited => radius < lb[y]
  BY DEF Done, Candidates, CInv, TypeOK
<1>2. result.id # INVALID_ID
  <2>1. PICK y \in scene : TRUE
    OBVIOUS
  <2>2. CASE y \notin Visited
    <3>1. radius < lb[y] /\ lb[y] \in 0..MaxDist /\ radius \in 0..Infinity
      BY <1>1, <2>2 DEF CInv, TypeOK
    <3>2. radius # Infinity
      BY <3>1 DEF Infinity
    <3>3. QED
      BY <3>2 DEF CInv, RadiusIsResult
  <2>3. CASE y \in Visited
    BY <2>3 DEF CInv, RadiusIsResult
  <2>4. QED
    BY <2>2, <2>3
<1>3. result.id \in scene /\ radius = dist[result.id]
  BY <1>2, ElementOfSeq DEF CInv, RadiusIsResult, TypeOK, Visited
<1>4. \A y \in scene : radius <= dist[y]
  <2> SUFFICES ASSUME NEW y \in scene PROVE radius <= dist[y]
    OBVIOUS
  <2>1. CASE y \in Visited
    BY <2>1 DEF CInv, VisitedNotCloser, Visited
  <2>2. CASE y \notin Visited
    BY <2>2, <1>1 DEF CInv, TypeOK
  <2>3. QED
    BY <2>1, <2>2
<1>5. MinDist = radius
  <2>1. \E d \in {dist[y] : y \in scene} : \A y \in scene : d <= dist[y]
    BY <1>3, <1>4
  <2>2. /\ MinDist \in {dist[y] : y \in scene}
        /\ \A y \in scene : MinDist <= dist[y]
    BY <2>1 DEF MinDist
  <2>3. QED
    BY <2>2, <1>3, <1>4 DEF CInv, TypeOK
<1>6. \A i \in 1..Len(visited) :
         dist[visited[i]] = MinDist =>
            visited[i] = result.id \/ \E j \in 1..i - 1 : visited[j] = result.id
  <2> SUFFICES ASSUME NEW i \in 1..Len(visited), dist[visited[i]] = MinDist
               PROVE visited[i] = result.id \/ \E j \in 1..i - 1 : visited[j] = result.id
    OBVIOUS
  <2>1. PICK j \in 1..i : visited[j] = result.id
    BY <1>5 DEF CInv, VisitedNotCloser
  <2>2. QED
    BY <2>1
<1>7. QED
  BY <1>3, <1>5, <1>6 DEF ClosestIsFirstMinimal

(* ComputeClosestPoints answers every query point on a non-empty scene     *)
(* with a triangle at the least distance, and with the first one the BVH   *)
(* traversal reached at that distance, whatever the order and however many *)
(* triangles the shrinking radius culled.                                  *)
THEOREM ClosestIsFirstMinimalHolds == Spec => []ClosestIsFirstMinimal
BY CInvInit, CInvStep, CInvDone, PTL DEF Spec

=============================================================================
