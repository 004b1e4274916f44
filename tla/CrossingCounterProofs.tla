------------------------ MODULE CrossingCounterProofs ------------------------
(***************************************************************************)
(* Proof that the filter CountIntersectionsFunc (module CrossingCounter)   *)
(* counts every crossing of a ray at least once, for every scene the mesh  *)
(* geometry allows, every traversal order and every bound.                 *)
(***************************************************************************)
EXTENDS CrossingCounter, FiniteSetTheorems, SequenceTheorems, TLAPS

(* The crossings whose hits have reached the filter.                      *)
DeliveredCrossings == {d.ev : d \in Delivered}

(* What the geometry guarantees of the hits of one ray: two hits of one    *)
(* geometry on different crossings lie on different triangles and report  *)
(* different t, even with the jitter of Embree's per-triangle t.           *)
HitsSeparated ==
    \A x, y \in hits :
        x.geom = y.geom /\ x.ev # y.ev => x.prim # y.prim /\ x.t # y.t

(* All hits of one crossing lie on one geometry.                           *)
CrossingOneGeom ==
    \A x, y \in hits : x.ev = y.ev => x.geom = y.geom

(* The previous triple is the initial one or that of a delivered hit.     *)
PrevDelivered ==
    \/ prev.geom = INVALID_ID
    \/ \E d \in Delivered : prev = [geom |-> d.geom, prim |-> d.prim, t |-> d.t]

(* The inductive invariant: the hits are well formed and never culled      *)
(* (the filter rejects every hit, so tfar stays +inf), and the counter is  *)
(* at least the number of crossings delivered so far.                      *)
NInv ==
    /\ hits \subseteq Hit
    /\ HitsSeparated
    /\ order \in Seq(hits)
    /\ tfar = Infinity
    /\ PrevDelivered
    /\ intersections \in Nat
    /\ intersections >= Cardinality(DeliveredCrossings)

(* The crossings met by a set of hits are finitely many: they are numbered *)
(* 1..MaxCrossings.                                                        *)
LEMMA CrossingsFinite ==
    ASSUME NEW S \in SUBSET Hit
    PROVE  IsFiniteSet({d.ev : d \in S})
<1>1. {d.ev : d \in S} \subseteq 1..MaxCrossings
  BY DEF Hit
<1>2. IsFiniteSet(1..MaxCrossings)
  BY CountConstantsAssumption, FS_Interval
<1>3. QED
  BY <1>1, <1>2, FS_Subset

(* The distance of the hit of crossing e at position a, jittered by i,    *)
(* lies within the ray's range.                                           *)
LEMMA JitterInRange ==
    ASSUME NEW M \in Nat, NEW K \in 0..M, NEW e \in 1..K, NEW a \in 1..K,
           NEW i \in {0, 1}
    PROVE  e \in 1..M /\ 2 * a + i \in 0..2 * M + 2
OBVIOUS

(* Two crossings at different positions never report the same distance,   *)
(* whatever their jitter.                                                  *)
LEMMA JitterApart ==
    ASSUME NEW M \in Nat, NEW K \in 0..M, NEW a \in 1..K, NEW b \in 1..K, a # b,
           NEW i \in {0, 1}, NEW j \in {0, 1}
    PROVE  2 * a + i # 2 * b + j
OBVIOUS

(* Every scenario Init allows is one of well-formed, separated hits: a hit *)
(* of crossing e on triangle p is at 2 * pos[e] plus a jitter of 0 or 1.   *)
LEMMA InitHits == Init => hits \subseteq Hit /\ HitsSeparated /\ CrossingOneGeom
<1> USE CountConstantsAssumption
<1> SUFFICES ASSUME Init PROVE hits \subseteq Hit /\ HitsSeparated /\ CrossingOneGeom
  OBVIOUS
<1>1. PICK k \in 0..MaxCrossings :
         \E g \in [1..k -> Geoms], ps \in [1..k -> SUBSET Prims \ {{}}],
           pos \in [1..k -> 1..k] :
            \E jit \in [UNION {{<<e, p>> : p \in ps[e]} : e \in 1..k} ->
                          IF TieJitter THEN {0, 1} ELSE {0}] :
                /\ Scenario(k, g, ps, pos)
                /\ hits = HitsOf(k, g, ps, pos, jit)
  BY DEF Init
<1>2. PICK g \in [1..k -> Geoms], ps \in [1..k -> SUBSET Prims \ {{}}],
           pos \in [1..k -> 1..k] :
         \E jit \in [UNION {{<<e, p>> : p \in ps[e]} : e \in 1..k} ->
                       IF TieJitter THEN {0, 1} ELSE {0}] :
             /\ Scenario(k, g, ps, pos)
             /\ hits = HitsOf(k, g, ps, pos, jit)
  BY <1>1
<1>3. PICK jit \in [UNION {{<<e, p>> : p \in ps[e]} : e \in 1..k} ->
                      IF TieJitter THEN {0, 1} ELSE {0}] :
         /\ Scenario(k, g, ps, pos)
         /\ hits = HitsOf(k, g, ps, pos, jit)
  BY <1>2
(* The hit of crossing e on triangle p.                                    *)
<1> DEFINE HitAt(e, p) ==
             [ev |-> e, geom |-> g[e], prim |-> p, t |-> 2 * pos[e] + jit[<<e, p>>]]
<1>4. ASSUME NEW e \in 1..k, NEW p \in ps[e]
      PROVE  /\ p \in Prims /\ g[e] \in Geoms
             /\ pos[e] \in 1..k /\ jit[<<e, p>>] \in {0, 1}
  <2>1. <<e, p>> \in UNION {{<<e2, p2>> : p2 \in ps[e2]} : e2 \in 1..k}
    OBVIOUS
  <2>2. QED
    BY <2>1
<1>5. \A x \in hits : \E e \in 1..k : \E p \in ps[e] : x = HitAt(e, p)
  <2> SUFFICES ASSUME NEW x \in hits
               PROVE  \E e \in 1..k : \E p \in ps[e] : x = HitAt(e, p)
    OBVIOUS
  <2>1. PICK T \in {{HitAt(e, p) : p \in ps[e]} : e \in 1..k} : x \in T
    BY <1>3 DEF HitsOf
  <2>2. PICK e \in 1..k : T = {HitAt(e, p) : p \in ps[e]}
    BY <2>1
  <2>3. QED
    BY <2>1, <2>2
<1>6. hits \subseteq Hit
  <2> SUFFICES ASSUME NEW x \in hits PROVE x \in Hit
    OBVIOUS
  <2>1. PICK e \in 1..k : \E p \in ps[e] : x = HitAt(e, p)
    BY <1>5
  <2>2. PICK p \in ps[e] : x = HitAt(e, p)
    BY <2>1
  <2>3. /\ p \in Prims /\ g[e] \in Geoms
        /\ pos[e] \in 1..k /\ jit[<<e, p>>] \in {0, 1}
    BY <1>4
  <2>4. e \in 1..MaxCrossings /\ 2 * pos[e] + jit[<<e, p>>] \in 0..Infinity
    BY <1>1, <2>3, JitterInRange, Zenon DEF Infinity
  <2>5. QED
    BY <2>2, <2>3, <2>4 DEF Hit
<1>7. HitsSeparated
  <2> SUFFICES ASSUME NEW x \in hits, NEW y \in hits, x.geom = y.geom, x.ev # y.ev
               PROVE  x.prim # y.prim /\ x.t # y.t
    BY DEF HitsSeparated
  <2>1. PICK e \in 1..k : \E p \in ps[e] : x = HitAt(e, p)
    BY <1>5
  <2>2. PICK p \in ps[e] : x = HitAt(e, p)
    BY <2>1
  <2>3. PICK f \in 1..k : \E q \in ps[f] : y = HitAt(f, q)
    BY <1>5
  <2>4. PICK q \in ps[f] : y = HitAt(f, q)
    BY <2>3
  <2>5. e # f /\ g[e] = g[f]
    BY <2>2, <2>4
  <2>6. ps[e] \cap ps[f] = {} /\ pos[e] # pos[f]
    BY <1>3, <2>5 DEF Scenario
  <2>7. p # q
    BY <2>6
  <2>8. 2 * pos[e] + jit[<<e, p>>] # 2 * pos[f] + jit[<<f, q>>]
    <3>1. pos[e] \in 1..k /\ jit[<<e, p>>] \in {0, 1}
      BY <1>4
    <3>2. pos[f] \in 1..k /\ jit[<<f, q>>] \in {0, 1}
      BY <1>4
    <3>3. QED
      BY <1>1, <2>6, <3>1, <3>2, JitterApart, Zenon
  <2>9. QED
    BY <2>2, <2>4, <2>7, <2>8
<1>8. CrossingOneGeom
  <2> SUFFICES ASSUME NEW x \in hits, NEW y \in hits, x.ev = y.ev
               PROVE  x.geom = y.geom
    BY DEF CrossingOneGeom
  <2>1. PICK e \in 1..k : \E p \in ps[e] : x = HitAt(e, p)
    BY <1>5
  <2>2. PICK f \in 1..k : \E q \in ps[f] : y = HitAt(f, q)
    BY <1>5
  <2>3. QED
    BY <2>1, <2>2
<1>9. QED
  BY <1>6, <1>7, <1>8

(* The triple the filter stores for a counted hit.                         *)
Triple(h) == [geom |-> h.geom, prim |-> h.prim, t |-> h.t]

(* A ray starts with nothing delivered and nothing counted.                *)
LEMMA NInvInit == Init => NInv
<1> SUFFICES ASSUME Init PROVE NInv
  OBVIOUS
<1>1. hits \subseteq Hit /\ HitsSeparated
  BY InitHits
<1>2. Delivered = {} /\ DeliveredCrossings = {}
  BY DEF Init, Delivered, DeliveredCrossings
<1>3. Cardinality(DeliveredCrossings) = 0
  BY <1>2, FS_EmptySet
<1>4. QED
  BY <1>1, <1>3 DEF Init, NInv, PrevDelivered

(* A hit of a crossing not delivered before is always counted: the         *)
(* previous triple is the initial one, whose geometry is INVALID, or that  *)
(* of a hit of another crossing, which differs from it in geometry, or in  *)
(* both primitive and t.                                                   *)
LEMMA NewCrossingCounted ==
    ASSUME NInv, NEW h \in hits, h.ev \notin DeliveredCrossings
    PROVE  CountsAsNew(prev, h)
<1> USE CountConstantsAssumption
<1>1. h.geom \in Geoms
  BY DEF NInv, Hit
<1>2. CASE prev.geom = INVALID_ID
  BY <1>1, <1>2 DEF CountsAsNew
<1>3. CASE \E d \in Delivered : prev = Triple(d)
  <2>1. PICK d \in Delivered : prev = Triple(d)
    BY <1>3
  <2>2. d \in hits /\ d.ev # h.ev
    <3>1. d \in hits
      BY <2>1, ElementOfSeq DEF NInv, Delivered
    <3>2. QED
      BY <2>1, <3>1 DEF DeliveredCrossings
  <2>3. d.geom = h.geom => d.prim # h.prim /\ d.t # h.t
    BY <2>2 DEF NInv, HitsSeparated
  <2>4. QED
    BY <2>1, <2>3 DEF CountsAsNew, Triple
<1>4. QED
  BY <1>2, <1>3 DEF NInv, PrevDelivered, Triple

(* One call of the filter appends the hit to the delivered ones, and adds *)
(* its crossing to the crossings delivered.                                *)
LEMMA DeliverStep ==
    ASSUME NInv, NEW h \in hits, CountIntersectionsFunc(h)
    PROVE  /\ order' \in Seq(hits)
           /\ \A i \in 1..Len(order) : order'[i] = order[i]
           /\ Len(order') = Len(order) + 1
           /\ order'[Len(order) + 1] = h
           /\ Delivered' = Delivered \cup {h}
           /\ DeliveredCrossings' = DeliveredCrossings \cup {h.ev}
           /\ Cardinality(DeliveredCrossings) \in Nat
           /\ Cardinality(DeliveredCrossings') =
                IF h.ev \in DeliveredCrossings THEN Cardinality(DeliveredCrossings)
                                               ELSE Cardinality(DeliveredCrossings) + 1
<1>1. UNCHANGED hits
  BY DEF CountIntersectionsFunc
<1>2. /\ order' \in Seq(hits)
      /\ \A i \in 1..Len(order) : order'[i] = order[i]
      /\ Len(order') = Len(order) + 1
      /\ order'[Len(order) + 1] = h
  BY <1>1, AppendProperties DEF CountIntersectionsFunc, NInv
<1>3. Delivered' = Delivered \cup {h}
  BY <1>2 DEF Delivered, NInv
<1>4. DeliveredCrossings' = DeliveredCrossings \cup {h.ev}
  BY <1>3 DEF DeliveredCrossings
<1>5. IsFiniteSet(DeliveredCrossings) /\ Cardinality(DeliveredCrossings) \in Nat
  <2>1. Delivered \subseteq Hit
    BY ElementOfSeq DEF NInv, Delivered
  <2>2. QED
    BY <2>1, CrossingsFinite, FS_CardinalityType DEF DeliveredCrossings
<1>6. QED
  BY <1>2, <1>3, <1>4, <1>5, FS_AddElement

(* Every call of the filter keeps the invariant.                           *)
LEMMA NInvStep == NInv /\ [Next]_vars => NInv'
<1> SUFFICES ASSUME NInv, [Next]_vars PROVE NInv'
  OBVIOUS
<1>1. ASSUME NEW h \in Candidates, CountIntersectionsFunc(h) PROVE NInv'
  <2>1. h \in hits /\ UNCHANGED <<hits, tfar>>
    BY <1>1 DEF Candidates, CountIntersectionsFunc
  <2>2. /\ order' \in Seq(hits)
        /\ Delivered' = Delivered \cup {h}
        /\ Cardinality(DeliveredCrossings) \in Nat
        /\ Cardinality(DeliveredCrossings') =
             IF h.ev \in DeliveredCrossings THEN Cardinality(DeliveredCrossings)
                                            ELSE Cardinality(DeliveredCrossings) + 1
    BY <1>1, <2>1, DeliverStep
  <2>3. (hits \subseteq Hit /\ HitsSeparated /\ order \in Seq(hits) /\ tfar = Infinity)'
    BY <2>1, <2>2 DEF NInv, HitsSeparated
  <2>4. CASE CountsAsNew(prev, h)
    <3>1. intersections' = intersections + 1 /\ prev' = Triple(h)
      BY <1>1, <2>4 DEF CountIntersectionsFunc, Triple
    <3>2. PrevDelivered'
      BY <2>2, <3>1 DEF PrevDelivered, Triple
    <3>3. QED
      BY <2>2, <2>3, <3>1, <3>2 DEF NInv
  <2>5. CASE ~CountsAsNew(prev, h)
    <3>1. UNCHANGED <<intersections, prev>>
      BY <1>1, <2>5 DEF CountIntersectionsFunc
    <3>2. h.ev \in DeliveredCrossings
      BY <2>1, <2>5, NewCrossingCounted
    <3>3. PrevDelivered'
      BY <2>2, <3>1 DEF NInv, PrevDelivered
    <3>4. QED
      BY <2>2, <2>3, <3>1, <3>2, <3>3 DEF NInv
  <2>6. QED
    BY <2>4, <2>5
<1>2. CASE UNCHANGED vars
  BY <1>2 DEF vars, NInv, HitsSeparated, PrevDelivered, DeliveredCrossings, Delivered
<1>3. QED
  BY <1>1, <1>2 DEF Next

(* When rtcIntersect1M returns the filter has seen every hit of the ray:   *)
(* it rejects each one, so tfar stays +inf and no hit is culled.           *)
LEMMA DoneDeliveredAll == NInv /\ Done => hits \subseteq Delivered
<1> SUFFICES ASSUME NInv, Done, NEW x \in hits, x \notin Delivered PROVE FALSE
  OBVIOUS
<1>1. x.t <= tfar
  BY DEF NInv, Hit
<1>2. CASE AdjacentTraversal /\ order # <<>>
  <2>1. CASE \A y \in hits : y.ev = order[Len(order)].ev => y \in Delivered
    BY <1>1, <2>1 DEF Done, Candidates
  <2>2. CASE \E y \in hits : y.ev = order[Len(order)].ev /\ y \notin Delivered
    <3>1. PICK y \in hits : y.ev = order[Len(order)].ev /\ y \notin Delivered
      BY <2>2
    <3>2. y.t <= tfar
      BY DEF NInv, Hit
    <3>3. QED
      BY <3>1, <3>2 DEF Done, Candidates
  <2>3. QED
    BY <2>1, <2>2
<1>3. CASE ~(AdjacentTraversal /\ order # <<>>)
  BY <1>1, <1>3 DEF Done, Candidates
<1>4. QED
  BY <1>2, <1>3

(* Whatever order Embree's BVH traversal hands the hits of a ray to        *)
(* CountIntersectionsFunc, each crossing of the ray is counted at least    *)
(* once: the duplicate test of line 115 never swallows the first hit of a  *)
(* crossing, for any number of crossings, triangles and geometries.        *)
THEOREM CountNoLossHolds == Spec => []CountNoLoss
<1>1. NInv => CountNoLoss
  <2> SUFFICES ASSUME NInv, Done PROVE intersections >= Cardinality(Crossings)
    BY DEF CountNoLoss
  <2>1. Delivered \subseteq hits
    BY ElementOfSeq DEF NInv, Delivered
  <2>2. Crossings = DeliveredCrossings
    BY <2>1, DoneDeliveredAll DEF Crossings, DeliveredCrossings
  <2>3. QED
    BY <2>2 DEF NInv
<1>2. QED
  BY NInvInit, NInvStep, <1>1, PTL DEF Spec

-----------------------------------------------------------------------------
(* The exact count.                                                        *)

(* While the hits of each crossing have arrived adjacently with equal t,   *)
(* the counter is the number of crossings delivered, and the stored triple *)
(* is that of a hit of the crossing delivered last.                        *)
ExactSoFar ==
    TiesExact /\ CrossingsAdjacent =>
        /\ intersections = Cardinality(DeliveredCrossings)
        /\ order # <<>> =>
              \E d \in Delivered : prev = Triple(d) /\ d.ev = order[Len(order)].ev

EInv == NInv /\ CrossingOneGeom /\ ExactSoFar

(* A ray starts with no crossing delivered and none counted.               *)
LEMMA EInvInit == Init => EInv
<1> SUFFICES ASSUME Init PROVE EInv
  OBVIOUS
<1>1. NInv /\ CrossingOneGeom
  BY NInvInit, InitHits
<1>2. Cardinality(DeliveredCrossings) = 0
  <2>1. DeliveredCrossings = {}
    BY DEF Init, Delivered, DeliveredCrossings
  <2>2. QED
    BY <2>1, FS_EmptySet
<1>3. ExactSoFar
  BY <1>2 DEF Init, ExactSoFar
<1>4. QED
  BY <1>1, <1>3 DEF EInv

(* A prefix of an order with adjacent crossings has adjacent crossings.    *)
LEMMA AdjacentPrefix ==
    ASSUME NEW s \in Seq(Hit), NEW t \in Seq(Hit), Len(s) <= Len(t),
           \A i \in 1..Len(s) : t[i] = s[i],
           \A i, j \in 1..Len(t) :
               i < j /\ t[i].ev = t[j].ev => \A l \in i..j : t[l].ev = t[i].ev
    PROVE  \A i, j \in 1..Len(s) :
               i < j /\ s[i].ev = s[j].ev => \A l \in i..j : s[l].ev = s[i].ev
<1> SUFFICES ASSUME NEW i \in 1..Len(s), NEW j \in 1..Len(s), i < j,
                    s[i].ev = s[j].ev, NEW l \in i..j
             PROVE  s[l].ev = s[i].ev
  OBVIOUS
<1>1. i \in 1..Len(t) /\ j \in 1..Len(t) /\ l \in 1..Len(s)
  OBVIOUS
<1>2. t[l].ev = t[i].ev
  BY <1>1
<1>3. QED
  BY <1>1, <1>2

(* Every call of the filter keeps the exact count while the hits of each   *)
(* crossing arrive adjacently with equal t: a hit of the crossing being    *)
(* delivered matches the stored triple in geometry and t and is not       *)
(* counted, and a hit of any other crossing starts a crossing not seen     *)
(* before and is counted.                                                  *)
LEMMA EInvStep == EInv /\ [Next]_vars => EInv'
<1> SUFFICES ASSUME EInv, [Next]_vars PROVE EInv'
  OBVIOUS
<1>1. NInv'
  BY NInvStep DEF EInv
<1>2. UNCHANGED hits
  BY DEF Next, CountIntersectionsFunc, vars
<1>3. CrossingOneGeom'
  BY <1>2 DEF EInv, CrossingOneGeom
<1>4. ASSUME NEW h \in Candidates, CountIntersectionsFunc(h) PROVE ExactSoFar'
  <2> DEFINE n == Len(order)
  <2> SUFFICES ASSUME TiesExact', CrossingsAdjacent'
               PROVE  /\ intersections' = Cardinality(DeliveredCrossings')
                      /\ \E d \in Delivered' : prev' = Triple(d) /\ d.ev = order'[n + 1].ev
    <3>1. order' # <<>> /\ Len(order') = n + 1
      BY <1>4, DeliverStep DEF Candidates, EInv
    <3>2. QED
      BY <3>1 DEF ExactSoFar
  <2>1. /\ h \in hits /\ order \in Seq(hits) /\ n \in Nat
        /\ order' \in Seq(hits)
        /\ \A i \in 1..n : order'[i] = order[i]
        /\ Len(order') = n + 1
        /\ order'[n + 1] = h
        /\ Delivered' = Delivered \cup {h}
        /\ DeliveredCrossings' = DeliveredCrossings \cup {h.ev}
        /\ Cardinality(DeliveredCrossings) \in Nat
        /\ Cardinality(DeliveredCrossings') =
             IF h.ev \in DeliveredCrossings THEN Cardinality(DeliveredCrossings)
                                            ELSE Cardinality(DeliveredCrossings) + 1
    BY <1>4, DeliverStep, LenProperties DEF Candidates, EInv, NInv
  <2>2. TiesExact /\ CrossingsAdjacent
    <3>1. TiesExact
      BY <1>2 DEF TiesExact
    <3>2. order \in Seq(Hit) /\ order' \in Seq(Hit)
      <4>1. hits \subseteq Hit
        BY DEF EInv, NInv
      <4>2. QED
        BY <2>1, <4>1
    <3>3. CrossingsAdjacent
      <4>1. Len(order) <= Len(order')
        BY <2>1
      <4>2. QED
        BY <2>1, <3>2, <4>1, AdjacentPrefix, Zenon DEF CrossingsAdjacent
    <3>4. QED
      BY <3>1, <3>3
  <2>3. /\ intersections = Cardinality(DeliveredCrossings)
        /\ order # <<>> =>
              \E d \in Delivered : prev = Triple(d) /\ d.ev = order[n].ev
    BY <2>2 DEF EInv, ExactSoFar
  <2>4. CASE order # <<>> /\ h.ev = order[n].ev
    <3>1. PICK d \in Delivered : prev = Triple(d) /\ d.ev = order[n].ev
      BY <2>3, <2>4
    <3>2. d \in hits /\ order[n] \in Delivered
      BY <2>1, <2>4, ElementOfSeq, EmptySeq DEF Delivered
    <3>3. d.geom = h.geom /\ d.t = h.t
      BY <2>1, <2>2, <2>4, <3>1, <3>2 DEF EInv, CrossingOneGeom, TiesExact
    <3>4. ~CountsAsNew(prev, h)
      BY <3>1, <3>3 DEF CountsAsNew, Triple
    <3>5. UNCHANGED <<intersections, prev>>
      BY <1>4, <3>4 DEF CountIntersectionsFunc
    <3>6. h.ev \in DeliveredCrossings
      BY <2>4, <3>2 DEF DeliveredCrossings
    <3>7. QED
      BY <2>1, <2>3, <2>4, <3>1, <3>5, <3>6
  <2>5. CASE order = <<>> \/ h.ev # order[n].ev
    <3>1. h.ev \notin DeliveredCrossings
      <4> SUFFICES ASSUME NEW i \in 1..n, order[i].ev = h.ev PROVE FALSE
        BY DEF DeliveredCrossings, Delivered
      <4>1. n \in 1..n + 1 /\ i \in 1..n + 1 /\ i < n + 1
        BY <2>1
      <4>2. order'[i].ev = order'[n + 1].ev
        BY <2>1
      <4>3. order'[n].ev = order'[i].ev
        BY <4>1, <4>2, <2>1 DEF CrossingsAdjacent
      <4>4. order # <<>>
        BY <2>1, EmptySeq
      <4>5. QED
        BY <2>1, <2>5, <4>3, <4>4
    <3>2. CountsAsNew(prev, h)
      BY <2>1, <3>1, NewCrossingCounted DEF EInv
    <3>3. intersections' = intersections + 1 /\ prev' = Triple(h)
      BY <1>4, <3>2 DEF CountIntersectionsFunc, Triple
    <3>4. QED
      BY <2>1, <2>3, <3>1, <3>3
  <2>6. QED
    BY <2>4, <2>5
<1>5. UNCHANGED vars => ExactSoFar'
  BY DEF vars, EInv, ExactSoFar, TiesExact, CrossingsAdjacent,
         DeliveredCrossings, Delivered
<1>6. QED
  BY <1>1, <1>3, <1>4, <1>5 DEF Next, EInv

(* When Embree hands the filter the hits of each crossing one after the   *)
(* other and the triangles of a crossing report one t, the count          *)
(* CountIntersections returns for a ray is exactly its number of           *)
(* crossings: line 115 suppresses every shared-edge and shared-vertex     *)
(* duplicate and no first hit, for any scene the mesh geometry allows.     *)
THEOREM CountExactWhenAdjacentHolds == Spec => []CountExactWhenAdjacent
<1>1. EInv => CountExactWhenAdjacent
  <2> SUFFICES ASSUME EInv, Done, CrossingsAdjacent, TiesExact, NoTouching
               PROVE  intersections = Cardinality(Crossings)
    BY DEF CountExactWhenAdjacent
  <2>1. Delivered \subseteq hits
    BY ElementOfSeq DEF EInv, NInv, Delivered
  <2>2. Crossings = DeliveredCrossings
    BY <2>1, DoneDeliveredAll DEF EInv, Crossings, DeliveredCrossings
  <2>3. QED
    BY <2>2 DEF EInv, ExactSoFar
<1>2. QED
  BY EInvInit, EInvStep, <1>1, PTL DEF Spec

=============================================================================
