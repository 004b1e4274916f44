---------------------------- MODULE SceneProofs ----------------------------
(***************************************************************************)
(* Proofs about the lazy commit of RaycastingScene (module Scene), for     *)
(* every set of meshes and every bound on the geometries.                  *)
(***************************************************************************)
EXTENDS Scene, TLAPS

(* The inductive invariant: the type, and the commit flag is only set     *)
(* while the index covers exactly the attached geometry.  QueryFresh alone *)
(* is not inductive: a query answers from index whenever the flag is set,  *)
(* so it needs CommittedIndexCurrent.                                      *)
IInv ==
    /\ TypeOK
    /\ CommittedIndexCurrent
    /\ QueryFresh

(* A new scene is well typed.                                            *)
LEMMA InitType == Init => TypeOK
<1> SUFFICES ASSUME Init PROVE TypeOK
  OBVIOUS
<1>1. scene_committed \in BOOLEAN
  BY Zenon DEF Init
<1>2. QED
  BY <1>1 DEF Init, TypeOK

(* The index of the last successful commit is a prefix of the geometry    *)
(* attached now: geometry is only ever appended, and a commit indexes all  *)
(* of it.                                                                  *)
IndexPrefix ==
    index # NoIndex =>
        /\ Len(index) <= Len(attached)
        /\ \A g \in 1..Len(index) : index[g] = attached[g]

(* Without a failing push_back, the registry follows the attached         *)
(* geometry one for one.                                                   *)
RegistryFollows ==
    ~RegistryMayFail => geometry_ptrs = attached

(* The inductive invariant for RegistryCoversIndex.                        *)
RInv ==
    /\ TypeOK
    /\ IndexPrefix
    /\ RegistryFollows

(* Each step of AddTriangles or of a query keeps the types.              *)
LEMMA TypeStep == TypeOK /\ [Next]_vars => TypeOK'
<1> SUFFICES ASSUME TypeOK, [Next]_vars PROVE TypeOK'
  OBVIOUS
<1>1. scene_committed' \in BOOLEAN
  BY Zenon DEF TypeOK, Next, vars, AddTriangles, CommitAndQuery,
              CastRays, CountIntersections, ComputeClosestPoints
<1>2. ASSUME NEW m \in Meshes, NEW o \in AddOutcomes, AddTriangles(m, o)
      PROVE (attached \in Seq(Meshes) /\ geometry_ptrs \in Seq(Meshes)
             /\ index \in Seq(Meshes) \cup {NoIndex}
             /\ lastQuery \in QueryRecord \cup {NoQuery})'
  BY <1>2 DEF AddTriangles, TypeOK
<1>3. CASE CommitAndQuery
  <2>1. (index \in Seq(Meshes) \cup {NoIndex})'
    BY <1>3 DEF CommitAndQuery, TypeOK
  <2>2. (lastQuery \in QueryRecord \cup {NoQuery})'
    BY <1>3 DEF CommitAndQuery, TypeOK, QueryRecord
  <2>3. QED
    BY <1>1, <1>3, <2>1, <2>2 DEF CommitAndQuery, TypeOK
<1>4. CASE UNCHANGED vars
  BY <1>1, <1>4 DEF vars, TypeOK
<1>5. QED
  BY <1>1, <1>2, <1>3, <1>4
     DEF TypeOK, Next, CastRays, CountIntersections, ComputeClosestPoints

(* RaycastingScene's state keeps its types: geometry and registry are     *)
(* sequences of meshes, and a query record pairs an index with the        *)
(* attached geometry.                                                     *)
THEOREM TypeCorrect == Spec => []TypeOK
<1>1. QED
  BY InitType, TypeStep, PTL DEF Spec

(* Every query of RaycastingScene (CastRays, CountIntersections,          *)
(* ComputeClosestPoints and the queries built on them) runs on an index   *)
(* of all geometry attached at that moment, whatever the sequence of      *)
(* AddTriangles calls, failed registrations and failed commits before it. *)
(* A new scene satisfies the inductive invariant.                          *)
LEMMA IInvInit == Init => IInv
BY InitType, Zenon DEF Init, IInv, CommittedIndexCurrent, QueryFresh

(* Every step keeps the inductive invariant: AddTriangles clears the flag, *)
(* a successful commit indexes exactly the attached geometry, and a failed *)
(* commit leaves the flag false.                                           *)
LEMMA IInvStep == IInv /\ [Next]_vars => IInv'
<1> SUFFICES ASSUME IInv, [Next]_vars PROVE IInv'
  OBVIOUS
<1>1. TypeOK'
  BY TypeStep DEF IInv
<1>2. ASSUME NEW m \in Meshes, NEW o \in AddOutcomes, AddTriangles(m, o)
      PROVE (CommittedIndexCurrent /\ QueryFresh)'
  BY <1>2 DEF AddTriangles, IInv, CommittedIndexCurrent, QueryFresh
<1>3. ASSUME CommitAndQuery PROVE (CommittedIndexCurrent /\ QueryFresh)'
  <2>1. CASE /\ scene_committed
             /\ lastQuery' = [index |-> index, attached |-> attached]
             /\ UNCHANGED <<attached, geometry_ptrs, scene_committed, index>>
    BY <2>1, Zenon DEF IInv, CommittedIndexCurrent, QueryFresh
  <2>2. CASE /\ ~scene_committed
             /\ index' = attached
             /\ scene_committed' = TRUE
             /\ lastQuery' = [index |-> attached, attached |-> attached]
             /\ UNCHANGED <<attached, geometry_ptrs>>
    BY <2>2, Zenon DEF CommittedIndexCurrent, QueryFresh
  <2>3. CASE /\ ~scene_committed
             /\ index' = NoIndex
             /\ UNCHANGED <<attached, geometry_ptrs, scene_committed, lastQuery>>
    BY <2>3, Zenon DEF IInv, CommittedIndexCurrent, QueryFresh
  <2>4. QED
    BY <1>3, <2>1, <2>2, <2>3 DEF CommitAndQuery
<1>4. ASSUME UNCHANGED vars PROVE (CommittedIndexCurrent /\ QueryFresh)'
  BY <1>4, Zenon DEF vars, IInv, CommittedIndexCurrent, QueryFresh
<1>5. QED
  BY <1>1, <1>2, <1>3, <1>4
     DEF IInv, Next, CastRays, CountIntersections, ComputeClosestPoints

(* Every query of RaycastingScene (CastRays, CountIntersections,          *)
(* ComputeClosestPoints and the queries built on them) runs on an index   *)
(* of all geometry attached at that moment, whatever the sequence of      *)
(* AddTriangles calls, failed registrations and failed commits before it. *)
THEOREM QueryFreshness == Spec => []QueryFresh
<1>1. IInv => QueryFresh
  BY DEF IInv
<1>2. QED
  BY IInvInit, IInvStep, <1>1, PTL DEF Spec

(* The scene_committed flag that lets a query skip rtcCommitScene is only  *)
(* ever set while the Embree index covers exactly the attached geometry:   *)
(* AddTriangles clears it and a failed commit never sets it.               *)
THEOREM CommittedIndexIsCurrent == Spec => []CommittedIndexCurrent
<1>1. IInv => CommittedIndexCurrent
  BY DEF IInv
<1>2. QED
  BY IInvInit, IInvStep, <1>1, PTL DEF Spec

(* When push_back into geometry_ptrs does not throw, every geometry id    *)
(* the committed index can report has its own buffers at that position of *)
(* the registry, so ClosestPointFunc reads the right mesh: a registration  *)
(* that fails inside Embree leaves neither the scene nor the registry      *)
(* changed.                                                                *)
THEOREM RegistryCovered == ~RegistryMayFail => (Spec => []RegistryCoversIndex)
<1> SUFFICES ASSUME ~RegistryMayFail PROVE Spec => []RegistryCoversIndex
  OBVIOUS
<1>1. Init => RInv
  BY InitType DEF Init, RInv, IndexPrefix, RegistryFollows
<1>2. RInv /\ [Next]_vars => RInv'
  <2> SUFFICES ASSUME RInv, [Next]_vars PROVE RInv'
    OBVIOUS
  <2>1. TypeOK'
    BY TypeStep DEF RInv
  <2>2. ASSUME NEW m \in Meshes, NEW o \in AddOutcomes, AddTriangles(m, o)
        PROVE (IndexPrefix /\ RegistryFollows)'
    <3>1. o \in {"ok", "provider_error"}
      BY <2>2 DEF AddOutcomes
    <3>2. CASE o = "ok"
      BY <2>2, <3>2 DEF AddTriangles, RInv, TypeOK, IndexPrefix, RegistryFollows
    <3>3. CASE o = "provider_error"
      BY <2>2, <3>3 DEF AddTriangles, RInv, TypeOK, IndexPrefix, RegistryFollows
    <3>4. QED
      BY <3>1, <3>2, <3>3
  <2>3. ASSUME CommitAndQuery PROVE (IndexPrefix /\ RegistryFollows)'
    BY <2>3 DEF CommitAndQuery, RInv, TypeOK, IndexPrefix, RegistryFollows
  <2>4. ASSUME UNCHANGED vars PROVE (IndexPrefix /\ RegistryFollows)'
    BY <2>4 DEF vars, RInv, IndexPrefix, RegistryFollows
  <2>5. QED
    BY <2>1, <2>2, <2>3, <2>4
       DEF RInv, Next, CastRays, CountIntersections, ComputeClosestPoints
<1>3. RInv => RegistryCoversIndex
  BY DEF RInv, IndexPrefix, RegistryFollows, RegistryCoversIndex, TypeOK
<1>4. QED
  BY <1>1, <1>2, <1>3, PTL DEF Spec

=============================================================================
