------------------------------- MODULE Scene -------------------------------
(***************************************************************************)
(* Lifecycle of a RaycastingScene (RaycastingScene.cpp): the lazy-commit   *)
(* flag scene_committed, the geometry attached to the Embree scene, the    *)
(* acceleration index built by the last rtcCommitScene, and the registry   *)
(* geometry_ptrs that ClosestPointFunc dereferences by geometry id.        *)
(*                                                                         *)
(* Geometry data is abstracted to the mesh it came from: a model value.    *)
(* Embree gives geometry ids 0, 1, 2, ... in attach order (no geometry is  *)
(* ever detached), so the geometry with id g is attached[g + 1] and its    *)
(* registry entry must be geometry_ptrs[g + 1].                            *)
(*                                                                         *)
(* Every failure path of the code is an outcome of its action: an Embree  *)
(* error reaches ErrorFunction, whose LogError throws out of the call; a   *)
(* std::vector::push_back may throw std::bad_alloc.                        *)
(***************************************************************************)
EXTENDS Naturals, Sequences

CONSTANTS
    Meshes,          \* the triangle meshes a caller passes to AddTriangles
    MaxGeometries,   \* bound on the number of geometries attached
    RegistryMayFail, \* whether push_back into geometry_ptrs may throw
    NoIndex,         \* the index of a scene never (successfully) committed
    NoQuery          \* no query has returned yet

ASSUME MeshesAssumption == Meshes # {} /\ NoIndex \notin Seq(Meshes)
ASSUME MaxGeometriesAssumption == MaxGeometries \in Nat
ASSUME RegistryMayFailAssumption == RegistryMayFail \in BOOLEAN

VARIABLES
    attached,        \* geometries attached to the Embree scene, by id + 1
    geometry_ptrs,   \* Impl::geometry_ptrs: views of each geometry's buffers
    scene_committed, \* Impl::scene_committed
    index,           \* the geometry the last successful commit indexed
    lastQuery        \* the index the last query ran on, and what was attached

vars == <<attached, geometry_ptrs, scene_committed, index, lastQuery>>

(* The outcomes of AddTriangles past its argument checks: all provider    *)
(* calls succeed; an Embree call before rtcAttachGeometry reports an error *)
(* (ErrorFunction throws); or push_back into geometry_ptrs throws after   *)
(* the geometry was attached.                                             *)
AddOutcomes ==
    {"ok", "provider_error"} \cup (IF RegistryMayFail THEN {"registry_error"} ELSE {})

(* A query answer: the index it was computed on and the attached geometry *)
(* at that moment.                                                        *)
QueryRecord == [index : Seq(Meshes) \cup {NoIndex}, attached : Seq(Meshes)]

ASSUME NoQueryAssumption == NoQuery \notin QueryRecord

TypeOK ==
    /\ attached \in Seq(Meshes)
    /\ geometry_ptrs \in Seq(Meshes)
    /\ scene_committed \in BOOLEAN
    /\ index \in Seq(Meshes) \cup {NoIndex}
    /\ lastQuery \in QueryRecord \cup {NoQuery}

(* RaycastingScene::RaycastingScene: a new, uncommitted, empty scene.     *)
Init ==
    /\ attached = <<>>
    /\ geometry_ptrs = <<>>
    /\ scene_committed = FALSE
    /\ index = NoIndex
    /\ lastQuery = NoQuery

(* Mutant of AddTriangles: the buffer views are recorded before Embree    *)
(* creates and attaches the geometry.                                     *)
AddTriangles_RecordFirst(m, outcome) ==
    /\ Len(attached) < MaxGeometries
    /\ scene_committed' = FALSE
    /\ attached' = IF outcome = "provider_error" THEN attached
                                                 ELSE Append(attached, m)
    /\ geometry_ptrs' = Append(geometry_ptrs, m)
    /\ UNCHANGED <<index, lastQuery>>

(* RaycastingScene::AddTriangles: argument checks that fail throw before   *)
(* any change and are stutters.  The flag is cleared first; Embree then    *)
(* creates and fills the geometry and attaches it (id = Len(attached));    *)
(* finally the buffer views are appended to geometry_ptrs.                 *)
AddTriangles(m, outcome) ==
    /\ Len(attached) < MaxGeometries
    /\ scene_committed' = FALSE
    /\ attached' = IF outcome = "provider_error" THEN attached
                                                 ELSE Append(attached, m)
    /\ geometry_ptrs' = IF outcome = "ok" THEN Append(geometry_ptrs, m)
                                          ELSE geometry_ptrs
    /\ UNCHANGED <<index, lastQuery>>

(* Mutant of CommitAndQuery: scene_committed is set before rtcCommitScene *)
(* is called, so a failed commit leaves it set.                           *)
CommitAndQuery_FlagFirst ==
    \/ /\ scene_committed
       /\ lastQuery' = [index |-> index, attached |-> attached]
       /\ UNCHANGED <<attached, geometry_ptrs, scene_committed, index>>
    \/ /\ ~scene_committed
       /\ index' = attached
       /\ scene_committed' = TRUE
       /\ lastQuery' = [index |-> attached, attached |-> attached]
       /\ UNCHANGED <<attached, geometry_ptrs>>
    \/ /\ ~scene_committed
       /\ index' = NoIndex
       /\ scene_committed' = TRUE
       /\ UNCHANGED <<attached, geometry_ptrs, lastQuery>>

(* Mutant of ComputeClosestPoints: the query runs without the lazy commit. *)
ComputeClosestPoints_NoCommit ==
    /\ lastQuery' = [index |-> index, attached |-> attached]
    /\ UNCHANGED <<attached, geometry_ptrs, scene_committed, index>>

(* The lazy commit at the head of every Impl query, followed by the query *)
(* itself.  rtcCommitScene either indexes the attached geometry and the    *)
(* flag is set, or reports an error: ErrorFunction throws, the flag stays  *)
(* false and the query does not return.                                    *)
CommitAndQuery ==
    \/ /\ scene_committed
       /\ lastQuery' = [index |-> index, attached |-> attached]
       /\ UNCHANGED <<attached, geometry_ptrs, scene_committed, index>>
    \/ /\ ~scene_committed
       /\ index' = attached
       /\ scene_committed' = TRUE
       /\ lastQuery' = [index |-> attached, attached |-> attached]
       /\ UNCHANGED <<attached, geometry_ptrs>>
    \/ /\ ~scene_committed
       /\ index' = NoIndex
       /\ UNCHANGED <<attached, geometry_ptrs, scene_committed, lastQuery>>

(* Impl::CastRays (reached from RaycastingScene::CastRays).               *)
CastRays == CommitAndQuery

(* Impl::CountIntersections (reached from CountIntersections,             *)
(* ComputeSignedDistance and ComputeOccupancy).                           *)
CountIntersections == CommitAndQuery

(* Impl::ComputeClosestPoints (reached from ComputeClosestPoints,         *)
(* ComputeDistance and ComputeSignedDistance).                            *)
ComputeClosestPoints == CommitAndQuery

Next ==
    \/ \E m \in Meshes, o \in AddOutcomes : AddTriangles(m, o)
    \/ CastRays
    \/ CountIntersections
    \/ ComputeClosestPoints

Spec == Init /\ [][Next]_vars

-----------------------------------------------------------------------------
(* Properties *)

(* When scene_committed is set, the Embree index covers exactly the        *)
(* geometry attached: no AddTriangles, and no failed commit, happened      *)
(* since the commit that set it.  The lazy commit is skipped on this flag. *)
CommittedIndexCurrent ==
    scene_committed => index = attached

(* Every query that returned ran on an index of all geometry attached at   *)
(* that moment: a query never answers from a stale or unbuilt index.       *)
QueryFresh ==
    lastQuery # NoQuery => lastQuery.index = lastQuery.attached

(* For every geometry id g the current index can report, the registry      *)
(* ClosestPointFunc dereferences (geometry_ptrs[g]) holds the buffers of   *)
(* that very geometry: the callback never reads past the registry nor      *)
(* another mesh's vertices.                                                *)
RegistryCoversIndex ==
    index # NoIndex =>
        /\ Len(index) <= Len(geometry_ptrs)
        /\ \A g \in 1..Len(index) : geometry_ptrs[g] = index[g]

=============================================================================
