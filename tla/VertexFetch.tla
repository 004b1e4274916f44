----------------------------- MODULE VertexFetch -----------------------------
(***************************************************************************)
(* The vertex fetch of ClosestPointFunc: for triangle primID of a mesh     *)
(* added through RaycastingScene::AddTriangles(mesh), the three vertices   *)
(* are read at vertices[3 * triangles[3 * primID + k] + j].  primID and    *)
(* the index buffer are unsigned int / uint32_t, so every product and sum  *)
(* is taken modulo 2^32; the width is the constant W here.  The mesh       *)
(* overload only refuses meshes of more than 2^32 - 1 vertices.            *)
(*                                                                         *)
(* The mesh is abstracted to its vertex count nv, its triangle count nt,   *)
(* and the one triangle the query reaches: its id prim and its indices.    *)
(* An entry of the index buffer other than the intended one holds some    *)
(* vertex index of another triangle.                                       *)
(***************************************************************************)
EXTENDS Naturals

CONSTANTS
    W,           \* bit width of unsigned int (32 in the code)
    MaxVertices, \* bound on the vertex count of a mesh
    MaxTriangles \* bound on the triangle count of a mesh

(* W, MaxVertices and MaxTriangles are positive naturals.                 *)

UIntMax == 2^W - 1

(* Unsigned arithmetic of width W.                                         *)
U(x) == x % 2^W

VARIABLES
    nv,      \* vertices.GetLength()
    nt,      \* triangles.GetLength()
    added,   \* whether AddTriangles accepted the mesh
    prim,    \* args->primID
    tri,     \* tri[k]: the k-th vertex index of triangle prim
    fetched  \* the offsets read from vertices, or <<>> before a fetch

vars == <<nv, nt, added, prim, tri, fetched>>

Offsets == [0..2 -> [0..2 -> Nat \cup {"oob"}]]

TypeOK ==
    /\ nv \in 1..MaxVertices /\ nt \in 1..MaxTriangles
    /\ added \in BOOLEAN
    /\ prim \in 0..nt - 1
    /\ tri \in [0..2 -> 0..nv - 1]
    /\ fetched \in Offsets \cup {<<>>}

(* A valid triangle mesh as a caller passes it.                            *)
Init ==
    /\ nv \in 1..MaxVertices /\ nt \in 1..MaxTriangles
    /\ prim \in 0..nt - 1
    /\ tri \in [0..2 -> 0..nv - 1]
    /\ added = FALSE
    /\ fetched = <<>>

(* AddTriangles(mesh): LogError (a throw) for more than UINT32_MAX         *)
(* vertices; otherwise the buffers go to Embree unchanged.                 *)
AddTriangles ==
    /\ ~added
    /\ nv <= UIntMax
    /\ added' = TRUE
    /\ UNCHANGED <<nv, nt, prim, tri, fetched>>

(* The k whose index-buffer position 3 * primID + k wraps around.         *)
Wrapped == {k \in 0..2 : U(3 * prim + k) # 3 * prim + k}

(* ClosestPointFunc reads v0, v1, v2: the index at position               *)
(* 3 * primID + k of the index buffer, then the float at                   *)
(* 3 * index + j of the vertex buffer, in width-W arithmetic.  A position *)
(* past a buffer is an out-of-bounds read.                                 *)
ClosestPointFunc ==
    /\ added /\ fetched = <<>>
    /\ \E other \in [Wrapped -> 0..nv - 1] :
         fetched' = [k \in 0..2 |-> [j \in 0..2 |->
            LET pos == U(3 * prim + k)
                idx == IF pos = 3 * prim + k THEN tri[k] ELSE other[k]
            IN  IF pos >= 3 * nt \/ U(3 * idx + j) >= 3 * nv THEN "oob"
                                                             ELSE U(3 * idx + j)]]
    /\ UNCHANGED <<nv, nt, added, prim, tri>>

Next == AddTriangles \/ ClosestPointFunc

Spec == Init /\ [][Next]_vars

-----------------------------------------------------------------------------
(* Properties *)

(* Spec section 4.1: a mesh the registration accepts is queried on its own *)
(* vertices: ClosestPointFunc reads exactly the coordinates of the three   *)
(* vertices of the triangle Embree reports.                                *)
VertexFetchExact ==
    fetched # <<>> =>
        fetched = [k \in 0..2 |-> [j \in 0..2 |-> 3 * tri[k] + j]]

=============================================================================
