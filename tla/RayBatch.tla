------------------------------ MODULE RayBatch ------------------------------
(***************************************************************************)
(* The memory-bounded batch loop of Impl::CastRays and                     *)
(* Impl::CountIntersections: rays are copied into a vector rayhits of      *)
(* min(num_rays, MAX_BATCH_SIZE) slots, one rtcIntersect1M call per batch, *)
(* and the answer in each slot is routed back to the caller's output by    *)
(* the slot's ray id.  CastRays gives a ray the id i - start_idx and       *)
(* writes its result at id + start_idx; CountIntersections gives it the    *)
(* global id i, which the filter uses to index intersections[].            *)
(*                                                                         *)
(* What Embree computes for ray i is abstracted to answer[i]: for          *)
(* CastRays an RTCRayHit (the geomID, INVALID_ID on a miss, and the class  *)
(* of the float geometric normal Ng), for CountIntersections a crossing   *)
(* count of Answers.  CastRays translates the RTCRayHit into the public   *)
(* Hit (geometry id and normal; t, primID and uv are copied or zeroed     *)
(* alongside and are left out).  The output tensors are allocated         *)
(* uninitialised (Garbage), except intersections, which is zeroed by      *)
(* memset.                                                                 *)
(***************************************************************************)
EXTENDS Naturals

CONSTANTS
    MaxRays,        \* bound on num_rays
    MAX_BATCH_SIZE, \* the batch size (1048576 in the code, scaled down)
    Answers,        \* the crossing counts Embree may produce for one ray
    Geoms,          \* the geometry ids of the scene
    INVALID_ID,     \* RTC_INVALID_GEOMETRY_ID
    NgClasses,      \* the kinds of Ng Embree may report with a hit
    Garbage         \* the content of an uninitialised output element

ASSUME BatchAssumption ==
    /\ MaxRays \in Nat
    /\ MAX_BATCH_SIZE \in Nat \ {0}
    /\ Answers \subseteq Nat
    /\ INVALID_ID \notin Geoms
    /\ NgClasses \subseteq {"regular", "zero", "underflow", "overflow"}
    /\ Garbage \notin Nat

VARIABLES
    call,          \* which Impl method runs: "CastRays" or "CountIntersections"
    num_rays,      \* the number of rays of the call (input)
    answer,        \* answer[i]: what Embree finds for ray i (input)
    out,           \* t_hit[] for CastRays, intersections[] for CountIntersections
    batch_size,    \* rayhits.size()
    num_batches,
    n,             \* the loop counter
    pc

vars == <<call, num_rays, answer, out, batch_size, num_batches, n, pc>>

Rays == 0..num_rays - 1

(* An RTCRayHit after rtcIntersect1M.  Ng is a float vector: "regular"   *)
(* when its squared length is a normal float, "zero" for a zero vector,   *)
(* "underflow" when it is non-zero but Ng.Ng rounds to 0 (components      *)
(* below about 1e-23), "overflow" when Ng.Ng rounds to +inf (components   *)
(* above about 1e19).                                                      *)
RayHits == [geom : Geoms \cup {INVALID_ID}, ng : NgClasses]

(* The float result of Ng * (1.f / sqrt(Ng.Ng)): a unit vector; 0 * inf,  *)
(* NaN; a non-zero component times inf, an infinite component; Ng * 0,    *)
(* the zero vector.                                                        *)
Normalized(ng) ==
    CASE ng = "regular"   -> "unit"
      [] ng = "zero"      -> "nan"
      [] ng = "underflow" -> "inf"
      [] ng = "overflow"  -> "zero"

(* The body of the output loop of Impl::CastRays for one ray: a hit       *)
(* copies geomID and the normalised Ng; a miss writes INVALID_ID and the   *)
(* zero normal.                                                            *)
HitOf(rh) ==
    IF rh.geom # INVALID_ID
      THEN [geom |-> rh.geom, normal |-> Normalized(rh.ng)]
      ELSE [geom |-> INVALID_ID, normal |-> "zero"]

(* What answer[i] is for the running call.                                *)
AnswerSet == IF call = "CastRays" THEN RayHits ELSE Answers

(* The output the caller should receive for ray i.                        *)
Expected(i) == IF call = "CastRays" THEN HitOf(answer[i]) ELSE answer[i]

MinOf(a, b) == IF a <= b THEN a ELSE b

(* utility::DivUp: the quotient rounded up; integer division by zero is    *)
(* undefined behaviour (a SIGFPE on x86): the call dies.                   *)
DivUp(x, y) == (x + y - 1) \div y

TypeOK ==
    /\ call \in {"CastRays", "CountIntersections"}
    /\ num_rays \in 0..MaxRays
    /\ answer \in [Rays -> AnswerSet]
    /\ out \in [Rays -> {HitOf(rh) : rh \in RayHits} \cup {Garbage} \cup Nat]
    /\ batch_size \in 0..MAX_BATCH_SIZE
    /\ num_batches \in Nat
    /\ n \in Nat
    /\ pc \in {"start", "loop", "done", "crashed"}

(* RaycastingScene::CastRays / CountIntersections after the argument      *)
(* checks: num_rays is the product of the leading dimensions (0 allowed).  *)
Init ==
    /\ call \in {"CastRays", "CountIntersections"}
    /\ num_rays \in 0..MaxRays
    /\ answer \in [Rays -> AnswerSet]
    /\ out = [i \in Rays |-> IF call = "CastRays" THEN Garbage ELSE 0]
    /\ batch_size = 0
    /\ num_batches = 0
    /\ n = 0
    /\ pc = "start"

(* rayhits is sized and the number of batches computed.                   *)
SizeBatches ==
    /\ pc = "start"
    /\ batch_size' = MinOf(num_rays, MAX_BATCH_SIZE)
    /\ IF batch_size' = 0
         THEN /\ pc' = "crashed"
              /\ UNCHANGED num_batches
         ELSE /\ num_batches' = DivUp(num_rays, batch_size')
              /\ pc' = "loop"
    /\ UNCHANGED <<call, num_rays, answer, out, n>>

(* The rays of batch n and the slot of each.                              *)
StartIdx == n * batch_size
EndIdx == MinOf(num_rays, (n + 1) * batch_size)
Slots == 0..(EndIdx - StartIdx) - 1

(* Route the hit held in each slot s (ray id s), translated, to the        *)
(* output element s + off: CastRays writes element ray.id + start_idx.     *)
Route(off) ==
    [i \in Rays |->
        IF i >= off /\ i - off \in Slots
          THEN HitOf(answer[StartIdx + (i - off)])
          ELSE out[i]]

NextBatch ==
    /\ n' = n + 1
    /\ pc' = IF n + 1 = num_batches THEN "done" ELSE "loop"

(* Mutant of CastRaysBatch: the slot's ray id is written back without      *)
(* start_idx.                                                              *)
CastRaysBatch_NoOffset ==
    /\ pc = "loop" /\ call = "CastRays"
    /\ out' = Route(0)
    /\ NextBatch
    /\ UNCHANGED <<call, num_rays, answer, batch_size, num_batches>>

(* One iteration of the loop of Impl::CastRays: fill the slots (ray.id =   *)
(* i - start_idx), rtcIntersect1M, write t_hit[ray.id + start_idx].        *)
CastRaysBatch ==
    /\ pc = "loop" /\ call = "CastRays"
    /\ out' = Route(StartIdx)
    /\ NextBatch
    /\ UNCHANGED <<call, num_rays, answer, batch_size, num_batches>>

(* Mutant of CountIntersectionsBatch: rays get batch-local ids, as in      *)
(* CastRays, which the filter then uses as global indices.                 *)
CountIntersectionsBatch_LocalId ==
    /\ pc = "loop" /\ call = "CountIntersections"
    /\ out' = [i \in Rays |->
                 IF i \in Slots THEN out[i] + answer[StartIdx + i] ELSE out[i]]
    /\ NextBatch
    /\ UNCHANGED <<call, num_rays, answer, batch_size, num_batches>>

(* One iteration of the loop of Impl::CountIntersections: fill the slots   *)
(* (ray.id = i), rtcIntersect1M, whose filter adds the ray's crossings to  *)
(* intersections[ray.id]; answer[i] is that number for ray i.              *)
CountIntersectionsBatch ==
    /\ pc = "loop" /\ call = "CountIntersections"
    /\ out' = [i \in Rays |->
                 IF i \in StartIdx..EndIdx - 1 THEN out[i] + answer[i] ELSE out[i]]
    /\ NextBatch
    /\ UNCHANGED <<call, num_rays, answer, batch_size, num_batches>>

Next ==
    \/ SizeBatches
    \/ CastRaysBatch
    \/ CountIntersectionsBatch

Spec == Init /\ [][Next]_vars

-----------------------------------------------------------------------------
(* Properties *)

(* Spec section 4.2: chunk boundaries are invisible; when the call returns *)
(* every output element holds the result for the ray at the same          *)
(* position, for any number of rays and any batch size, the miss sentinel *)
(* included.                                                               *)
OrderPreserved ==
    pc = "done" => out = [i \in Rays |-> Expected(i)]

(* A call on a well-formed ray tensor returns: an empty batch (num_rays =  *)
(* 0, e.g. shape {0, 6}) is answered with empty outputs.                   *)
EmptyBatchReturns ==
    pc # "crashed"

(* Spec sections 4.2 and 5: the normal of a hit is normalised to unit     *)
(* length, and a degenerate normal (zero, or too short to measure in      *)
(* float) becomes the zero vector; a miss has the zero normal.  Nothing   *)
(* else, in particular no NaN or infinity, reaches primitive_normals.     *)
HitNormalPromised ==
    pc = "done" /\ call = "CastRays" =>
        \A i \in Rays :
            out[i].normal =
                IF answer[i].geom # INVALID_ID /\ answer[i].ng \in {"regular", "overflow"}
                  THEN "unit" ELSE "zero"

=============================================================================
