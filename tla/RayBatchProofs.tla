--------------------------- MODULE RayBatchProofs ---------------------------
(***************************************************************************)
(* Proof that the batch loops of Impl::CastRays and                        *)
(* Impl::CountIntersections (module RayBatch) hand every ray's result to   *)
(* its own output element, for every number of rays and every batch size.  *)
(***************************************************************************)
EXTENDS RayBatch, TLAPS

(* What an output element holds before its batch has run: t_hit and the    *)
(* other CastRays outputs are uninitialised, intersections is zeroed.      *)
Blank == IF call = "CastRays" THEN Garbage ELSE 0

(* The rays the finished batches cover: those below n * batch_size.       *)
Filled == MinOf(num_rays, n * batch_size)

(* The inductive invariant, in two parts.  The loop control: while the     *)
(* loop runs batch n starts inside the rays, and once it is done the       *)
(* batches cover them all.                                                 *)
BControl ==
    /\ call \in {"CastRays", "CountIntersections"}
    /\ num_rays \in Nat
    /\ answer \in [Rays -> AnswerSet]
    /\ batch_size \in Nat /\ num_batches \in Nat /\ n \in Nat
    /\ pc \in {"start", "loop", "done", "crashed"}
    /\ pc \in {"start", "crashed"} => n = 0
    /\ pc = "loop" => /\ batch_size > 0
                      /\ num_batches = DivUp(num_rays, batch_size)
                      /\ n * batch_size < num_rays
    /\ pc = "done" => /\ batch_size > 0
                      /\ num_rays <= n * batch_size

(* The outputs: those of the covered rays hold their results, the others  *)
(* are untouched.                                                          *)
OutFilled ==
    out = [i \in Rays |-> IF i < Filled THEN Expected(i) ELSE Blank]

BInv == BControl /\ OutFilled

(* utility::DivUp(N, b) counts the batches of b rays that N rays need:    *)
(* batch k is needed exactly when it starts inside the rays.               *)
LEMMA DivUpCounts ==
    ASSUME NEW N \in Nat, NEW b \in Nat \ {0}, NEW k \in Nat
    PROVE  k < DivUp(N, b) <=> k * b < N
<1> DEFINE q == (N + b - 1) \div b
           r == (N + b - 1) % b
<1>1. /\ q \in Nat /\ r \in 0..b - 1
      /\ N + b - 1 = q * b + r
  OBVIOUS
<1>2. ASSUME k < q PROVE k * b < N
  <2>1. (k + 1) * b <= q * b
    BY <1>1, <1>2
  <2>2. QED
    BY <1>1, <2>1
<1>3. ASSUME k * b < N PROVE k < q
  <2> SUFFICES ASSUME q <= k PROVE FALSE
    BY <1>1
  <2>1. q * b <= k * b
    BY <1>1
  <2>2. QED
    BY <1>1, <1>3, <2>1
<1>4. QED
  BY <1>2, <1>3 DEF DivUp

(* A call starts with no batch run and its outputs as allocated.           *)
LEMMA BInvInit == Init => BInv
<1> SUFFICES ASSUME Init PROVE BInv
  OBVIOUS
<1>1. BControl
  BY BatchAssumption DEF Init, BControl
<1>2. Filled = 0
  BY BatchAssumption DEF Init, Filled, MinOf
<1>3. OutFilled
  BY <1>2, BatchAssumption DEF Init, OutFilled, Blank, Rays
<1>4. QED
  BY <1>1, <1>3 DEF BInv

(* One iteration of either loop covers the rays StartIdx..EndIdx - 1 and   *)
(* keeps the loop control: the last batch is the one DivUp counted.        *)
LEMMA BatchAdvance ==
    ASSUME BControl, pc = "loop", NextBatch,
           UNCHANGED <<call, num_rays, answer, batch_size, num_batches>>
    PROVE  /\ Filled = StartIdx
           /\ Filled' = EndIdx
           /\ StartIdx <= EndIdx
           /\ BControl'
<1> DEFINE N == num_rays  b == batch_size
<1>1. /\ N \in Nat /\ b \in Nat \ {0} /\ n \in Nat
      /\ num_batches = DivUp(N, b) /\ n * b < N
  BY DEF BControl
<1>2. (n + 1) * b = n * b + b
  BY <1>1
<1>3. Filled = StartIdx
  BY <1>1 DEF Filled, StartIdx, MinOf
<1>4. Filled' = EndIdx /\ StartIdx <= EndIdx
  BY <1>1, <1>2 DEF NextBatch, Filled, EndIdx, StartIdx, MinOf
<1>5. /\ n < DivUp(N, b) <=> n * b < N
      /\ n + 1 < DivUp(N, b) <=> (n + 1) * b < N
  <2>1. n + 1 \in Nat
    BY <1>1
  <2>2. n < DivUp(N, b) <=> n * b < N
    BY <1>1, DivUpCounts, Zenon
  <2>3. n + 1 < DivUp(N, b) <=> (n + 1) * b < N
    BY <1>1, <2>1, DivUpCounts, Zenon
  <2>4. QED
    BY <2>2, <2>3
<1>6. BControl'
  <2>1. CASE n + 1 = num_batches
    <3>1. ~((n + 1) * b < N)
      BY <1>1, <1>5, <2>1
    <3>2. QED
      BY <1>1, <2>1, <3>1 DEF NextBatch, BControl, Rays, AnswerSet
  <2>2. CASE n + 1 # num_batches
    <3>1. (n + 1) * b < N
      <4>1. DivUp(N, b) \in Nat
        BY <1>1 DEF DivUp
      <4>2. QED
        BY <1>1, <1>5, <2>2, <4>1
    <3>2. QED
      BY <1>1, <2>2, <3>1 DEF NextBatch, BControl, Rays, AnswerSet
  <2>3. QED
    BY <2>1, <2>2
<1>7. QED
  BY <1>3, <1>4, <1>6

(* Every step keeps the invariant, one action at a time.                   *)
LEMMA BInvStep == BInv /\ [Next]_vars => BInv'
<1> USE BatchAssumption
<1> SUFFICES ASSUME BInv, [Next]_vars PROVE BInv'
  OBVIOUS
<1>1. CASE SizeBatches
  <2>1. /\ pc = "start" /\ n = 0
        /\ UNCHANGED <<call, num_rays, answer, out, n>>
        /\ batch_size' = MinOf(num_rays, MAX_BATCH_SIZE)
        /\ batch_size' \in Nat
    BY <1>1 DEF SizeBatches, BInv, BControl, MinOf
  <2>2. Filled = 0 /\ Filled' = 0
    BY <2>1 DEF Filled, MinOf, BInv, BControl
  <2>3. OutFilled'
    BY <2>1, <2>2 DEF BInv, OutFilled, Rays, Expected, Blank
  <2>4. CASE batch_size' = 0
    BY <1>1, <2>1, <2>3, <2>4 DEF SizeBatches, BInv, BControl, Rays, AnswerSet
  <2>5. CASE batch_size' # 0
    <3>1. 0 < num_rays /\ num_batches' = DivUp(num_rays, batch_size') /\ pc' = "loop"
      BY <1>1, <2>1, <2>5 DEF SizeBatches, MinOf, BInv, BControl
    <3>2. DivUp(num_rays, batch_size') \in Nat
      BY <2>1, <2>5, <3>1 DEF DivUp, BInv, BControl
    <3>3. QED
      BY <2>1, <2>3, <2>5, <3>1, <3>2 DEF BInv, BControl, Rays, AnswerSet
  <2>6. QED
    BY <2>4, <2>5
<1>2. CASE CastRaysBatch
  <2>1. /\ Filled = StartIdx /\ Filled' = EndIdx /\ StartIdx <= EndIdx
        /\ BControl'
    BY <1>2, BatchAdvance DEF CastRaysBatch, BInv
  <2>2. \A i \in Rays : out'[i] = IF i < EndIdx THEN Expected(i) ELSE Blank
    <3> SUFFICES ASSUME NEW i \in Rays
                 PROVE  out'[i] = IF i < EndIdx THEN Expected(i) ELSE Blank
      OBVIOUS
    <3>1. StartIdx \in Nat /\ EndIdx \in Nat /\ i \in Nat
      BY <2>1 DEF BInv, BControl, StartIdx, EndIdx, MinOf, Rays
    <3>2. out'[i] = IF i >= StartIdx /\ i - StartIdx \in Slots
                      THEN HitOf(answer[StartIdx + (i - StartIdx)])
                      ELSE out[i]
      BY <1>2 DEF CastRaysBatch, Route
    <3>3. (i >= StartIdx /\ i - StartIdx \in Slots) <=> StartIdx <= i /\ i < EndIdx
      BY <3>1 DEF Slots
    <3>4. out[i] = IF i < StartIdx THEN Expected(i) ELSE Blank
      BY <2>1 DEF BInv, OutFilled
    <3>5. QED
      BY <1>2, <2>1, <3>1, <3>2, <3>3, <3>4 DEF CastRaysBatch, Expected
  <2>3. out' = [i \in Rays |-> IF i < EndIdx THEN Expected(i) ELSE Blank]
    BY <1>2, <2>2 DEF CastRaysBatch, Route
  <2>4. OutFilled'
    BY <1>2, <2>1, <2>3 DEF CastRaysBatch, OutFilled, Rays, Expected, Blank
  <2>5. QED
    BY <2>1, <2>4 DEF BInv
<1>3. CASE CountIntersectionsBatch
  <2>1. /\ Filled = StartIdx /\ Filled' = EndIdx /\ StartIdx <= EndIdx
        /\ BControl'
    BY <1>3, BatchAdvance DEF CountIntersectionsBatch, BInv
  <2>2. \A i \in Rays : out'[i] = IF i < EndIdx THEN Expected(i) ELSE Blank
    <3> SUFFICES ASSUME NEW i \in Rays
                 PROVE  out'[i] = IF i < EndIdx THEN Expected(i) ELSE Blank
      OBVIOUS
    <3>1. /\ StartIdx \in Nat /\ EndIdx \in Nat /\ i \in Nat
          /\ answer[i] \in Nat /\ call = "CountIntersections"
      <4>1. StartIdx \in Nat /\ EndIdx \in Nat /\ i \in Nat
        BY DEF BInv, BControl, StartIdx, EndIdx, MinOf, Rays
      <4>2. call = "CountIntersections" /\ answer[i] \in Answers
        BY <1>3 DEF CountIntersectionsBatch, BInv, BControl, AnswerSet
      <4>3. QED
        BY <4>1, <4>2
    <3>2. out'[i] = IF i \in StartIdx..EndIdx - 1 THEN out[i] + answer[i] ELSE out[i]
      BY <1>3 DEF CountIntersectionsBatch
    <3>3. out[i] = IF i < StartIdx THEN Expected(i) ELSE Blank
      BY <2>1 DEF BInv, OutFilled
    <3>4. QED
      BY <2>1, <3>1, <3>2, <3>3 DEF Expected, Blank
  <2>3. out' = [i \in Rays |-> IF i < EndIdx THEN Expected(i) ELSE Blank]
    BY <1>3, <2>2 DEF CountIntersectionsBatch
  <2>4. OutFilled'
    BY <1>3, <2>1, <2>3 DEF CountIntersectionsBatch, OutFilled, Rays, Expected, Blank
  <2>5. QED
    BY <2>1, <2>4 DEF BInv
<1>4. CASE UNCHANGED vars
  BY <1>4 DEF vars, BInv, BControl, OutFilled, Filled, Rays, AnswerSet,
              Expected, Blank
<1>5. QED
  BY <1>1, <1>2, <1>3, <1>4 DEF Next

(* Once the loop is done every output element holds its ray's result.     *)
LEMMA BInvDone == BInv /\ pc = "done" => out = [i \in Rays |-> Expected(i)]
<1> SUFFICES ASSUME BInv, pc = "done" PROVE out = [i \in Rays |-> Expected(i)]
  OBVIOUS
<1>1. Filled = num_rays
  BY DEF BInv, BControl, Filled, MinOf
<1>2. \A i \in Rays : i < Filled
  BY <1>1 DEF BInv, BControl, Rays
<1>3. QED
  BY <1>2 DEF BInv, OutFilled

(* CastRays and CountIntersections return every ray's result in the       *)
(* output element at the ray's own position, for every number of rays and *)
(* every MAX_BATCH_SIZE: the batches cover the rays without gap, and       *)
(* CastRays' local ray ids plus start_idx, like CountIntersections'        *)
(* global ids, name the ray each slot was filled from.                     *)
THEOREM OrderPreservedHolds == Spec => []OrderPreserved
<1>1. BInv => OrderPreserved
  BY BInvDone DEF OrderPreserved
<1>2. QED
  BY BInvInit, BInvStep, <1>1, PTL DEF Spec

=============================================================================
