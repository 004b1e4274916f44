---------------------- MODULE SessionDescriptionProofs ----------------------
(***************************************************************************)
(* Proofs about the session-description observers (module                  *)
(* SessionDescription), for any set of requests.                           *)
(***************************************************************************)
EXTENDS SessionDescription, TLAPS

(* The inductive invariant: a promise has been set exactly when its        *)
(* request is done.  It needs the fact that SetObserverOnSuccess always    *)
(* finds a description: WebRTC has applied the one it was asked for        *)
(* before it calls OnSuccess, so the branch that sets nothing is dead.     *)
SetWhenDone ==
    \A r \in Requests : sets[r] = IF stage[r] = "done" THEN 1 ELSE 0

SInv == TypeOK /\ SetWhenDone

(* A fresh set of requests satisfies the invariant.                        *)
LEMMA SInvInit == Init => SInv
<1> SUFFICES ASSUME Init PROVE SInv
  OBVIOUS
<1>1. TypeOK
  BY DEF Init, TypeOK
<1>2. SetWhenDone
  BY DEF Init, SetWhenDone
<1>3. QED
  BY <1>1, <1>2 DEF SInv

(* OnSuccess of a SetSessionDescriptionObserver sets the promise once.      *)
LEMMA SetSuccessSets ==
    ASSUME SInv, NEW r \in Requests, SetObserverOnSuccess(r)
    PROVE  /\ sets' = [sets EXCEPT ![r] = @ + 1]
           /\ val' \in [Requests -> {"none", "local", "remote", "null"}]
<1>1. hasLocal' \/ hasRemote'
  BY DEF SetObserverOnSuccess, Applied
<1>2. CASE hasLocal'
  BY <1>2 DEF SetObserverOnSuccess, SetValue, SInv, TypeOK
<1>3. CASE ~hasLocal' /\ hasRemote'
  BY <1>3 DEF SetObserverOnSuccess, SetValue, SInv, TypeOK
<1>4. QED
  BY <1>1, <1>2, <1>3

(* Every step keeps the invariant, one action at a time.                   *)
LEMMA SInvStep == SInv /\ [Next]_vars => SInv'
<1> SUFFICES ASSUME SInv, [Next]_vars PROVE SInv'
  OBVIOUS
<1>1. ASSUME NEW r \in Requests, Request(r) PROVE SInv'
  BY <1>1 DEF Request, SInv, TypeOK, SetWhenDone
<1>2. ASSUME NEW r \in Requests, CreateObserverOnSuccess(r) PROVE SInv'
  BY <1>2 DEF CreateObserverOnSuccess, SInv, TypeOK, SetWhenDone
<1>3. ASSUME NEW r \in Requests, CreateObserverOnFailure(r) PROVE SInv'
  BY <1>3 DEF CreateObserverOnFailure, SetValue, SInv, TypeOK, SetWhenDone
<1>4. ASSUME NEW r \in Requests, SetObserverOnSuccess(r) PROVE SInv'
  <2>1. /\ sets' = [sets EXCEPT ![r] = @ + 1]
        /\ val' \in [Requests -> {"none", "local", "remote", "null"}]
    BY <1>4, SetSuccessSets
  <2>2. /\ stage' = [stage EXCEPT ![r] = "done"]
        /\ stage[r] \in {"setting_local", "setting_remote"}
        /\ hasLocal' \in BOOLEAN /\ hasRemote' \in BOOLEAN
        /\ UNCHANGED op
    BY <1>4 DEF SetObserverOnSuccess, Applied
  <2>3. QED
    BY <2>1, <2>2 DEF SInv, TypeOK, SetWhenDone
<1>5. ASSUME NEW r \in Requests, SetObserverOnFailure(r) PROVE SInv'
  BY <1>5 DEF SetObserverOnFailure, SetValue, SInv, TypeOK, SetWhenDone
<1>6. CASE UNCHANGED vars
  BY <1>6 DEF vars, SInv, TypeOK, SetWhenDone
<1>7. QED
  BY <1>1, <1>2, <1>3, <1>4, <1>5, <1>6 DEF Next, Callback

(* No std::promise handed to an observer is ever set twice, for any number *)
(* of concurrent requests: the CreateSessionDescriptionObserver passes its *)
(* promise on without setting it, and each observer sets it on exactly one *)
(* of its paths.                                                           *)
THEOREM PromiseSetOnceHolds == Spec => []PromiseSetOnce
<1>1. SInv => PromiseSetOnce
  <2> SUFFICES ASSUME SInv, NEW r \in Requests PROVE sets[r] <= 1
    BY DEF PromiseSetOnce
  <2>1. sets[r] \in {0, 1}
    BY DEF SInv, SetWhenDone
  <2>2. QED
    BY <2>1
<1>2. QED
  BY SInvInit, SInvStep, <1>1, PTL DEF Spec

=============================================================================
