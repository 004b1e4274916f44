------------------------- MODULE PeerObserverProofs -------------------------
(***************************************************************************)
(* Proofs about the observer lifetime of PeerConnectionManager (module     *)
(* PeerObserver), for any peers and observers, any number of ICE failures *)
(* and remote data channels, with or without client hang-ups.             *)
(***************************************************************************)
EXTENDS PeerObserver, TLAPS

(* The inductive invariant: besides the types and MapHoldsLive, every      *)
(* constructed observer carries a peer id, and only a constructed observer *)
(* has detached HangUp threads, so a thread always calls HangUp with a     *)
(* real peer id, even after its observer is gone.                          *)
PeerKnown ==
    \A o \in Observers :
        /\ status[o] # "unborn" => peer[o] \in PeerIds
        /\ threads[o] > 0 => status[o] # "unborn"

MInv == TypeOK /\ MapHoldsLive /\ PeerKnown

(* A new manager satisfies the invariant.                                  *)
LEMMA MInvInit == Init => MInv
BY PeerAssumption DEF Init, MInv, TypeOK, MapHoldsLive, PeerKnown

(* HangUp of a mapped peer erases exactly that entry and starts destroying *)
(* the one observer it held, which no other entry holds.                   *)
LEMMA HangUpStep ==
    ASSUME MInv, NEW p \in PeerIds, HangUp(p),
           UNCHANGED <<peer, deleting, pcOpen, iceEvents>>,
           threads' \in [Observers -> Nat],
           \A x \in Observers : threads'[x] > 0 => threads[x] > 0
    PROVE  MInv'
<1> DEFINE o == peerMap[p]
<1> USE PeerAssumption DEF o
<1>1. /\ o \in Observers /\ status[o] = "alive" /\ peer[o] = p
      /\ peerMap' = [peerMap EXCEPT ![p] = NoObserver]
      /\ status' = [status EXCEPT ![o] = "destroying"]
      /\ remoteChannels' = [remoteChannels EXCEPT ![o] = IF @ > 0 THEN @ - 1 ELSE 0]
  BY PeerAssumption DEF HangUp, MInv, TypeOK, MapHoldsLive
<1>2. \A q \in PeerIds \ {p} : peerMap[q] # o
  BY <1>1 DEF MInv, MapHoldsLive
<1>3. TypeOK'
  BY <1>1 DEF MInv, TypeOK
<1>4. MapHoldsLive'
  <2> SUFFICES ASSUME NEW q \in PeerIds, peerMap'[q] # NoObserver
               PROVE  status'[peerMap'[q]] = "alive" /\ peer'[peerMap'[q]] = q
    BY DEF MapHoldsLive
  <2>1. q # p /\ peerMap'[q] = peerMap[q]
    BY <1>1 DEF MInv, TypeOK
  <2>2. peerMap[q] \in Observers /\ peerMap[q] # o
    BY <1>2, <2>1 DEF MInv, TypeOK
  <2>3. status'[peerMap[q]] = status[peerMap[q]]
    BY <1>1, <2>2 DEF MInv, TypeOK
  <2>4. QED
    BY <2>1, <2>3 DEF MInv, MapHoldsLive
<1>5. PeerKnown'
  <2> SUFFICES ASSUME NEW x \in Observers
               PROVE  /\ status'[x] # "unborn" => peer'[x] \in PeerIds
                      /\ threads'[x] > 0 => status'[x] # "unborn"
    BY DEF PeerKnown
  <2>1. status'[x] # "unborn" <=> status[x] # "unborn"
    BY <1>1 DEF MInv, TypeOK
  <2>2. QED
    BY <2>1 DEF MInv, PeerKnown
<1>6. QED
  BY <1>3, <1>4, <1>5 DEF MInv

(* Every step keeps the invariant, one action at a time.                   *)
LEMMA MInvStep == MInv /\ [Next]_vars => MInv'
<1> USE PeerAssumption
<1> SUFFICES ASSUME MInv, [Next]_vars PROVE MInv'
  OBVIOUS
<1>1. ASSUME NEW p \in PeerIds, NEW o \in Observers, CreatePeerConnection(p, o)
      PROVE MInv'
  <2>1. \A q \in PeerIds : peerMap[q] # o
    BY <1>1 DEF CreatePeerConnection, MInv, MapHoldsLive
  <2>2. QED
    BY <1>1, <2>1 DEF CreatePeerConnection, MInv, TypeOK, MapHoldsLive, PeerKnown
<1>2. ASSUME NEW o \in Observers, OnIceConnectionChange(o) PROVE MInv'
  BY <1>2 DEF OnIceConnectionChange, Live, MInv, TypeOK, MapHoldsLive, PeerKnown
<1>3. ASSUME NEW o \in Observers, OnDataChannel(o) PROVE MInv'
  BY <1>3 DEF OnDataChannel, MInv, TypeOK, MapHoldsLive, PeerKnown
<1>4. ASSUME NEW p \in PeerIds, ClientHangUp(p) PROVE MInv'
  BY <1>4, HangUpStep DEF ClientHangUp, MInv, TypeOK
<1>5. ASSUME NEW o \in Observers, HangUpThread(o) PROVE MInv'
  <2>1. /\ peer[o] \in PeerIds
        /\ threads' = [threads EXCEPT ![o] = @ - 1]
        /\ threads' \in [Observers -> Nat]
        /\ \A x \in Observers : threads'[x] > 0 => threads[x] > 0
        /\ UNCHANGED <<peer, deleting, pcOpen, iceEvents>>
    BY <1>5 DEF HangUpThread, MInv, TypeOK, PeerKnown
  <2>2. CASE peerMap[peer[o]] # NoObserver
    BY <1>5, <2>1, <2>2, HangUpStep DEF HangUpThread
  <2>3. CASE peerMap[peer[o]] = NoObserver
    <3>1. UNCHANGED <<peerMap, status, remoteChannels>>
      BY <1>5, <2>3 DEF HangUpThread
    <3>2. QED
      BY <2>1, <3>1 DEF MInv, TypeOK, MapHoldsLive, PeerKnown
  <2>4. QED
    BY <2>2, <2>3
<1>6. ASSUME NEW o \in Observers, DestroyObserver(o) PROVE MInv'
  <2>1. \A q \in PeerIds : peerMap[q] # o
    BY <1>6 DEF DestroyObserver, MInv, MapHoldsLive
  <2>2. QED
    BY <1>6, <2>1 DEF DestroyObserver, MInv, TypeOK, MapHoldsLive, PeerKnown
<1>7. CASE UNCHANGED vars
  BY <1>7 DEF vars, MInv, TypeOK, MapHoldsLive, PeerKnown
<1>8. QED
  BY <1>1, <1>2, <1>3, <1>4, <1>5, <1>6, <1>7 DEF Next

(* For every number of peers, observers, ICE failures and data channels,  *)
(* and with clients free to hang up: peer_connectionobs_map_ holds only   *)
(* live observers under their own peer ids, so neither a client's HangUp  *)
(* nor the detached thread of OnIceConnectionChange ever deletes an        *)
(* observer that is being destroyed or already freed.                      *)
THEOREM MapHoldsLiveHolds == Spec => []MapHoldsLive
<1>1. MInv => MapHoldsLive
  BY DEF MInv
<1>2. QED
  BY MInvInit, MInvStep, <1>1, PTL DEF Spec

=============================================================================
