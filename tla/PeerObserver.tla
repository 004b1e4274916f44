---------------------------- MODULE PeerObserver ----------------------------
(***************************************************************************)
(* Lifetime of a PeerConnectionObserver (PeerConnectionManager.h) against  *)
(* the threads that reach it: WebRTC's signaling thread delivering         *)
(* OnIceConnectionChange and OnDataChannel, the HTTP thread calling        *)
(* HangUp, and the detached threads OnIceConnectionChange starts on a      *)
(* failed connection, each capturing `this` and calling                    *)
(* HangUp(peerid_) whenever the OS runs it.                                *)
(*                                                                         *)
(* HangUp erases the peer's observer from peer_connectionobs_map_ under    *)
(* peer_map_mutex_ and deletes it; the destructor deletes the data-channel *)
(* observers, sets deleting_ and closes the connection, whose Close calls  *)
(* OnIceConnectionChange(kIceConnectionClosed) synchronously.  The         *)
(* destructor is split where another thread's callback may interleave:     *)
(* before deleting_ is set, and after.                                     *)
(***************************************************************************)
EXTENDS Naturals

CONSTANTS
    PeerIds,           \* the peer ids clients use
    Observers,         \* the PeerConnectionObserver objects that may be allocated
    NoObserver,        \* no entry in peer_connectionobs_map_
    NoPeer,            \* peerid_ of an observer not yet constructed
    MaxIceEvents,      \* bound on failed-connection events per observer
    MaxRemoteChannels, \* bound on remote data channels per observer
    ClientMayHangUp    \* whether a client calls HangUp over the HTTP API

ASSUME PeerAssumption ==
    /\ NoObserver \notin Observers /\ NoPeer \notin PeerIds
    /\ MaxIceEvents \in Nat /\ MaxRemoteChannels \in Nat
    /\ ClientMayHangUp \in BOOLEAN

VARIABLES
    peerMap,        \* peer_connectionobs_map_
    status,         \* "unborn", "alive", "destroying" (in ~PeerConnectionObserver), "deleted"
    peer,           \* peerid_
    deleting,       \* deleting_
    pcOpen,         \* pc_ not yet closed
    threads,        \* threads[o]: detached HangUp threads holding `this` = o
    iceEvents,      \* failed-connection callbacks delivered to o
    remoteChannels  \* DataChannelObservers made by o for remote channels, not deleted

vars == <<peerMap, status, peer, deleting, pcOpen, threads, iceEvents, remoteChannels>>

Live(o) == status[o] \in {"alive", "destroying"}

TypeOK ==
    /\ peerMap \in [PeerIds -> Observers \cup {NoObserver}]
    /\ status \in [Observers -> {"unborn", "alive", "destroying", "deleted"}]
    /\ peer \in [Observers -> PeerIds \cup {NoPeer}]
    /\ deleting \in [Observers -> BOOLEAN]
    /\ pcOpen \in [Observers -> BOOLEAN]
    /\ threads \in [Observers -> Nat]
    /\ iceEvents \in [Observers -> 0..MaxIceEvents]
    /\ remoteChannels \in [Observers -> 0..MaxRemoteChannels]

Init ==
    /\ peerMap = [p \in PeerIds |-> NoObserver]
    /\ status = [o \in Observers |-> "unborn"]
    /\ peer = [o \in Observers |-> NoPeer]
    /\ deleting = [o \in Observers |-> FALSE]
    /\ pcOpen = [o \in Observers |-> FALSE]
    /\ threads = [o \in Observers |-> 0]
    /\ iceEvents = [o \in Observers |-> 0]
    /\ remoteChannels = [o \in Observers |-> 0]

(* CreatePeerConnection for a call from peer p: the observer's constructor *)
(* (deleting_ false, the connection and the local data channel created)    *)
(* and its entry in peer_connectionobs_map_.                               *)
CreatePeerConnection(p, o) ==
    /\ status[o] = "unborn"
    /\ peerMap[p] = NoObserver
    /\ status' = [status EXCEPT ![o] = "alive"]
    /\ peer' = [peer EXCEPT ![o] = p]
    /\ pcOpen' = [pcOpen EXCEPT ![o] = TRUE]
    /\ peerMap' = [peerMap EXCEPT ![p] = o]
    /\ UNCHANGED <<deleting, threads, iceEvents, remoteChannels>>

(* Mutant of OnIceConnectionChange: no HangUp thread is started.           *)
OnIceConnectionChange_NoHangUp(o) ==
    /\ Live(o) /\ pcOpen[o]
    /\ iceEvents[o] < MaxIceEvents
    /\ iceEvents' = [iceEvents EXCEPT ![o] = @ + 1]
    /\ UNCHANGED <<peerMap, status, peer, deleting, pcOpen, threads, remoteChannels>>

(* OnIceConnectionChange(kIceConnectionFailed) on the signaling thread:     *)
(* the candidate list is cleared and, unless deleting_, a detached thread  *)
(* capturing `this` is started to call HangUp(peerid_).                     *)
OnIceConnectionChange(o) ==
    /\ Live(o) /\ pcOpen[o]
    /\ iceEvents[o] < MaxIceEvents
    /\ iceEvents' = [iceEvents EXCEPT ![o] = @ + 1]
    /\ threads' = IF deleting[o] THEN threads ELSE [threads EXCEPT ![o] = @ + 1]
    /\ UNCHANGED <<peerMap, status, peer, deleting, pcOpen, remoteChannels>>

(* OnDataChannel: a new DataChannelObserver is stored in remote_channel_,  *)
(* overwriting the pointer to any earlier one.                              *)
OnDataChannel(o) ==
    /\ Live(o) /\ pcOpen[o]
    /\ remoteChannels[o] < MaxRemoteChannels
    /\ remoteChannels' = [remoteChannels EXCEPT ![o] = @ + 1]
    /\ UNCHANGED <<peerMap, status, peer, deleting, pcOpen, threads, iceEvents>>

(* Mutant of HangUp: the observer is deleted but its entry is left in     *)
(* peer_connectionobs_map_.                                                *)
HangUp_NoErase(p) ==
    LET o == peerMap[p] IN
    /\ o # NoObserver
    /\ UNCHANGED peerMap
    /\ status' = [status EXCEPT ![o] = "destroying"]
    /\ remoteChannels' = [remoteChannels EXCEPT ![o] = IF @ > 0 THEN @ - 1 ELSE 0]

(* HangUp(p): under peer_map_mutex_ the observer of p is erased from the   *)
(* map and deleted; ~PeerConnectionObserver starts by deleting             *)
(* local_channel_ and remote_channel_ (the last remote one only).          *)
HangUp(p) ==
    LET o == peerMap[p] IN
    /\ o # NoObserver
    /\ peerMap' = [peerMap EXCEPT ![p] = NoObserver]
    /\ status' = [status EXCEPT ![o] = "destroying"]
    /\ remoteChannels' = [remoteChannels EXCEPT ![o] = IF @ > 0 THEN @ - 1 ELSE 0]

(* A client's HangUp request over the HTTP API.                            *)
ClientHangUp(p) ==
    /\ ClientMayHangUp
    /\ HangUp(p)
    /\ UNCHANGED <<peer, deleting, pcOpen, threads, iceEvents>>

(* The detached thread of observer o runs: it reads this->peerid_ and      *)
(* calls HangUp with it.  When o is already deleted the read is a use     *)
(* after free; the freed memory is modelled as still holding the old id.   *)
HangUpThread(o) ==
    /\ threads[o] > 0
    /\ threads' = [threads EXCEPT ![o] = @ - 1]
    /\ IF peerMap[peer[o]] # NoObserver
         THEN HangUp(peer[o])
         ELSE UNCHANGED <<peerMap, status, remoteChannels>>
    /\ UNCHANGED <<peer, deleting, pcOpen, iceEvents>>

(* Mutant of DestroyObserver: pc_->Close() is called before deleting_ is   *)
(* set, so its synchronous OnIceConnectionChange starts a HangUp thread.   *)
DestroyObserver_CloseFirst(o) ==
    /\ status[o] = "destroying"
    /\ threads' = [threads EXCEPT ![o] = @ + 1]
    /\ deleting' = [deleting EXCEPT ![o] = TRUE]
    /\ pcOpen' = [pcOpen EXCEPT ![o] = FALSE]
    /\ status' = [status EXCEPT ![o] = "deleted"]
    /\ UNCHANGED <<peerMap, peer, iceEvents, remoteChannels>>

(* The rest of ~PeerConnectionObserver: deleting_ = true, then             *)
(* pc_->Close(), whose synchronous OnIceConnectionChange(Closed) sees      *)
(* deleting_ and starts no thread; then the memory is freed.               *)
DestroyObserver(o) ==
    /\ status[o] = "destroying"
    /\ deleting' = [deleting EXCEPT ![o] = TRUE]
    /\ pcOpen' = [pcOpen EXCEPT ![o] = FALSE]
    /\ status' = [status EXCEPT ![o] = "deleted"]
    /\ UNCHANGED <<peerMap, peer, threads, iceEvents, remoteChannels>>

Next ==
    \/ \E p \in PeerIds, o \in Observers : CreatePeerConnection(p, o)
    \/ \E o \in Observers : OnIceConnectionChange(o)
    \/ \E o \in Observers : OnDataChannel(o)
    \/ \E p \in PeerIds : ClientHangUp(p)
    \/ \E o \in Observers : HangUpThread(o)
    \/ \E o \in Observers : DestroyObserver(o)

(* The OS eventually runs every detached thread, and a destructor that has *)
(* started runs to its end; clients and the network promise nothing.       *)
Fairness ==
    /\ \A o \in Observers : WF_vars(HangUpThread(o))
    /\ \A o \in Observers : WF_vars(DestroyObserver(o))

Spec == Init /\ [][Next]_vars /\ Fairness

-----------------------------------------------------------------------------
(* Properties *)

(* No detached HangUp thread is left holding a deleted observer: when it   *)
(* runs it reads peer_connection_manager_ and peerid_ through `this`.  The *)
(* deleting_ flag and the comment "pc->close call OnIceConnectionChange"   *)
(* in the destructor exist to keep such threads from being started.        *)
NoDanglingThread ==
    \A o \in Observers : threads[o] > 0 => status[o] # "deleted"

(* A connection whose ICE state failed is eventually torn down: its        *)
(* observer is deleted, through the HangUp the callback schedules.         *)
FailedPeerHungUp ==
    \A o \in Observers : iceEvents[o] > 0 ~> status[o] = "deleted"

(* Deleting an observer releases every DataChannelObserver it made for     *)
(* the remote side; none stays registered on its channel.                  *)
ChannelObserversReleased ==
    \A o \in Observers : status[o] = "deleted" => remoteChannels[o] = 0

(* Every entry of peer_connectionobs_map_ is an observer that is alive,   *)
(* neither being destroyed nor freed, and was created for that peer id.   *)
(* So however a client's HangUp, the detached HangUp threads of failed    *)
(* connections and a reconnect of the same peer interleave, HangUp only   *)
(* ever deletes a live observer, and never one twice: a stale thread      *)
(* whose observer is gone finds the id unmapped or mapped to the newer    *)
(* connection of that peer.                                                *)
MapHoldsLive ==
    \A p \in PeerIds :
        peerMap[p] # NoObserver =>
            /\ status[peerMap[p]] = "alive"
            /\ peer[peerMap[p]] = p

=============================================================================
