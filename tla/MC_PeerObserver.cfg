CONSTANTS
    PeerIds <- MC_PeerIds
    Observers <- MC_Observers
    NoObserver = NoObserver
    NoPeer = NoPeer
    MaxIceEvents = 2
    MaxRemoteChannels = 1
    ClientMayHangUp = TRUE
SPECIFICATION Spec
 
PROPERTY FailedPeerHungUp
CHECK_DEADLOCK FALSE
