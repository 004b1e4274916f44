CONSTANTS
    PeerIds <- MC_PeerIds
    Observers <- MC_Observers
    NoObserver = NoObserver
    NoPeer = NoPeer
    MaxIceEvents = 1
    MaxRemoteChannels = 1
    ClientMayHangUp = TRUE
SPECIFICATION Spec
INVARIANT NoDanglingThread
CHECK_DEADLOCK FALSE
