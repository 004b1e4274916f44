--------------------------- MODULE MC_PeerObserver ---------------------------
EXTENDS PeerObserver, TLC

(* Two peer ids and two observers: two calls live at once, or one after  *)
(* the other.                                                            *)
MC_PeerIds == {"p1", "p2"}

MC_Observers == {"o1", "o2"}

=============================================================================
